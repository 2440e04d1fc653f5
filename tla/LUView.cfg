CONSTANTS
  c1 = c1
  c2 = c2
  c3 = c3
  t1 = t1
  t2 = t2
  Nil = Nil
  Thread = {t1,t2}
  Clause = {c1,c2,c3}
  Old <- MCOld
  OldRank <- MCOldRank
  Infinite = 99
  Many = 2
  Stale <- Anything
SYMMETRY Threads
SPECIFICATION Spec
INVARIANTS NoFreedClauseWalked SearchedViewKept CountsExact
