CONSTANTS
  k1 = k1
  k2 = k2
  c1 = c1
  c2 = c2
  c3 = c3
  f1 = f1
  f2 = f2
  Nil = Nil
  NoKey = NoKey
  Clause = {c1,c2,c3}
  Key = {k1, k2}
  GoalKey = {k1}
  Frame = {f1,f2}
  Table = {1,2}
  KeyOf <- MCKeyOf
  Bucket = {0,1}
  HashIndex <- MCHash
  Start <- MCStart
  Few = 1
  Many = 2
  VarShare = 1
  MaxSearch = 1
  Unsigned = 64
  Above <- MCAbove
  Below <- MCBelow
SYMMETRY Frames
SPECIFICATION Spec
INVARIANTS CheckDefinition BucketsFollowChain WalkedTableLives ViewServed
