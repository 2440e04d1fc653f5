--------------------------- MODULE MCClauseIndex ---------------------------
(* Values for ClauseIndex: two clauses with a key, one without. *)
EXTENDS ClauseIndex, TLC
CONSTANTS k1, k2, c1, c2, c3

MCKeyOf == c1 :> k1 @@ c2 :> k2 @@ c3 :> NoKey
MCHash  == k1 :> 0 @@ k2 :> 1
MCStart == <<c1, c2>>
MCAbove(n) == n
MCBelow(n) == n \div 2
Frames  == Permutations(Frame)
=============================================================================
