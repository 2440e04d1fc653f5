-------------------------- MODULE MCLogicalUpdate --------------------------
(* Values for LogicalUpdate: two clauses in the predicate, others to come. *)
EXTENDS LogicalUpdate, TLC
CONSTANTS c1, c2

MCOld     == {c1, c2}
MCOldRank == c1 :> 1 @@ c2 :> 2
MCOne     == {c1}
MCOneRank == c1 :> 1
Zeroed    == {[created |-> 0, erased |-> 0]}
Anything  == {[created |-> 0, erased |-> 0], [created |-> 0, erased |-> Infinite]}
Threads   == Permutations(Thread)
============================================================================
