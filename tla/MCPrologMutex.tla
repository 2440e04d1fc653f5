--------------------------- MODULE MCPrologMutex ---------------------------
(* Instances of PrologMutex for TLC. *)
EXTENDS PrologMutex, TLC

CONSTANTS t1, t2, t3, Verbs     \* the predicates that every thread calls

MCCalls == [t \in Threads |-> Verbs]

(* The threads are alike. *)
MCSymmetry == Permutations(Threads)
=============================================================================
