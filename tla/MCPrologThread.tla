--------------------------- MODULE MCPrologThread ---------------------------
(* Instances of PrologThread for TLC. *)
EXTENDS PrologThread, TLC

CONSTANTS c1, c2, n1, Calls, PlainFaults, DetachedFaults, DetachedNames

MCVerbs == [c \in Callers |-> Calls]

MCFaults == [d \in BOOLEAN |-> IF d THEN DetachedFaults ELSE PlainFaults]

(* Threads with and without an alias, daemons, and detached threads. *)
MCOptions ==
  {[alias |-> n, detached |-> FALSE, daemon |-> FALSE] :
     n \in Names \cup {NoName}} \cup
  {[alias |-> NoName, detached |-> FALSE, daemon |-> TRUE]} \cup
  {[alias |-> n, detached |-> TRUE, daemon |-> FALSE] : n \in DetachedNames}

(* The callers are alike. *)
MCSymmetry == Permutations(Callers)
=============================================================================
