--------------------------- MODULE MCMessageQueue ---------------------------
(* Instances of MessageQueue for TLC. *)
EXTENDS MessageQueue, TLC

CONSTANTS
  Senders, Receivers, Destroyers, Inspectors    \* who calls what

MCCalls == [t \in Threads |->
  (IF t \in Senders THEN {"send"} ELSE {}) \cup
  (IF t \in Receivers THEN {"get", "peek"} ELSE {}) \cup
  (IF t \in Destroyers THEN {"destroy"} ELSE {}) \cup
  (IF t \in Inspectors THEN {"property"} ELSE {})]

(* An unbound variable, or a pattern that only one of the messages matches. *)
MCPatterns == {Msgs} \cup {{m} : m \in Msgs}

(* The messages are alike. *)
MCSymmetry == Permutations(Msgs)
=============================================================================
