---------------------------- MODULE MCThreadPool ----------------------------
(* Instances of ThreadPool for TLC. *)
EXTENDS ThreadPool, TLC

CONSTANTS c1, c2, c3, w1, w2, w3, Verbs1, Verbs2, Verbs3

(* One client only uses the pool, one also destroys, one also creates it. *)
MCCalls ==
  [c \in Clients |-> CASE c = c1 -> Verbs1 [] c = c2 -> Verbs2 [] OTHER -> Verbs3]
=============================================================================
