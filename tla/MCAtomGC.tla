------------------------------ MODULE MCAtomGC ------------------------------
(* Instances of AtomGC for TLC. *)
EXTENDS AtomGC, TLC

CONSTANTS s1, s2

(* Structures are alike. *)
MCSymmetry == Permutations(Structures)
=============================================================================
