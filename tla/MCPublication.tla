----------------------------- MODULE MCPublication -----------------------------
(* Instances of Publication for TLC. *)
EXTENDS Publication, TLC

CONSTANTS k1, k2
Symmetry == Permutations(Inline)
=============================================================================
