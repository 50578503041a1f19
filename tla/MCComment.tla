----------------------------- MODULE MCComment -----------------------------
(* Instances of Comment for TLC. *)
EXTENDS Comment, TLC

Symmetry == Permutations(Requests)
============================================================================
