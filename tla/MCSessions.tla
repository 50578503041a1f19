----------------------------- MODULE MCSessions -----------------------------
(* Instances of Sessions for TLC. *)
EXTENDS Sessions, TLC

\* Requests differ in nothing.
Symmetry == Permutations(Requests)
=============================================================================
