---------------------------- MODULE MCPopularity ----------------------------
(* Instances of Popularity for TLC. *)
EXTENDS Popularity, TLC

\* Readers differ in nothing.
Symmetry == Permutations(Readers)
=============================================================================
