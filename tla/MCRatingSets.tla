---------------------------- MODULE MCRatingSets ----------------------------
(* Instances of RatingSets for TLC. *)
EXTENDS RatingSets, TLC

\* Videos and readers differ in nothing.
Symmetry == Permutations(Videos) \cup Permutations(Readers)
=============================================================================
