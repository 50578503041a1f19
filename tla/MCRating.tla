------------------------------ MODULE MCRating ------------------------------
(* Instances of Rating for TLC. *)
EXTENDS Rating, TLC

\* Accounts differ in nothing, and neither do requests.
Symmetry == Permutations(Accounts) \cup Permutations(Requests)
============================================================================
