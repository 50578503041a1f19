----------------------------- MODULE MCUpload -------------------------------
(* Instances of Upload for TLC. *)
EXTENDS Upload, TLC

CONSTANTS u1, u2, file

OneFile == (u1 :> file) @@ (u2 :> file)

Symmetry == Permutations(Requests) \cup Permutations(Uploads)
=============================================================================
