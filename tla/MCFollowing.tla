---------------------------- MODULE MCFollowing -----------------------------
(* Instances of Following for TLC. *)
EXTENDS Following, TLC

CONSTANTS ann, bob

InTurn == <<ann, bob, ann, bob>>
Apart == <<1, 4, 7, 10>>

Symmetry == Permutations(Requests)
============================================================================
