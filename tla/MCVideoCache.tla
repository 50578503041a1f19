---------------------------- MODULE MCVideoCache ----------------------------
(* Instances of VideoCache for TLC. *)
EXTENDS VideoCache
============================================================================
