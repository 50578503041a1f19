----------------------------- MODULE MCSSEHub -----------------------------
(* Instances of SSEHub for TLC. *)
EXTENDS SSEHub, TLC
===========================================================================
