---------------------------- MODULE MCGlobalFeed ----------------------------
(* Instances of GlobalFeed for TLC. *)
EXTENDS GlobalFeed, TLC
=============================================================================
