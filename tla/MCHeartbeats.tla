---------------------------- MODULE MCHeartbeats ----------------------------
(* An instance of Heartbeats for TLC. *)
EXTENDS Heartbeats
=============================================================================
