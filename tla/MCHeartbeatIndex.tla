-------------------------- MODULE MCHeartbeatIndex --------------------------
(* TLC instances of HeartbeatIndex. *)
EXTENDS HeartbeatIndex
=============================================================================
