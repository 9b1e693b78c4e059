------------------------------ MODULE MCHeartbeat ------------------------------
(***************************************************************************)
(* Heartbeat for TLC.  A tick is half a second: the timeouts of the        *)
(* gateway are 3.0 s (heartbeat), 2.0 s (request) and 1.0 s (pause).       *)
(***************************************************************************)
EXTENDS Heartbeat

CONSTANTS a, b

MCMembers == <<a, b>>

=============================================================================
