---------------------------- MODULE MCPollThread ----------------------------
(* Instances of PollThread for TLC. *)
EXTENDS PollThread
=============================================================================
