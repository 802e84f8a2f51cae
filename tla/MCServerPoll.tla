---------------------------- MODULE MCServerPoll ----------------------------
(* Instances of ServerPoll for TLC. *)
EXTENDS ServerPoll
=============================================================================
