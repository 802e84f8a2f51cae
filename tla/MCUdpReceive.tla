---------------------------- MODULE MCUdpReceive ----------------------------
(* Instances of UdpReceive for TLC. *)
EXTENDS UdpReceive

CONSTANT h1
Outsider == {<<h1, 3>>}

Made == {"good", "nil"}
Sized4 == Made \cup {"over", "under"}
Whatever == Sized4 \cup {"empty", "short"}

\* A server, with addresses used again or not, and a client, with and without a
\* log_callback; udtcp senders with enough memory, or every sender and malloc
\* failing.
AllScenes ==
  [side : {"server"}, reuse : {TRUE}, kinds : {Made}, faults : {FALSE}, logs : {FALSE}]
  \cup [side : {"client"}, reuse : {FALSE}, kinds : {Made}, faults : {FALSE}, logs : BOOLEAN]
  \cup [side : {"server", "client"}, reuse : {FALSE}, kinds : {Sized4}, faults : {FALSE},
        logs : {FALSE}]
  \cup [side : {"server"}, reuse : {FALSE}, kinds : {Whatever}, faults : {TRUE}, logs : {FALSE}]
  \cup [side : {"client"}, reuse : {FALSE}, kinds : {Whatever}, faults : {TRUE}, logs : BOOLEAN]
=============================================================================
