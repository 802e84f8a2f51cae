----------------------------- MODULE MCSendPath -----------------------------
(* Two threads that send, two connections at a time, three over time.       *)
EXTENDS SendPath
CONSTANTS t1, t2
=============================================================================
