---------------------------- MODULE MCTcpReceive ----------------------------
(* Instances of TcpReceive for TLC. *)
EXTENDS TcpReceive

CONSTANTS p1, p2

Alone == [side : {"server", "client"}, cuts : {"payload", "any"},
          faults : BOOLEAN, logs : BOOLEAN, peers : {{p1}}]
Together == [side : {"server"}, cuts : {"payload"}, faults : {FALSE},
             logs : {FALSE}, peers : {{p1, p2}}]

\* Every circumstance with one peer, the quiet one with two.
AloneOrTogether == Alone \cup Together

\* Pieces of the stream end anywhere, and nothing else goes wrong.
AnyCuts == [side : {"server"}, cuts : {"any"}, faults : {FALSE}, logs : {FALSE},
            peers : {{p1}}]

\* Two messages of the first peer, one of the second.
TwoAndOne == [p \in Peers |-> IF p = p1 THEN 2 ELSE 1]
=============================================================================
