------------------------------ MODULE Delivery ------------------------------
(***************************************************************************)
(* What receive_tcp_callback promises of the messages of a TCP connection. *)
(* Whatever the network does, what is delivered are disjoint pieces of the *)
(* stream in stream order, and nothing comes after the disconnection.  If  *)
(* the stream is `whole' (no piece of it ends in or just behind the length *)
(* of a message, and no error is mistaken), every piece delivered is one   *)
(* of the messages sent, and none but empty ones was left out before it.   *)
(* TcpReceive implements this module.                                      *)
(***************************************************************************)
EXTENDS Integers, Sequences, Functions

CONSTANTS Peers, HDR, Sizes

VARIABLES whole,   \* the stream is whole
          msgs,    \* per peer, the messages written: offset and length
          seen,    \* per peer, the messages delivered, likewise
          open     \* per peer, the connection is not yet closed

vars == <<whole, msgs, seen, open>>

\* The first offset behind the last message of a sequence.
End(s) == IF s = <<>> THEN 0
                      ELSE LET m == s[Len(s)] IN m.at + HDR + m.len

Init ==
  /\ whole \in BOOLEAN
  /\ msgs = [p \in Peers |-> <<>>]
  /\ seen = [p \in Peers |-> <<>>]
  /\ open \in [Peers -> BOOLEAN]

Send(p) ==
  /\ \E n \in Sizes :
       msgs' = [msgs EXCEPT ![p] = Append(@, [at |-> End(@), len |-> n])]
  /\ UNCHANGED <<whole, seen, open>>

\* m may be delivered to the callback.
Due(p, m) ==
  /\ m.at >= End(seen[p])
  /\ m.at + HDR + m.len <= End(msgs[p])
  /\ whole => /\ m \in Range(msgs[p])
              /\ \A l \in Range(msgs[p]) :
                   l.at < m.at => l.len = 0 \/ l \in Range(seen[p])

\* receive_tcp_callback; its connection may be given up behind it.
Deliver(p) ==
  /\ open[p]
  /\ \E a \in 0..End(msgs[p]), n \in Sizes :
       LET m == [at |-> a, len |-> n]
       IN  /\ Due(p, m)
           /\ seen' = [seen EXCEPT ![p] = Append(@, m)]
  /\ \E b \in BOOLEAN : open' = [open EXCEPT ![p] = b]
  /\ UNCHANGED <<whole, msgs>>

Close(p) ==
  /\ open' = [open EXCEPT ![p] = FALSE]
  /\ UNCHANGED <<whole, msgs, seen>>

Next == \E p \in Peers : Send(p) \/ Deliver(p) \/ Close(p)

Spec == Init /\ [][Next]_vars
=============================================================================
