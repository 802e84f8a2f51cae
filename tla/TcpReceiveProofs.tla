-------------------------- MODULE TcpReceiveProofs --------------------------
(***************************************************************************)
(* Proofs about TcpReceive, for any number of connections and messages of  *)
(* any length, and any way in which TCP cuts the stream.                   *)
(***************************************************************************)
EXTENDS TcpReceive, SequenceTheorems, TLAPS

\* The messages of a peer, where one of them ends, and the offsets at which a
\* message begins or will begin.
Sent(p) == Range(msgs[p])
MsgEnd(m) == m.at + HDR + m.len
Boundaries(p) == {Written(p)} \cup {m.at : m \in Sent(p)}

\* The messages of a peer follow each other without gap or overlap.
LaidOut ==
  \A p \in Peers :
    /\ 0 \in Boundaries(p)
    /\ \A m \in Sent(p) : MsgEnd(m) \in Boundaries(p) /\ MsgEnd(m) <= Written(p)
    /\ \A l, m \in Sent(p) : l.at < m.at => MsgEnd(l) <= m.at
    /\ \A l, m \in Sent(p) : l.at = m.at => l = m

\* receive_tcp has read the size of a message and not delivered it yet.
InMessage == pc \in {"payload", "rest", "deliver"}

\* How far the stream of a peer is dealt with: up to the message under way.
Settled(p) == IF p = cur /\ InMessage THEN at ELSE read[p]

\* receive_tcp runs for a connection that is not dropped, and its local
\* variables tell what it has read.
CallFits ==
  /\ pc # "poll" => conn[cur]
  /\ InMessage => read[cur] = at + HDR + got
  /\ pc = "payload" => got = 0

\* What was delivered lies before what is still to be dealt with.
DeliveredBefore == \A p \in Peers : End(seen[p]) <= Settled(p)

\* Something more may be read from peer p.  (A log_callback can keep a connection
\* that was reset, or one whose message a stop interrupted; nothing is read from
\* it any more.)
Reads(p) ==
  /\ conn[p]
  /\ \/ p = cur /\ InMessage
     \/ /\ poll_loop \/ (p = cur /\ pc = "size")
        /\ ~(ended[p] = "rst" /\ Avail(p) = 0)

\* Offset n is one where a piece of the stream may end if it is whole.
PieceEnd(p, n) ==
  \/ n = 0
  \/ \E m \in Sent(p) : n \in (m.at + HDR + IF m.len = 0 THEN 0 ELSE 1)..MsgEnd(m)

\* In a whole stream the reader never loses the place: what it is about to
\* read begins with a size, and what it is reading is a message.
InStep ==
  Whole =>
    /\ \A p \in Peers : PieceEnd(p, arrived[p])
    /\ \A p \in Peers : Reads(p) => Settled(p) \in Boundaries(p)
    /\ InMessage => [at |-> at, len |-> data_size] \in Sent(cur)

\* In a whole stream no message was left out, unless it is empty.
NoneLeftOut ==
  Whole =>
    \A p \in Peers : Reads(p) =>
      \A m \in Sent(p) : m.at < Settled(p) => m.len = 0 \/ m \in Range(seen[p])

\* Without faults every length is one that is positive as an int.
LengthsOrdinary ==
  ~scene.faults => \A p \in Peers : \A m \in Sent(p) : m.len \in 1..(IntLimit - 1)

TcpInv ==
  /\ TypeOK
  /\ LaidOut
  /\ CallFits
  /\ DeliveredBefore
  /\ InStep
  /\ NoneLeftOut
  /\ LengthsOrdinary
  /\ KeptWhilePeerStays
-----------------------------------------------------------------------------
\* Facts about sequences of messages.

\* The elements of a longer sequence.
LEMMA RangeAppend ==
  ASSUME NEW S, NEW s \in Seq(S), NEW e \in S
  PROVE  Range(Append(s, e)) = Range(s) \cup {e}
<1> DEFINE t == Append(s, e)
<1>1. Len(s) \in Nat /\ DOMAIN s = 1..Len(s)
  BY LenProperties
<1>2. /\ DOMAIN t = 1..(Len(s) + 1)
      /\ \A k \in 1..Len(s) : t[k] = s[k]
      /\ t[Len(s) + 1] = e
  BY <1>1
<1> HIDE DEF t
<1>3. Range(t) \subseteq Range(s) \cup {e}
  <2> SUFFICES ASSUME NEW k \in DOMAIN t PROVE t[k] \in Range(s) \cup {e}
    BY DEF Range
  <2>1. k = Len(s) + 1 \/ k \in DOMAIN s
    BY <1>1, <1>2
  <2> QED
    BY <1>1, <1>2, <2>1 DEF Range
<1>4. Range(s) \subseteq Range(t)
  <2> SUFFICES ASSUME NEW k \in DOMAIN s PROVE s[k] \in Range(t)
    BY DEF Range
  <2>1. k \in DOMAIN t /\ t[k] = s[k]
    BY <1>1, <1>2
  <2> QED
    BY <2>1 DEF Range
<1>5. e \in Range(t)
  <2>1. Len(s) + 1 \in DOMAIN t
    BY <1>1, <1>2
  <2> QED
    BY <1>2, <2>1 DEF Range
<1> QED
  BY <1>3, <1>4, <1>5 DEF t

\* The last message of a sequence tells where it ends.
LEMMA EndAppend ==
  ASSUME NEW s \in Seq(Message), NEW m \in Message
  PROVE  End(Append(s, m)) = MsgEnd(m)
<1>1. Len(Append(s, m)) = Len(s) + 1 /\ Append(s, m)[Len(s) + 1] = m /\ Append(s, m) # <<>>
  BY AppendProperties
<1> QED
  BY <1>1 DEF End, MsgEnd

\* A sequence of messages ends at an offset.
LEMMA EndIsNat ==
  ASSUME NEW s \in Seq(Message)
  PROVE  End(s) \in Nat /\ Range(s) \subseteq Message
<1>1. \A k \in 1..Len(s) : s[k] \in Message
  BY ElementOfSeq
<1>2. Len(s) \in Nat /\ DOMAIN s = 1..Len(s)
  BY LenProperties
<1>3. \A m \in Message : m.at + HDR + m.len \in Nat
  <2>1. HDR \in Nat /\ Sizes \subseteq Nat
    BY TcpReceiveAssumption
  <2> SUFFICES ASSUME NEW m \in Message PROVE m.at + HDR + m.len \in Nat
    OBVIOUS
  <2>2. m.at \in Nat /\ m.len \in Nat
    BY <2>1 DEF Message
  <2> QED
    BY <2>1, <2>2
<1>4. s # <<>> => Len(s) \in 1..Len(s)
  BY EmptySeq, <1>2
<1> QED
  BY <1>1, <1>2, <1>3, <1>4 DEF End, Range

\* The numbers the proofs reason about are natural numbers.
LEMMA Numbers ==
  ASSUME TypeOK
  PROVE  /\ HDR \in Nat /\ HDR > 0 /\ Sizes \subseteq Nat
         /\ at \in Nat /\ data_size \in Nat /\ got \in Nat /\ got <= data_size
         /\ cur \in Peers /\ scene.cuts \in {"payload", "any"}
         /\ \A p \in Peers :
              /\ Written(p) \in Nat /\ End(seen[p]) \in Nat
              /\ read[p] \in Nat /\ arrived[p] \in Nat
              /\ read[p] <= arrived[p] /\ arrived[p] <= Written(p)
              /\ \A m \in Sent(p) : m.at \in Nat /\ m.len \in Nat /\ m.len \in Sizes
                                   /\ m = [at |-> m.at, len |-> m.len]
<1>1. HDR \in Nat /\ HDR > 0 /\ Sizes \subseteq Nat
  BY TcpReceiveAssumption
<1>2. at \in Nat /\ data_size \in Nat /\ got \in Nat /\ got <= data_size
  BY <1>1 DEF TypeOK
<1>3. cur \in Peers /\ scene.cuts \in {"payload", "any"}
  BY TcpReceiveAssumption DEF TypeOK, Scene
<1>4. ASSUME NEW p \in Peers
      PROVE  /\ Written(p) \in Nat /\ End(seen[p]) \in Nat
             /\ read[p] \in Nat /\ arrived[p] \in Nat
             /\ read[p] <= arrived[p] /\ arrived[p] <= Written(p)
             /\ Sent(p) \subseteq Message
  <2>1. msgs[p] \in Seq(Message) /\ seen[p] \in Seq(Message)
    BY DEF TypeOK
  <2> QED
    BY <2>1, EndIsNat DEF TypeOK, Written, Sent
<1>5. \A m \in Message : m.at \in Nat /\ m.len \in Nat /\ m.len \in Sizes
                        /\ m = [at |-> m.at, len |-> m.len]
  <2> SUFFICES ASSUME NEW m \in Message
               PROVE  /\ m.at \in Nat /\ m.len \in Nat /\ m.len \in Sizes
                      /\ m = [at |-> m.at, len |-> m.len]
    OBVIOUS
  <2>1. m.at \in Nat /\ m.len \in Sizes
    BY DEF Message
  <2>2. m = [at |-> m.at, len |-> m.len]
    BY DEF Message
  <2> QED
    BY <1>1, <2>1, <2>2
<1> QED
  BY <1>1, <1>2, <1>3, <1>4, <1>5

\* A length of less than 2^31 is the int it is returned as.
LEMMA OrdinaryAsInt ==
  ASSUME NEW n \in 1..(IntLimit - 1)
  PROVE  AsInt(n) = n
<1>1. IntLimit \in Nat
  BY TcpReceiveAssumption
<1>2. \A a, b \in Nat : a < b => a % b = a
  OBVIOUS
<1>3. n + IntLimit \in Nat /\ 2 * IntLimit \in Nat /\ n + IntLimit < 2 * IntLimit
  BY <1>1
<1>4. (n + IntLimit) % (2 * IntLimit) = n + IntLimit
  BY <1>2, <1>3
<1> QED
  BY <1>1, <1>4 DEF AsInt
-----------------------------------------------------------------------------
\* Nothing is written and nothing read at first.
LEMMA TcpInit == Init => TcpInv
<1> SUFFICES ASSUME Init PROVE TcpInv
  OBVIOUS
<1>0. scene \in Scene /\ scene.peers \subseteq Peers /\ 0 \in Nat
  BY TcpReceiveAssumption DEF Init, Scene
<1>1. \A p \in Peers : msgs[p] = <<>> /\ seen[p] = <<>> /\ Written(p) = 0 /\ End(seen[p]) = 0
  BY DEF Init, Written, End
<1>2. \A p \in Peers : Sent(p) = {}
  BY <1>1 DEF Sent, Range
<1>3. TypeOK
  BY <1>0, <1>1 DEF Init, TypeOK, Errnos
<1>4. LaidOut /\ LengthsOrdinary
  BY <1>1, <1>2 DEF LaidOut, Boundaries, LengthsOrdinary
<1>5. \A p \in Peers : Settled(p) = 0
  BY DEF Init, Settled, InMessage
<1>6. CallFits /\ DeliveredBefore
  BY <1>1, <1>5 DEF Init, CallFits, DeliveredBefore, InMessage
<1>7. InStep /\ NoneLeftOut
  BY <1>1, <1>2, <1>5 DEF Init, InStep, NoneLeftOut, InMessage, Boundaries, PieceEnd
<1>8. KeptWhilePeerStays
  BY DEF Init, KeptWhilePeerStays
<1> QED
  BY <1>3, <1>4, <1>6, <1>7, <1>8 DEF TcpInv

\* udtcp_send_tcp of the peer: a message behind the last one.
LEMMA PeerSendsStep ==
  ASSUME TcpInv, NEW p \in Peers, PeerSends(p)
  PROVE  TcpInv'
<1>t. TypeOK /\ LaidOut /\ CallFits /\ InStep /\ NoneLeftOut /\ LengthsOrdinary
  BY DEF TcpInv
<1>n. TypeOK
  BY <1>t
<1>1. PICK n \in IF scene.faults THEN Sizes ELSE Sizes \cap 1..(IntLimit - 1) :
        msgs' = [msgs EXCEPT ![p] = Append(@, [at |-> Written(p), len |-> n])]
  BY DEF PeerSends
<1>2. UNCHANGED <<scene, ended, arrived, read, conn, seen, poll_loop, errno,
                  buffer_size, pc, call>>
  BY DEF PeerSends
<1> DEFINE new == [at |-> Written(p), len |-> n]
<1>3. n \in Sizes /\ n \in Nat /\ new \in Message /\ new.at = Written(p) /\ new.len = n
  BY <1>1, <1>n, Numbers DEF Message
<1>4. /\ msgs' \in [Peers -> Seq(Message)]
      /\ msgs[p] \in Seq(Message) /\ msgs'[p] = Append(msgs[p], new)
      /\ \A q \in Peers : q # p => msgs'[q] = msgs[q]
  BY <1>1, <1>3, <1>n DEF TypeOK
<1> HIDE DEF new
<1>5. Sent(p)' = Sent(p) \cup {new} /\ Written(p)' = MsgEnd(new)
  BY <1>3, <1>4, RangeAppend, EndAppend DEF Sent, Written
<1>6. \A q \in Peers : q # p => Sent(q)' = Sent(q) /\ Written(q)' = Written(q)
  BY <1>4 DEF Sent, Written
<1>7. MsgEnd(new) = Written(p) + HDR + n
  BY <1>3 DEF MsgEnd
<1>8. \A q \in Peers : Boundaries(q) \subseteq Boundaries(q)'
  BY <1>3, <1>5, <1>6 DEF Boundaries
<1>9. Written(p) < Written(p)' /\ Written(p)' \in Nat
  BY <1>3, <1>5, <1>7, <1>n, Numbers
<1>10. TypeOK'
  <2>1. \A q \in Peers : read[q] <= arrived[q] /\ arrived[q] <= Written(q)'
    BY <1>6, <1>9, <1>n, Numbers
  <2> QED
    BY <1>2, <1>4, <1>n, <2>1 DEF TypeOK, call
<1>11. \A q \in Peers : Settled(q)' = Settled(q) /\ Settled(q) <= Written(q) /\ Settled(q) \in Nat
  BY <1>2, <1>t, <1>n, Numbers DEF Settled, InMessage, CallFits, call
<1>r. Whole' = Whole /\ \A q \in Peers : Reads(q)' = Reads(q)
  BY <1>2 DEF Whole, Reads, InMessage, Avail, call
<1>12. LaidOut'
  <2> SUFFICES ASSUME NEW q \in Peers
               PROVE  /\ 0 \in Boundaries(q)'
                      /\ \A m \in Sent(q)' : MsgEnd(m) \in Boundaries(q)' /\ MsgEnd(m) <= Written(q)'
                      /\ \A l, m \in Sent(q)' : l.at < m.at => MsgEnd(l) <= m.at
                      /\ \A l, m \in Sent(q)' : l.at = m.at => l = m
    BY DEF LaidOut, MsgEnd
  <2>1. CASE q # p
    BY <1>6, <1>t, <2>1 DEF LaidOut, Boundaries
  <2>2. CASE q = p
    <3>1. 0 \in Boundaries(q)'
      BY <1>8, <1>t DEF LaidOut
    <3>2. \A m \in Sent(p) : /\ MsgEnd(m) \in Boundaries(p) /\ MsgEnd(m) <= Written(p)
                            /\ MsgEnd(m) \in Nat /\ m.at \in Nat /\ m.at < MsgEnd(m)
      BY <1>t, <1>n, Numbers DEF LaidOut, MsgEnd
    <3>3. \A m \in Sent(q)' : MsgEnd(m) \in Boundaries(q)' /\ MsgEnd(m) <= Written(q)'
      <4>1. Written(p) \in Nat /\ Written(p)' \in Boundaries(p)'
        BY <1>n, Numbers DEF Boundaries
      <4> QED
        BY <1>5, <1>8, <1>9, <2>2, <3>2, <4>1
    <3>4. \A l, m \in Sent(p) : (l.at < m.at => MsgEnd(l) <= m.at) /\ (l.at = m.at => l = m)
      BY <1>t DEF LaidOut
    <3>5. \A l, m \in Sent(q)' : (l.at < m.at => MsgEnd(l) <= m.at) /\ (l.at = m.at => l = m)
      <4>1. Written(p) \in Nat
        BY <1>n, Numbers
      <4> QED
        BY <1>3, <1>5, <2>2, <3>2, <3>4, <4>1
    <3> QED
      BY <3>1, <3>3, <3>5
  <2> QED
    BY <2>1, <2>2
<1>13. CallFits' /\ DeliveredBefore' /\ KeptWhilePeerStays'
  BY <1>2, <1>11 DEF TcpInv, CallFits, DeliveredBefore, KeptWhilePeerStays, InMessage, call
<1>14. InStep'
  <2>1. \A q \in Peers : Sent(q) \subseteq Sent(q)'
    BY <1>5, <1>6
  <2>2. cur \in Peers
    BY <1>n DEF TypeOK
  <2> QED
    BY <1>2, <1>8, <1>11, <1>r, <1>t, <2>1, <2>2 DEF InStep, PieceEnd, InMessage, call, MsgEnd
<1>15. NoneLeftOut'
  BY <1>2, <1>3, <1>5, <1>6, <1>11, <1>r, <1>t, <1>n, Numbers DEF NoneLeftOut
<1>16. LengthsOrdinary'
  BY <1>1, <1>2, <1>3, <1>5, <1>6, <1>t DEF LengthsOrdinary
<1> QED
  BY <1>10, <1>12, <1>13, <1>14, <1>15, <1>16 DEF TcpInv

\* The peer closes or resets the connection.
LEMMA PeerEndsStep ==
  ASSUME TcpInv, NEW p \in Peers, PeerEnds(p)
  PROVE  TcpInv'
<1>1. PICK e \in {"fin", "rst"} : ended' = [ended EXCEPT ![p] = e]
  BY DEF PeerEnds
<1>2. UNCHANGED <<scene, msgs, arrived, read, conn, seen, poll_loop, errno,
                  buffer_size, pc, call>>
  BY DEF PeerEnds
<1>3. TypeOK' /\ KeptWhilePeerStays'
  BY <1>1, <1>2 DEF TcpInv, TypeOK, KeptWhilePeerStays, Written, call
<1>4. LaidOut' /\ CallFits' /\ DeliveredBefore' /\ LengthsOrdinary'
  BY <1>2 DEF TcpInv, LaidOut, CallFits, DeliveredBefore, LengthsOrdinary, Sent, Boundaries,
     Written, Settled, InMessage, call, MsgEnd
<1>r. Whole' = Whole /\ \A q \in Peers : Reads(q)' => Reads(q)
  <2> SUFFICES ASSUME NEW q \in Peers, Reads(q)' PROVE Reads(q)
    BY <1>2 DEF Whole
  <2>1. ended[q] = "rst" => ended'[q] = "rst"
    BY <1>1 DEF PeerEnds, TcpInv, TypeOK
  <2> QED
    BY <1>2, <2>1 DEF Reads, InMessage, Avail, call
<1>5. InStep' /\ NoneLeftOut'
  BY <1>2, <1>r DEF TcpInv, InStep, NoneLeftOut, PieceEnd, Sent, Boundaries, Written, Settled,
     InMessage, call, MsgEnd
<1> QED
  BY <1>3, <1>4, <1>5 DEF TcpInv

\* A piece of the stream arrives, which ends where pieces may end.
LEMMA ArrivesStep ==
  ASSUME TcpInv, NEW p \in Peers, Arrives(p)
  PROVE  TcpInv'
<1>t. TypeOK /\ InStep
  BY DEF TcpInv
<1>1. PICK n \in (arrived[p] + 1)..Written(p) :
        MayCut(p, n) /\ arrived' = [arrived EXCEPT ![p] = n]
  BY DEF Arrives
<1>2. UNCHANGED <<scene, msgs, ended, read, conn, seen, poll_loop, errno,
                  buffer_size, pc, call>>
  BY DEF Arrives, peer
<1>3. n \in Nat /\ arrived[p] < n /\ n <= Written(p)
  BY <1>1, <1>t, Numbers
<1>4. TypeOK'
  <2>1. \A q \in Peers : read[q] <= arrived'[q] /\ arrived'[q] <= Written(q)
    BY <1>1, <1>3, <1>t, Numbers DEF TypeOK
  <2> QED
    BY <1>1, <1>2, <1>3, <1>t, <2>1 DEF TypeOK, Written, call
<1>r. Whole' = Whole /\ \A q \in Peers : Reads(q)' => Reads(q)
  <2> SUFFICES ASSUME NEW q \in Peers, Reads(q)' PROVE Reads(q)
    BY <1>2 DEF Whole
  <2>1. CASE q = p
    BY <1>2, <2>1 DEF Arrives, Reads, InMessage, call
  <2>2. CASE q # p
    <3>1. arrived'[q] = arrived[q]
      BY <1>1, <1>t, <2>2 DEF TypeOK
    <3> QED
      BY <1>2, <3>1 DEF Reads, InMessage, Avail, call
  <2> QED
    BY <2>1, <2>2
<1>5. InStep'
  <2>1. Whole => \A q \in Peers : PieceEnd(q, arrived'[q])
    BY <1>1, <1>t DEF Whole, InStep, PieceEnd, MayCut, Sent, MsgEnd, TypeOK
  <2> QED
    BY <1>2, <1>r, <1>t, <2>1 DEF InStep, PieceEnd, Sent, Boundaries, Written, Settled,
     InMessage, call, MsgEnd
<1>6. LaidOut' /\ CallFits' /\ DeliveredBefore' /\ LengthsOrdinary'
  BY <1>2 DEF TcpInv, LaidOut, CallFits, DeliveredBefore, LengthsOrdinary, Sent, Boundaries,
     Written, Settled, InMessage, call, MsgEnd
<1>7. NoneLeftOut' /\ KeptWhilePeerStays'
  BY <1>2, <1>r DEF TcpInv, NoneLeftOut, KeptWhilePeerStays, Sent, Settled, InMessage, call
<1> QED
  BY <1>4, <1>5, <1>6, <1>7 DEF TcpInv

\* The scan calls receive_tcp for a connection that is not dropped.
LEMMA ServeStep ==
  ASSUME TcpInv, NEW p \in Peers, Serve(p)
  PROVE  TcpInv'
<1>1. /\ pc = "poll" /\ poll_loop /\ conn[p] /\ pc' = "size" /\ cur' = p
      /\ UNCHANGED <<scene, msgs, ended, arrived, read, conn, seen, poll_loop, errno,
                     buffer_size, at, data_size, got>>
  BY DEF Serve, Readable, peer
<1>2. TypeOK' /\ KeptWhilePeerStays'
  BY <1>1 DEF TcpInv, TypeOK, KeptWhilePeerStays, Written
<1>3. ~InMessage /\ ~InMessage' /\ \A q \in Peers : Settled(q)' = Settled(q)
  BY <1>1 DEF Settled, InMessage
<1>4. LaidOut' /\ CallFits' /\ DeliveredBefore' /\ LengthsOrdinary'
  BY <1>1, <1>3 DEF TcpInv, LaidOut, CallFits, DeliveredBefore, LengthsOrdinary, Sent,
     Boundaries, Written, MsgEnd
<1>r. Whole' = Whole /\ \A q \in Peers : Reads(q)' => Reads(q)
  BY <1>1, <1>3 DEF Whole, Reads, Avail
<1>5. InStep' /\ NoneLeftOut'
  BY <1>1, <1>3, <1>r DEF TcpInv, InStep, NoneLeftOut, PieceEnd, Sent, Boundaries, Written, MsgEnd
<1> QED
  BY <1>2, <1>4, <1>5 DEF TcpInv

\* The application stops the thread.
LEMMA StopStep ==
  ASSUME TcpInv, StopCalled
  PROVE  TcpInv'
<1>1. poll_loop' = FALSE /\ UNCHANGED <<scene, msgs, ended, arrived, read, conn, seen, errno,
                                      buffer_size, pc, call>>
  BY DEF StopCalled, peer
<1>2. TypeOK' /\ KeptWhilePeerStays'
  BY <1>1 DEF TcpInv, TypeOK, KeptWhilePeerStays, Written, call
<1>3. LaidOut' /\ CallFits' /\ DeliveredBefore' /\ LengthsOrdinary'
  BY <1>1 DEF TcpInv, LaidOut, CallFits, DeliveredBefore, LengthsOrdinary, Sent, Boundaries,
     Written, Settled, InMessage, call, MsgEnd
<1>r. Whole' = Whole /\ \A q \in Peers : Reads(q)' => Reads(q)
  BY <1>1 DEF Whole, Reads, InMessage, Avail, call
<1>4. InStep' /\ NoneLeftOut'
  BY <1>1, <1>r DEF TcpInv, InStep, NoneLeftOut, PieceEnd, Sent, Boundaries, Written, Settled,
     InMessage, call, MsgEnd
<1> QED
  BY <1>2, <1>3, <1>4 DEF TcpInv
-----------------------------------------------------------------------------
\* What a whole stream means for the reader.

\* A piece that goes beyond the beginning of a message holds its size, and the
\* first byte of its payload if it has one.
LEMMA PieceHoldsSize ==
  ASSUME TypeOK, LaidOut, NEW p \in Peers, NEW m \in Sent(p), NEW n \in Nat,
         PieceEnd(p, n), n > m.at
  PROVE  n >= m.at + HDR /\ (m.len > 0 => n > m.at + HDR)
<1>0. HDR \in Nat /\ HDR > 0 /\ m.at \in Nat /\ m.len \in Nat
  BY Numbers
<1>1. PICK l \in Sent(p) :
        n \in (l.at + HDR + IF l.len = 0 THEN 0 ELSE 1)..MsgEnd(l)
  BY <1>0 DEF PieceEnd
<1>2. l.at \in Nat /\ l.len \in Nat
  BY Numbers
<1>3. n >= l.at + HDR /\ n <= MsgEnd(l) /\ (l.len > 0 => n > l.at + HDR)
  BY <1>0, <1>1, <1>2 DEF MsgEnd
<1>4. CASE l.at < m.at
  <2>1. MsgEnd(l) <= m.at /\ MsgEnd(l) \in Nat
    BY <1>0, <1>2, <1>4 DEF LaidOut, MsgEnd
  <2> QED
    BY <1>0, <1>3, <2>1
<1>5. CASE l.at = m.at
  <2>1. l = m
    BY <1>5 DEF LaidOut
  <2> QED
    BY <1>3, <2>1
<1>6. CASE m.at < l.at
  <2>1. m.at + HDR + m.len <= l.at
    BY <1>6 DEF LaidOut, MsgEnd
  <2> QED
    BY <1>0, <1>2, <1>3, <2>1
<1> QED
  BY <1>0, <1>2, <1>4, <1>5, <1>6

\* In a whole stream, bytes at the beginning of receive_tcp are those of a
\* message, whose size is there.
LEMMA MessageBegins ==
  ASSUME TcpInv, Whole, pc = "size", Avail(cur) > 0
  PROVE  /\ Avail(cur) >= HDR
         /\ \A n \in SizeAt(cur, read[cur]) : [at |-> read[cur], len |-> n] \in Sent(cur)
<1>t. TypeOK /\ LaidOut /\ CallFits /\ InStep
  BY DEF TcpInv
<1>0. /\ cur \in Peers /\ read[cur] \in Nat /\ arrived[cur] \in Nat /\ HDR \in Nat
      /\ Written(cur) \in Nat /\ arrived[cur] <= Written(cur)
  BY <1>t, Numbers
<1>1. read[cur] < arrived[cur]
  BY <1>0 DEF Avail
<1>2. read[cur] \in Boundaries(cur)
  <2>1. Reads(cur) /\ Settled(cur) = read[cur]
    BY <1>t DEF CallFits, Reads, Settled, InMessage
  <2> QED
    BY <1>0, <1>t, <2>1 DEF InStep
<1>3. read[cur] # Written(cur)
  BY <1>0, <1>1
<1>4. PICK m \in Sent(cur) : m.at = read[cur]
  BY <1>2, <1>3 DEF Boundaries
<1>5. PieceEnd(cur, arrived[cur])
  BY <1>0, <1>t DEF InStep
<1>6. arrived[cur] >= m.at + HDR
  BY <1>0, <1>1, <1>4, <1>5, <1>t, PieceHoldsSize
<1>7. Avail(cur) >= HDR
  BY <1>0, <1>4, <1>6 DEF Avail
<1>8. \A l \in Sent(cur) : l.at = read[cur] => l = m
  BY <1>0, <1>4, <1>t DEF LaidOut
<1>9. SizeAt(cur, read[cur]) = {m.len}
  BY <1>4, <1>8 DEF SizeAt, Sent
<1>10. m = [at |-> read[cur], len |-> m.len]
  BY <1>0, <1>4, <1>t, Numbers
<1> QED
  BY <1>7, <1>9, <1>10

\* In a whole stream the payload of a message is there when its size was.
LEMMA PayloadFollows ==
  ASSUME TcpInv, Whole, pc = "payload", Avail(cur) = 0
  PROVE  data_size = 0
<1>t. TypeOK /\ LaidOut /\ CallFits /\ InStep
  BY DEF TcpInv
<1>0. /\ cur \in Peers /\ read[cur] \in Nat /\ arrived[cur] \in Nat /\ HDR \in Nat /\ HDR > 0
      /\ at \in Nat /\ data_size \in Nat
  BY <1>t, Numbers
<1> DEFINE m == [at |-> at, len |-> data_size]
<1>1. m \in Sent(cur) /\ PieceEnd(cur, arrived[cur])
  BY <1>0, <1>t DEF InStep, InMessage
<1>2. arrived[cur] = at + HDR
  BY <1>0, <1>t DEF Avail, CallFits, InMessage
<1>3. arrived[cur] > m.at
  BY <1>0, <1>2
<1>4. m.len > 0 => arrived[cur] > m.at + HDR
  BY <1>0, <1>1, <1>3, <1>t, PieceHoldsSize
<1> QED
  BY <1>0, <1>2, <1>4

\* Behind the message under way nothing is skipped.
LEMMA NextMessage ==
  ASSUME TcpInv, Whole, InMessage, got = data_size
  PROVE  /\ read[cur] \in Boundaries(cur)
         /\ \A l \in Sent(cur) : l.at < read[cur] =>
              l = [at |-> at, len |-> data_size] \/ l.len = 0 \/ l \in Range(seen[cur])
<1>t. TypeOK /\ LaidOut /\ CallFits /\ InStep /\ NoneLeftOut
  BY DEF TcpInv
<1>0. cur \in Peers /\ at \in Nat /\ data_size \in Nat /\ HDR \in Nat /\ read[cur] \in Nat
      /\ \A l \in Sent(cur) : l.at \in Nat
  BY <1>t, Numbers
<1> DEFINE m == [at |-> at, len |-> data_size]
<1>1. m \in Sent(cur)
  BY <1>t DEF InStep
<1>2. read[cur] = MsgEnd(m)
  BY <1>0, <1>t DEF CallFits, MsgEnd
<1>3. m.at = at
  OBVIOUS
<1>4. Reads(cur) /\ Settled(cur) = at
  BY <1>t DEF CallFits, InMessage, Reads, Settled
<1> HIDE DEF m
<1>5. read[cur] \in Boundaries(cur)
  BY <1>0, <1>1, <1>2, <1>t DEF LaidOut
<1>6. ASSUME NEW l \in Sent(cur), l.at < read[cur]
      PROVE  l = m \/ l.len = 0 \/ l \in Range(seen[cur])
  <2>1. CASE l.at < at
    BY <1>0, <1>4, <1>t, <2>1 DEF NoneLeftOut
  <2>2. CASE l.at = at
    BY <1>0, <1>1, <1>3, <1>t, <2>2 DEF LaidOut
  <2>3. CASE at < l.at
    <3>1. MsgEnd(m) <= l.at
      BY <1>0, <1>1, <1>3, <1>t, <2>3 DEF LaidOut
    <3> QED
      BY <1>0, <1>2, <1>6, <3>1
  <2> QED
    BY <1>0, <2>1, <2>2, <2>3
<1> QED
  BY <1>5, <1>6 DEF m
-----------------------------------------------------------------------------
\* The steps of the poll thread.

\* The size is read: the message under way begins where the reader was.
LEMMA RecvSizeStep ==
  ASSUME TcpInv, RecvSize
  PROVE  TcpInv'
<1>t. TypeOK /\ CallFits /\ DeliveredBefore /\ InStep /\ NoneLeftOut
  BY DEF TcpInv
<1>0. /\ cur \in Peers /\ HDR \in Nat /\ HDR > 0 /\ Sizes \subseteq Nat /\ buffer_size \in Nat
      /\ \A p \in Peers : /\ read[p] \in Nat /\ arrived[p] \in Nat
                          /\ read[p] <= arrived[p] /\ arrived[p] <= Written(p)
  BY <1>t, Numbers DEF TypeOK
<1>1. PICK n \in Sizes : /\ pc = "size" /\ Avail(cur) >= HDR
                         /\ n \in SizeAt(cur, read[cur])
                         /\ read' = [read EXCEPT ![cur] = @ + HDR]
                         /\ data_size' = n
                         /\ buffer_size' = Grown(n)
  BY DEF RecvSize, ReadSize
<1>2. /\ at' = read[cur] /\ got' = 0 /\ pc' = "payload"
      /\ UNCHANGED <<scene, msgs, ended, arrived, conn, seen, poll_loop, errno, cur>>
  BY DEF RecvSize, peer
<1>3. /\ read' \in [Peers -> Nat] /\ read'[cur] = read[cur] + HDR
      /\ \A p \in Peers : p # cur => read'[p] = read[p]
  BY <1>0, <1>1, <1>t DEF TypeOK
<1>4. read[cur] + HDR <= arrived[cur]
  BY <1>0, <1>1 DEF Avail
<1>5. buffer_size' \in Nat /\ n <= buffer_size'
  BY <1>0, <1>1 DEF Grown
<1>6. TypeOK'
  <2>1. \A p \in Peers : read'[p] <= arrived[p] /\ arrived[p] <= Written(p)
    BY <1>0, <1>3, <1>4
  <2>2. n \in Nat /\ 0 \in 0..n
    BY <1>0
  <2> QED
    BY <1>0, <1>1, <1>2, <1>3, <1>5, <1>t, <2>1, <2>2 DEF TypeOK, Written
<1>7. ~InMessage /\ InMessage' /\ \A p \in Peers : Settled(p)' = Settled(p)
  BY <1>1, <1>2, <1>3 DEF Settled, InMessage
<1>8. CallFits' /\ DeliveredBefore'
  BY <1>0, <1>1, <1>2, <1>3, <1>7, <1>t DEF CallFits, DeliveredBefore
<1>9. Whole => [at |-> read[cur], len |-> n] \in Sent(cur)
  <2>1. Avail(cur) > 0
    BY <1>0, <1>1 DEF Avail
  <2> QED
    BY <1>1, <2>1, MessageBegins
<1>r. Whole' = Whole /\ \A p \in Peers : Reads(p)' => Reads(p)
  <2> SUFFICES ASSUME NEW p \in Peers, Reads(p)' PROVE Reads(p)
    BY <1>2 DEF Whole
  <2>1. CASE p = cur
    BY <1>0, <1>1, <1>2, <2>1 DEF Reads, Avail
  <2>2. CASE p # cur
    BY <1>2, <1>3, <2>2 DEF Reads, Avail
  <2> QED
    BY <2>1, <2>2
<1>10. InStep' /\ NoneLeftOut'
  BY <1>1, <1>2, <1>7, <1>9, <1>r, <1>t DEF InStep, NoneLeftOut, PieceEnd, Sent, Boundaries, Written, MsgEnd
<1>11. LaidOut' /\ LengthsOrdinary' /\ KeptWhilePeerStays'
  BY <1>2 DEF TcpInv, LaidOut, LengthsOrdinary, KeptWhilePeerStays, Sent, Boundaries, Written, MsgEnd
<1> QED
  BY <1>6, <1>8, <1>10, <1>11 DEF TcpInv

\* A part of the payload is read, or the last of it.
LEMMA RecvSomeStep ==
  ASSUME TcpInv, RecvPayload \/ RecvRest
  PROVE  TcpInv'
<1>t. TypeOK /\ CallFits /\ DeliveredBefore /\ InStep /\ NoneLeftOut
  BY DEF TcpInv
<1>0. /\ cur \in Peers /\ HDR \in Nat /\ at \in Nat
      /\ data_size \in Nat /\ got \in Nat /\ got <= data_size
      /\ \A p \in Peers : /\ read[p] \in Nat /\ arrived[p] \in Nat
                          /\ read[p] <= arrived[p] /\ arrived[p] <= Written(p)
  BY <1>t, Numbers
<1> DEFINE n == Take(data_size - got)
<1>1. /\ pc \in {"payload", "rest"} /\ Avail(cur) > 0
      /\ read' = [read EXCEPT ![cur] = @ + n] /\ got' = got + n
      /\ pc' = (IF got + n = data_size THEN "deliver" ELSE "rest")
      /\ UNCHANGED <<scene, msgs, ended, arrived, conn, seen, poll_loop, errno,
                     buffer_size, cur, at, data_size>>
  BY DEF RecvPayload, RecvRest, RecvSome, peer
<1>2. n \in Nat /\ n <= data_size - got /\ read[cur] + n <= arrived[cur]
  BY <1>0, <1>1 DEF Take, Avail
<1> HIDE DEF n
<1>3. /\ read' \in [Peers -> Nat] /\ read'[cur] = read[cur] + n
      /\ \A p \in Peers : p # cur => read'[p] = read[p]
  BY <1>0, <1>1, <1>2, <1>t DEF TypeOK
<1>4. TypeOK'
  <2>1. \A p \in Peers : read'[p] <= arrived[p] /\ arrived[p] <= Written(p)
    BY <1>0, <1>2, <1>3
  <2>2. got' \in 0..data_size /\ (pc' = "deliver" => got' = data_size)
    BY <1>0, <1>1, <1>2
  <2> QED
    BY <1>1, <1>3, <1>t, <2>1, <2>2 DEF TypeOK, Written
<1>5. InMessage /\ InMessage' /\ pc' # "payload" /\ \A p \in Peers : Settled(p)' = Settled(p)
  BY <1>1, <1>3 DEF Settled, InMessage
<1>6. CallFits' /\ DeliveredBefore'
  BY <1>0, <1>1, <1>2, <1>3, <1>5, <1>t DEF CallFits, DeliveredBefore
<1>r. Whole' = Whole /\ \A p \in Peers : Reads(p)' => Reads(p)
  BY <1>1, <1>3, <1>5 DEF Whole, Reads, Avail
<1>7. InStep' /\ NoneLeftOut'
  BY <1>1, <1>5, <1>r, <1>t DEF InStep, NoneLeftOut, PieceEnd, Sent, Boundaries, Written, MsgEnd
<1>8. LaidOut' /\ LengthsOrdinary' /\ KeptWhilePeerStays'
  BY <1>1 DEF TcpInv, LaidOut, LengthsOrdinary, KeptWhilePeerStays, Sent, Boundaries, Written, MsgEnd
<1> QED
  BY <1>4, <1>6, <1>7, <1>8 DEF TcpInv

\* A call of receive_tcp ends without a message.  What has to be shown is that
\* a connection that is kept, and read from again, is kept at the beginning of a
\* message, and that one is dropped for a reason.
LEMMA CallEnds ==
  ASSUME TcpInv, pc # "poll", Back, errno' \in Errnos,
         UNCHANGED <<scene, peer, arrived, seen, poll_loop, buffer_size, cur>>,
         read' \in [Peers -> Nat],
         \A p \in Peers : p # cur => read'[p] = read[p],
         read[cur] <= read'[cur], read'[cur] <= arrived[cur],
         conn' \in [Peers -> BOOLEAN],
         \A p \in Peers : p # cur => conn'[p] = conn[p],
         Whole /\ conn'[cur] /\ poll_loop /\ ~(ended[cur] = "rst" /\ arrived[cur] = read'[cur]) =>
           /\ read'[cur] \in Boundaries(cur)
           /\ \A m \in Sent(cur) : m.at < read'[cur] => m.len = 0 \/ m \in Range(seen[cur]),
         scene.cuts = "payload" /\ ~scene.faults /\ poll_loop => conn'[cur] \/ ended[cur] # "no"
  PROVE  TcpInv'
<1>t. TypeOK /\ CallFits /\ DeliveredBefore /\ InStep /\ NoneLeftOut /\ KeptWhilePeerStays
  BY DEF TcpInv
<1>0. /\ cur \in Peers /\ HDR \in Nat /\ HDR > 0 /\ at \in Nat /\ got \in Nat
      /\ \A p \in Peers : /\ read[p] \in Nat /\ arrived[p] \in Nat /\ End(seen[p]) \in Nat
                          /\ read[p] <= arrived[p] /\ arrived[p] <= Written(p)
  BY <1>t, Numbers
<1>1. pc' = "poll" /\ at' = 0 /\ data_size' = 0 /\ got' = 0 /\ msgs' = msgs /\ ended' = ended
  BY DEF Back, peer
<1>2. TypeOK'
  <2>1. \A p \in Peers : read'[p] <= arrived[p] /\ arrived[p] <= Written(p)
    BY <1>0
  <2>2. 0 \in Nat /\ 0 \in 0..0
    OBVIOUS
  <2> QED
    BY <1>1, <1>t, <2>1, <2>2 DEF TypeOK, Written, peer
<1>3. ~InMessage' /\ \A p \in Peers : Settled(p)' = read'[p]
  BY <1>1 DEF Settled, InMessage
<1>4. \A p \in Peers : p # cur => Settled(p) = read'[p]
  BY DEF Settled
<1>5. Settled(cur) <= read'[cur] /\ Settled(cur) \in Nat
  BY <1>0, <1>t DEF Settled, CallFits
<1>6. CallFits'
  BY <1>1, <1>3 DEF CallFits
<1>7. DeliveredBefore'
  <2>1. ASSUME NEW p \in Peers PROVE End(seen[p]) <= read'[p]
    BY <1>0, <1>4, <1>5, <1>t DEF DeliveredBefore
  <2> QED
    BY <1>3, <2>1 DEF DeliveredBefore
<1>r. /\ Whole' = Whole
      /\ \A p \in Peers : p # cur /\ Reads(p)' => Reads(p)
      /\ Reads(cur)' => conn'[cur] /\ poll_loop
                         /\ ~(ended[cur] = "rst" /\ arrived[cur] = read'[cur])
  <2>1. Whole' = Whole
    BY DEF Whole
  <2>2. \A p \in Peers : p # cur /\ Reads(p)' => Reads(p)
    BY <1>1, <1>3 DEF Reads, Avail
  <2>3. arrived[cur] = read'[cur] => Avail(cur)' = 0
    BY <1>0 DEF Avail
  <2>4. Reads(cur)' => conn'[cur] /\ poll_loop
                       /\ ~(ended[cur] = "rst" /\ arrived[cur] = read'[cur])
    BY <1>1, <1>3, <2>3 DEF Reads
  <2> QED
    BY <2>1, <2>2, <2>4
<1>8. InStep' /\ NoneLeftOut'
  BY <1>0, <1>1, <1>3, <1>4, <1>r, <1>t DEF InStep, NoneLeftOut, PieceEnd, Sent, Boundaries, Written, MsgEnd
<1>9. KeptWhilePeerStays'
  BY <1>1, <1>t DEF KeptWhilePeerStays
<1>10. LaidOut' /\ LengthsOrdinary'
  BY <1>1 DEF TcpInv, LaidOut, LengthsOrdinary, Sent, Boundaries, Written, MsgEnd
<1> QED
  BY <1>2, <1>6, <1>7, <1>8, <1>9, <1>10 DEF TcpInv

\* How ReturnsError and ReturnsClose change the connections.
LEMMA Drops ==
  ASSUME TypeOK, NEW b \in BOOLEAN, conn' = [conn EXCEPT ![cur] = b]
  PROVE  /\ conn' \in [Peers -> BOOLEAN] /\ conn'[cur] = b
         /\ \A p \in Peers : p # cur => conn'[p] = conn[p]
BY DEF TypeOK

\* recv() finds no bytes: the connection is kept, and nothing of a message
\* has been read.
LEMMA FindsNothingStep ==
  ASSUME TcpInv, RecvFindsNothing
  PROVE  TcpInv'
<1>t. TypeOK /\ CallFits /\ InStep /\ NoneLeftOut
  BY DEF TcpInv
<1>0. /\ cur \in Peers /\ read \in [Peers -> Nat] /\ arrived[cur] \in Nat
      /\ read[cur] <= arrived[cur] /\ conn \in [Peers -> BOOLEAN]
  BY <1>t DEF TypeOK
<1>1. /\ pc \in {"size", "payload"} /\ Avail(cur) = 0
      /\ Back /\ errno' \in Errnos
      /\ UNCHANGED <<scene, peer, arrived, read, seen, poll_loop, buffer_size, cur>>
  BY DEF RecvFindsNothing, ReturnsError, Errnos
<1>2. conn' = conn /\ conn[cur]
  BY <1>0, <1>1, <1>t DEF RecvFindsNothing, ReturnsError, CallFits
<1>3. Whole =>
        /\ read[cur] \in Boundaries(cur)
        /\ \A m \in Sent(cur) : m.at < read[cur] => m.len = 0 \/ m \in Range(seen[cur])
  <2>1. CASE pc = "size"
    <3>1. Reads(cur) /\ Settled(cur) = read[cur]
      BY <1>2, <2>1 DEF RecvFindsNothing, Reads, Settled, InMessage
    <3> QED
      BY <1>0, <1>t, <3>1 DEF InStep, NoneLeftOut
  <2>2. CASE pc = "payload"
    <3> SUFFICES ASSUME Whole
                 PROVE  /\ read[cur] \in Boundaries(cur)
                        /\ \A m \in Sent(cur) :
                             m.at < read[cur] => m.len = 0 \/ m \in Range(seen[cur])
      OBVIOUS
    <3>1. data_size = 0 /\ got = 0 /\ InMessage
      BY <1>1, <1>t, <2>2, PayloadFollows DEF CallFits, InMessage
    <3> QED
      BY <3>1, NextMessage
  <2> QED
    BY <1>1, <2>1, <2>2
<1>4. read[cur] <= read[cur]
  BY <1>0
<1> QED
  BY <1>0, <1>1, <1>2, <1>3, <1>4, CallEnds

\* How ReturnsError changes the connections.
LEMMA ErrorOutcome ==
  ASSUME TypeOK, NEW e, ReturnsError(e)
  PROVE  /\ Back /\ errno' \in Errnos
         /\ conn' \in [Peers -> BOOLEAN] /\ conn'[cur] = (conn[cur] /\ e = "EWOULDBLOCK")
         /\ \A p \in Peers : p # cur => conn'[p] = conn[p]
<1> DEFINE b == conn[cur] /\ e = "EWOULDBLOCK"
<1>1. Back /\ conn' = [conn EXCEPT ![cur] = b] /\ b \in BOOLEAN
  BY DEF ReturnsError
<1>2. errno' \in Errnos
  BY DEF ReturnsError, Errnos
<1> HIDE DEF b
<1>3. /\ conn' \in [Peers -> BOOLEAN] /\ conn'[cur] = b
      /\ \A p \in Peers : p # cur => conn'[p] = conn[p]
  BY <1>1, Drops
<1> QED
  BY <1>1, <1>2, <1>3 DEF b

\* receive_tcp returns 0: the peer closed, or the payload was empty.
LEMMA ClosedStep ==
  ASSUME TcpInv, RecvFindsClose \/ RecvEmptyPayload
  PROVE  TcpInv'
<1>t. TypeOK /\ CallFits /\ InStep /\ LengthsOrdinary
  BY DEF TcpInv
<1>0. /\ cur \in Peers /\ read \in [Peers -> Nat] /\ read[cur] <= arrived[cur]
  BY <1>t DEF TypeOK
<1>1. /\ pc # "poll" /\ Back /\ errno' \in Errnos
      /\ conn' = [conn EXCEPT ![cur] = FALSE]
      /\ UNCHANGED <<scene, peer, arrived, read, seen, poll_loop, buffer_size, cur>>
  BY DEF RecvFindsClose, RecvEmptyPayload, ReturnsClose
<1>2. scene.cuts = "payload" /\ ~scene.faults /\ poll_loop => ended[cur] # "no"
  <2>1. CASE RecvFindsClose
    BY <2>1 DEF RecvFindsClose, Eof
  <2>2. CASE RecvEmptyPayload
    <3> SUFFICES ASSUME scene.cuts = "payload", ~scene.faults PROVE FALSE
      OBVIOUS
    <3>1. data_size = 0 /\ [at |-> at, len |-> data_size] \in Sent(cur)
      BY <1>t, <2>2 DEF RecvEmptyPayload, InStep, InMessage, Whole
    <3>2. [at |-> at, len |-> data_size].len \in 1..(IntLimit - 1)
      BY <1>0, <1>t, <3>1 DEF LengthsOrdinary
    <3> QED
      BY <3>1, <3>2, TcpReceiveAssumption
  <2> QED
    BY <2>1, <2>2
<1>3. /\ conn' \in [Peers -> BOOLEAN] /\ ~conn'[cur]
      /\ \A p \in Peers : p # cur => conn'[p] = conn[p]
  BY <1>1, <1>t, Drops
<1>4. read[cur] <= read[cur]
  BY <1>0
<1> QED
  BY <1>0, <1>1, <1>2, <1>3, <1>4, CallEnds

\* The connection was reset, or a signal ended the wait for the rest of a
\* message: it is dropped, or never read from again.
LEMMA BrokenStep ==
  ASSUME TcpInv, RecvFindsReset \/ RestInterrupted
  PROVE  TcpInv'
<1>t. TypeOK /\ CallFits
  BY DEF TcpInv
<1>0. /\ cur \in Peers /\ read \in [Peers -> Nat] /\ arrived[cur] \in Nat
      /\ read[cur] <= arrived[cur]
  BY <1>t DEF TypeOK
<1>1. /\ pc # "poll"
      /\ UNCHANGED <<scene, peer, arrived, read, seen, poll_loop, buffer_size, cur>>
  BY DEF RecvFindsReset, RestInterrupted
<1>2. PICK e \in Logged("other") : ReturnsError(e)
  BY DEF RecvFindsReset, RestInterrupted, Logged, Errnos
<1>3. /\ Back /\ errno' \in Errnos
      /\ conn' \in [Peers -> BOOLEAN] /\ conn'[cur] = (conn[cur] /\ e = "EWOULDBLOCK")
      /\ \A p \in Peers : p # cur => conn'[p] = conn[p]
  BY <1>2, <1>t, ErrorOutcome
<1>4. ~(Whole /\ conn'[cur] /\ poll_loop /\ ~(ended[cur] = "rst" /\ arrived[cur] = read'[cur]))
  <2>1. CASE RecvFindsReset
    <3>1. ended[cur] = "rst" /\ arrived[cur] - read[cur] = 0
      BY <2>1 DEF RecvFindsReset, Avail
    <3>2. arrived[cur] = read'[cur]
      BY <1>0, <1>1, <3>1
    <3> QED
      BY <3>1, <3>2
  <2>2. CASE RestInterrupted
    <3>1. scene.faults \/ ~poll_loop
      BY <2>2 DEF RestInterrupted
    <3>2. ~scene.logs => ~conn'[cur]
      BY <1>2, <1>3 DEF Logged
    <3> QED
      BY <3>1, <3>2 DEF Whole
  <2> QED
    BY <2>1, <2>2
<1>5. scene.cuts = "payload" /\ ~scene.faults /\ poll_loop => ended[cur] # "no"
  BY DEF RecvFindsReset, RestInterrupted
<1>6. read[cur] <= read[cur]
  BY <1>0
<1> QED
  BY <1>0, <1>1, <1>3, <1>4, <1>5, <1>6, CallEnds

\* The first bytes of a size: not in a whole stream.
LEMMA ShortSizeStep ==
  ASSUME TcpInv, RecvShortSize
  PROVE  TcpInv'
<1>t. TypeOK /\ CallFits
  BY DEF TcpInv
<1>0. /\ cur \in Peers /\ read \in [Peers -> Nat] /\ arrived[cur] \in Nat
      /\ read[cur] <= arrived[cur] /\ HDR \in Nat
  BY <1>t, Numbers DEF TypeOK
<1>1. /\ pc = "size" /\ Avail(cur) \in 1..(HDR - 1)
      /\ read' = [read EXCEPT ![cur] = arrived[cur]]
      /\ UNCHANGED <<scene, peer, arrived, seen, poll_loop, buffer_size, cur>>
  BY DEF RecvShortSize
<1>2. PICK e \in Logged(errno) : ReturnsError(e)
  BY DEF RecvShortSize
<1>3. /\ Back /\ errno' \in Errnos /\ conn' \in [Peers -> BOOLEAN]
      /\ \A p \in Peers : p # cur => conn'[p] = conn[p]
  BY <1>2, <1>t, ErrorOutcome
<1>4. ~Whole /\ ~(scene.cuts = "payload" /\ ~scene.faults)
  <2>1. Avail(cur) > 0 /\ ~(Avail(cur) >= HDR)
    BY <1>0, <1>1
  <2>2. ~Whole
    BY <1>1, <2>1, MessageBegins
  <2> QED
    BY <2>2 DEF Whole
<1>5. /\ read' \in [Peers -> Nat] /\ read'[cur] = arrived[cur]
      /\ \A p \in Peers : p # cur => read'[p] = read[p]
  BY <1>0, <1>1
<1>6. read[cur] <= read'[cur] /\ read'[cur] <= arrived[cur] /\ pc # "poll"
  BY <1>0, <1>1, <1>5
<1> QED
  BY <1>1, <1>3, <1>4, <1>5, <1>6, CallEnds

\* No buffer for the size that was read: the connection is dropped, unless a
\* log_callback keeps it, out of step.
LEMMA MallocFailsStep ==
  ASSUME TcpInv, MallocFails
  PROVE  TcpInv'
<1>t. TypeOK
  BY DEF TcpInv
<1>0. /\ cur \in Peers /\ read \in [Peers -> Nat] /\ arrived[cur] \in Nat
      /\ read[cur] <= arrived[cur] /\ HDR \in Nat
  BY <1>t, Numbers DEF TypeOK
<1>1. /\ pc = "size" /\ Avail(cur) >= HDR /\ scene.faults
      /\ read' = [read EXCEPT ![cur] = @ + HDR]
      /\ UNCHANGED <<scene, peer, arrived, seen, poll_loop, buffer_size, cur>>
  BY DEF MallocFails, ReadSize
<1>2. PICK e \in Logged("other") : ReturnsError(e)
  BY DEF MallocFails
<1>3. /\ Back /\ errno' \in Errnos
      /\ conn' \in [Peers -> BOOLEAN] /\ conn'[cur] = (conn[cur] /\ e = "EWOULDBLOCK")
      /\ \A p \in Peers : p # cur => conn'[p] = conn[p]
  BY <1>2, <1>t, ErrorOutcome
<1>4. ~(Whole /\ conn'[cur])
  BY <1>1, <1>2, <1>3 DEF Whole, Logged
<1>5. /\ read' \in [Peers -> Nat] /\ read'[cur] = read[cur] + HDR
      /\ \A p \in Peers : p # cur => read'[p] = read[p]
  BY <1>0, <1>1
<1>6. read[cur] <= read'[cur] /\ read'[cur] <= arrived[cur] /\ pc # "poll"
  BY <1>0, <1>1, <1>5 DEF Avail
<1> QED
  BY <1>1, <1>3, <1>4, <1>5, <1>6, CallEnds

\* What Deliver does to the connection: it is dropped only for a length that
\* is negative as an int.
LEMMA DeliverOutcome ==
  ASSUME TypeOK, Deliver
  PROVE  /\ pc' \in {"poll", "size"} /\ errno' \in Errnos
         /\ at' \in Nat /\ data_size' \in Sizes \cup {0} /\ got' \in 0..data_size'
         /\ conn' \in [Peers -> BOOLEAN]
         /\ \A p \in Peers : p # cur => conn'[p] = conn[p]
         /\ pc' = "size" => conn' = conn
         /\ conn' = conn \/ Returned(data_size) < 0
         /\ UNCHANGED <<scene, msgs, ended, arrived, read, poll_loop, buffer_size, cur>>
<1>0. conn \in [Peers -> BOOLEAN] /\ cur \in Peers
      /\ at \in Nat /\ data_size \in Sizes \cup {0} /\ got \in 0..data_size
  BY DEF TypeOK
<1>1. UNCHANGED <<scene, msgs, ended, arrived, read, poll_loop, buffer_size>>
  BY DEF Deliver, peer
<1>2. 0 \in Nat /\ 0 \in Sizes \cup {0} /\ 0 \in 0..0
  OBVIOUS
<1>3. PICK e \in Errnos :
        \/ /\ Returned(data_size) > 0 /\ poll_loop
           /\ errno' = e
           /\ pc' = "size"
           /\ UNCHANGED <<conn, call>>
        \/ /\ Returned(data_size) > 0 /\ ~poll_loop
           /\ errno' = e
           /\ Back
           /\ UNCHANGED <<conn, cur>>
        \/ /\ Returned(data_size) < 0
           /\ ReturnsError(e)
           /\ UNCHANGED cur
  BY DEF Deliver
<1>4. CASE pc' = "size" /\ errno' = e /\ UNCHANGED <<conn, call>>
  BY <1>0, <1>1, <1>4 DEF call
<1>5. CASE Back /\ errno' = e /\ UNCHANGED <<conn, cur>>
  BY <1>0, <1>1, <1>2, <1>5 DEF Back
<1>6. CASE Returned(data_size) < 0 /\ ReturnsError(e) /\ UNCHANGED cur
  <2>1. Back /\ errno' \in Errnos /\ conn' \in [Peers -> BOOLEAN]
        /\ \A p \in Peers : p # cur => conn'[p] = conn[p]
    BY <1>6, ErrorOutcome
  <2> QED
    BY <1>0, <1>1, <1>2, <1>6, <2>1 DEF Back
<1> QED
  BY <1>3, <1>4, <1>5, <1>6

\* receive_tcp_callback: the message under way is dealt with.
LEMMA DeliverStep ==
  ASSUME TcpInv, Deliver
  PROVE  TcpInv'
<1>t. TypeOK /\ LaidOut /\ CallFits /\ DeliveredBefore /\ InStep /\ NoneLeftOut
      /\ LengthsOrdinary /\ KeptWhilePeerStays
  BY DEF TcpInv
<1>0. /\ cur \in Peers /\ at \in Nat /\ data_size \in Nat /\ HDR \in Nat
      /\ seen \in [Peers -> Seq(Message)] /\ read[cur] \in Nat
  BY <1>t, Numbers DEF TypeOK
<1> DEFINE m == [at |-> at, len |-> data_size]
<1>1. /\ pc = "deliver" /\ seen' = [seen EXCEPT ![cur] = Append(@, m)]
  BY DEF Deliver
<1>2. /\ pc' \in {"poll", "size"} /\ errno' \in Errnos
      /\ at' \in Nat /\ data_size' \in Sizes \cup {0} /\ got' \in 0..data_size'
      /\ conn' \in [Peers -> BOOLEAN]
      /\ \A p \in Peers : p # cur => conn'[p] = conn[p]
      /\ pc' = "size" => conn' = conn
      /\ conn' = conn \/ Returned(data_size) < 0
      /\ UNCHANGED <<scene, msgs, ended, arrived, read, poll_loop, buffer_size, cur>>
  BY <1>t, DeliverOutcome
<1>3. InMessage /\ got = data_size /\ data_size \in Sizes /\ m \in Message /\ m.len = data_size
  BY <1>0, <1>1, <1>t DEF InMessage, TypeOK, Message
<1>4. read[cur] = MsgEnd(m)
  BY <1>3, <1>t DEF CallFits, MsgEnd
<1>5. Whole => m \in Sent(cur)
  BY <1>3, <1>t DEF InStep
<1>6. Whole =>
        /\ read[cur] \in Boundaries(cur)
        /\ \A l \in Sent(cur) : l.at < read[cur] =>
             l = m \/ l.len = 0 \/ l \in Range(seen[cur])
  BY <1>3, NextMessage
<1>7. scene.cuts = "payload" /\ ~scene.faults => conn' = conn
  <2> SUFFICES ASSUME scene.cuts = "payload", ~scene.faults PROVE ~(Returned(data_size) < 0)
    BY <1>2
  <2>1. data_size \in 1..(IntLimit - 1)
    BY <1>0, <1>3, <1>5, <1>t DEF LengthsOrdinary, Whole
  <2>2. AsInt(data_size) = data_size
    BY <2>1, OrdinaryAsInt
  <2> QED
    BY <1>0, <2>1, <2>2 DEF Returned
<1> HIDE DEF m
<1>8. /\ seen' \in [Peers -> Seq(Message)]
      /\ seen'[cur] = Append(seen[cur], m) /\ seen[cur] \in Seq(Message)
      /\ \A p \in Peers : p # cur => seen'[p] = seen[p]
  BY <1>0, <1>1, <1>3
<1>9. End(seen'[cur]) = read[cur] /\ Range(seen'[cur]) = Range(seen[cur]) \cup {m}
  BY <1>3, <1>4, <1>8, EndAppend, RangeAppend
<1>10. TypeOK'
  BY <1>2, <1>8, <1>t DEF TypeOK, Written
<1>11. ~InMessage' /\ \A p \in Peers : Settled(p)' = read[p]
  BY <1>2 DEF Settled, InMessage
<1>12. \A p \in Peers : p # cur => Settled(p) = read[p]
  BY DEF Settled
<1>13. CallFits'
  BY <1>1, <1>2, <1>11, <1>t DEF CallFits
<1>14. DeliveredBefore'
  <2> SUFFICES ASSUME NEW p \in Peers PROVE End(seen'[p]) <= read[p]
    BY <1>11 DEF DeliveredBefore
  <2>1. CASE p = cur
    BY <1>0, <1>9, <2>1
  <2>2. CASE p # cur
    BY <1>8, <1>12, <1>t, <2>2 DEF DeliveredBefore
  <2> QED
    BY <2>1, <2>2
<1>r. Whole' = Whole /\ \A p \in Peers : p # cur /\ Reads(p)' => Reads(p)
  BY <1>2, <1>11 DEF Whole, Reads, Avail
<1>15. InStep'
  BY <1>0, <1>2, <1>6, <1>11, <1>12, <1>r, <1>t DEF InStep, PieceEnd, Sent, Boundaries, Written, MsgEnd
<1>16. NoneLeftOut'
  <2> SUFFICES ASSUME Whole, NEW p \in Peers, Reads(p)',
                      NEW l \in Sent(p), l.at < read[p]
               PROVE  l.len = 0 \/ l \in Range(seen'[p])
    BY <1>2, <1>11, <1>r DEF NoneLeftOut, Sent
  <2>1. CASE p = cur
    BY <1>6, <1>9, <2>1
  <2>2. CASE p # cur
    BY <1>8, <1>12, <1>r, <1>t, <2>2 DEF NoneLeftOut
  <2> QED
    BY <2>1, <2>2
<1>17. LaidOut' /\ LengthsOrdinary'
  BY <1>2, <1>t DEF LaidOut, LengthsOrdinary, Sent, Boundaries, Written, MsgEnd
<1>18. KeptWhilePeerStays'
  BY <1>2, <1>7, <1>t DEF KeptWhilePeerStays
<1> QED
  BY <1>10, <1>13, <1>14, <1>15, <1>16, <1>17, <1>18 DEF TcpInv

\* Every step preserves TcpInv.
LEMMA TcpStep == TcpInv /\ [Next]_vars => TcpInv'
<1> SUFFICES ASSUME TcpInv, [Next]_vars PROVE TcpInv'
  OBVIOUS
<1>1. ASSUME NEW p \in Peers, PeerSends(p) PROVE TcpInv'
  BY <1>1, PeerSendsStep
<1>2. ASSUME NEW p \in Peers, PeerEnds(p) PROVE TcpInv'
  BY <1>2, PeerEndsStep
<1>3. ASSUME NEW p \in Peers, Arrives(p) PROVE TcpInv'
  BY <1>3, ArrivesStep
<1>4. ASSUME NEW p \in Peers, Serve(p) PROVE TcpInv'
  BY <1>4, ServeStep
<1>5. CASE RecvFindsNothing
  BY <1>5, FindsNothingStep
<1>6. CASE RecvFindsClose \/ RecvFindsReset \/ RecvEmptyPayload \/ RestInterrupted
  BY <1>6, ClosedStep, BrokenStep
<1>7. CASE RecvShortSize
  BY <1>7, ShortSizeStep
<1>8. CASE RecvSize
  BY <1>8, RecvSizeStep
<1>9. CASE MallocFails
  BY <1>9, MallocFailsStep
<1>10. CASE RecvPayload \/ RecvRest
  BY <1>10, RecvSomeStep
<1>11. CASE Deliver
  BY <1>11, DeliverStep
<1>12. CASE StopCalled
  BY <1>12, StopStep
<1>13. CASE UNCHANGED vars
  <2>1. UNCHANGED <<scene, msgs, ended, arrived, read, conn, seen, poll_loop, errno,
                    buffer_size, pc, cur, at, data_size, got>>
    BY <1>13 DEF vars, peer, call
  <2>2. TypeOK' /\ LaidOut' /\ CallFits' /\ DeliveredBefore'
    BY <2>1 DEF TcpInv, TypeOK, LaidOut, CallFits, DeliveredBefore, Sent, Boundaries,
       Written, Settled, InMessage, MsgEnd
  <2>3. InStep' /\ NoneLeftOut' /\ LengthsOrdinary' /\ KeptWhilePeerStays'
    BY <2>1 DEF TcpInv, InStep, NoneLeftOut, LengthsOrdinary, KeptWhilePeerStays, PieceEnd,
       Sent, Boundaries, Written, Settled, InMessage, MsgEnd, Whole, Reads, Avail
  <2> QED
    BY <2>2, <2>3 DEF TcpInv
<1> QED
  BY <1>1, <1>2, <1>3, <1>4, <1>5, <1>6, <1>7, <1>8, <1>9, <1>10, <1>11, <1>12, <1>13 DEF Next
-----------------------------------------------------------------------------
\* TcpInv holds in every state: the reader's variables tell where it is in the
\* stream, and in a whole stream it never loses the beginning of a message.
THEOREM TcpInvariant == Spec => []TcpInv
<1>1. Init => TcpInv
  BY TcpInit
<1>2. TcpInv /\ [Next]_vars => TcpInv'
  BY TcpStep
<1> QED
  BY <1>1, <1>2, PTL DEF Spec

\* Every variable of TcpReceive has its type, recv() never returns bytes that
\* did not arrive, and the payload receive_tcp reads never exceeds its buffer.
THEOREM TcpTypeCorrect == Spec => []TypeOK
<1>1. TcpInv => TypeOK
  BY DEF TcpInv
<1> QED
  BY <1>1, TcpInvariant, PTL

\* Without faults, and if no piece ends in or just behind a length, receive_tcp
\* never costs a peer that stays its connection, until a stop, with a
\* log_callback or without.
THEOREM ConnectionKept == Spec => []KeptWhilePeerStays
<1>1. TcpInv => KeptWhilePeerStays
  BY DEF TcpInv
<1> QED
  BY <1>1, TcpInvariant, PTL
-----------------------------------------------------------------------------
\* TcpReceive implements Delivery.

\* Delivery and TcpReceive mean the same by the end of a sequence.
LEMMA SameEnd == \A s : Promise!End(s) = End(s)
BY DEF Promise!End, End

\* A step that changes no message and delivers none closes a connection or
\* changes nothing that Delivery knows of.
LEMMA AtMostCloses ==
  ASSUME TypeOK, UNCHANGED <<scene, msgs, seen>>, NEW b \in BOOLEAN,
         conn' = [conn EXCEPT ![cur] = @ /\ b]
  PROVE  [Promise!Next]_Promise!vars
<1>1. cur \in Peers /\ conn \in [Peers -> BOOLEAN]
  BY DEF TypeOK
<1>2. CASE b
  BY <1>1, <1>2 DEF Promise!vars, Whole
<1>3. CASE ~b
  <2>1. conn' = [conn EXCEPT ![cur] = FALSE]
    BY <1>1, <1>3
  <2>2. Promise!Close(cur)
    BY <2>1 DEF Promise!Close, Whole
  <2> QED
    BY <1>1, <2>2 DEF Promise!Next
<1> QED
  BY <1>2, <1>3

\* udtcp_send_tcp of the peer is Send of Delivery.
LEMMA SendIsSend ==
  ASSUME TypeOK, NEW p \in Peers, PeerSends(p)
  PROVE  Promise!Send(p)
<1>1. PICK n \in Sizes :
        msgs' = [msgs EXCEPT ![p] = Append(@, [at |-> Written(p), len |-> n])]
  BY DEF PeerSends
<1>2. msgs' = [msgs EXCEPT ![p] = Append(@, [at |-> Promise!End(@), len |-> n])]
  BY <1>1, SameEnd DEF Written, TypeOK
<1>3. UNCHANGED <<Whole, seen, conn>>
  BY DEF PeerSends, Whole
<1> QED
  BY <1>2, <1>3 DEF Promise!Send

\* receive_tcp_callback is called with a message that is due.
LEMMA DeliverIsDeliver ==
  ASSUME TcpInv, Deliver
  PROVE  Promise!Deliver(cur)
<1>t. TypeOK /\ CallFits /\ DeliveredBefore /\ InStep /\ NoneLeftOut
  BY DEF TcpInv
<1>0. /\ cur \in Peers /\ at \in Nat /\ HDR \in Nat /\ data_size \in Nat
      /\ Written(cur) \in Nat /\ read[cur] <= arrived[cur] /\ arrived[cur] <= Written(cur)
      /\ read[cur] \in Nat /\ arrived[cur] \in Nat /\ conn \in [Peers -> BOOLEAN]
  BY <1>t, Numbers DEF TypeOK
<1> DEFINE m == [at |-> at, len |-> data_size]
<1>1. pc = "deliver" /\ seen' = [seen EXCEPT ![cur] = Append(@, m)]
  BY DEF Deliver
<1>2. /\ InMessage /\ got = data_size /\ data_size \in Sizes /\ conn[cur]
      /\ Reads(cur) /\ Settled(cur) = at
  BY <1>1, <1>t DEF InMessage, TypeOK, CallFits, Reads, Settled
<1>3. at + HDR + data_size <= Written(cur)
  BY <1>0, <1>2, <1>t DEF CallFits
<1>4. Promise!Due(cur, m)
  <2>1. m.at >= Promise!End(seen[cur])
    <3>1. End(seen[cur]) <= at /\ End(seen[cur]) \in Nat
      BY <1>0, <1>2, <1>t, Numbers DEF DeliveredBefore
    <3> QED
      BY <1>0, <3>1, SameEnd
  <2>2. m.at + HDR + m.len <= Promise!End(msgs[cur])
    BY <1>3, SameEnd DEF Written
  <2>3. Whole =>
          /\ m \in Range(msgs[cur])
          /\ \A l \in Range(msgs[cur]) : l.at < m.at => l.len = 0 \/ l \in Range(seen[cur])
    BY <1>0, <1>2, <1>t DEF InStep, NoneLeftOut, Sent
  <2> QED
    BY <2>1, <2>2, <2>3 DEF Promise!Due, Promise!Range, Range
<1>5. \E b \in BOOLEAN : conn' = [conn EXCEPT ![cur] = b]
  <2>1. /\ conn' \in [Peers -> BOOLEAN]
        /\ \A p \in Peers : p # cur => conn'[p] = conn[p]
    BY <1>t, DeliverOutcome
  <2>2. conn' = [conn EXCEPT ![cur] = conn'[cur]] /\ conn'[cur] \in BOOLEAN
    BY <1>0, <2>1
  <2> QED
    BY <2>2
<1>6. at \in 0..Promise!End(msgs[cur])
  BY <1>0, <1>3, SameEnd DEF Written
<1>7. UNCHANGED <<Whole, msgs>>
  BY <1>t, DeliverOutcome DEF Whole
<1> QED
  BY <1>1, <1>2, <1>4, <1>5, <1>6, <1>7 DEF Promise!Deliver

\* Every step of TcpReceive is one of Delivery, or none of its business.
LEMMA DeliveryStep == TcpInv /\ [Next]_vars => [Promise!Next]_Promise!vars
<1> SUFFICES ASSUME TcpInv, [Next]_vars PROVE [Promise!Next]_Promise!vars
  OBVIOUS
<1>t. TypeOK /\ conn \in [Peers -> BOOLEAN] /\ cur \in Peers
  BY DEF TcpInv, TypeOK
<1>1. ASSUME NEW p \in Peers, PeerSends(p) PROVE Promise!Next
  BY <1>1, <1>t, SendIsSend DEF Promise!Next
<1>2. CASE Deliver
  BY <1>2, <1>t, DeliverIsDeliver DEF Promise!Next
<1>3. CASE RecvFindsNothing \/ RecvFindsClose \/ RecvFindsReset \/ RecvShortSize \/ MallocFails
           \/ RecvEmptyPayload \/ RestInterrupted
  <2>1. UNCHANGED <<scene, msgs, seen>>
    BY <1>3 DEF RecvFindsNothing, RecvFindsClose, RecvFindsReset, RecvShortSize, MallocFails,
       RecvEmptyPayload, RestInterrupted, peer
  <2>2. ReturnsClose \/ \E e \in Errnos \cup {errno} : ReturnsError(e)
    BY <1>3 DEF RecvFindsNothing, RecvFindsClose, RecvFindsReset, RecvShortSize, MallocFails,
       RecvEmptyPayload, RestInterrupted, Logged, Errnos
  <2>3. CASE ReturnsClose
    <3>1. conn' = [conn EXCEPT ![cur] = @ /\ FALSE]
      BY <1>t, <2>3 DEF ReturnsClose
    <3> QED
      BY <1>t, <2>1, <3>1, AtMostCloses
  <2>4. ASSUME NEW e, ReturnsError(e) PROVE [Promise!Next]_Promise!vars
    <3> DEFINE b == e = "EWOULDBLOCK"
    <3>1. conn' = [conn EXCEPT ![cur] = @ /\ b] /\ b \in BOOLEAN
      BY <2>4 DEF ReturnsError
    <3> HIDE DEF b
    <3> QED
      BY <1>t, <2>1, <3>1, AtMostCloses
  <2> QED
    BY <2>2, <2>3, <2>4
<1>4. CASE UNCHANGED <<scene, msgs, seen, conn>>
  BY <1>4 DEF Promise!vars, Whole
<1>5. ASSUME NEW p \in Peers, PeerEnds(p) \/ Arrives(p) \/ Serve(p)
      PROVE  UNCHANGED <<scene, msgs, seen, conn>>
  BY <1>5 DEF PeerEnds, Arrives, Serve, peer
<1>6. CASE RecvSize \/ RecvPayload \/ RecvRest \/ StopCalled
  <2>1. UNCHANGED <<scene, msgs, seen, conn>>
    BY <1>6 DEF RecvSize, RecvPayload, RecvRest, RecvSome, StopCalled, peer
  <2> QED
    BY <1>4, <2>1
<1>7. CASE UNCHANGED vars
  <2>1. UNCHANGED <<scene, msgs, seen, conn>>
    BY <1>7 DEF vars, peer
  <2> QED
    BY <1>4, <2>1
<1> QED
  BY <1>1, <1>2, <1>3, <1>4, <1>5, <1>6, <1>7 DEF Next

\* receive_tcp keeps the promise of Delivery for every connection: it calls
\* receive_tcp_callback in stream order, for disjoint pieces of the stream,
\* never after disconnect(); and in a whole stream for exactly the messages
\* that were sent, none but empty ones left out.
THEOREM DeliveryImplemented == Spec => ImplementsDelivery
<1>1. Init => Promise!Init
  BY TcpReceiveAssumption DEF Init, Promise!Init, Whole
<1>2. TcpInv /\ [Next]_vars => [Promise!Next]_Promise!vars
  BY DeliveryStep
<1> QED
  BY <1>1, <1>2, TcpInvariant, PTL DEF Spec, ImplementsDelivery, Promise!Spec
=============================================================================
