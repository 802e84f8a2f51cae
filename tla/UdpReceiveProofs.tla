-------------------------- MODULE UdpReceiveProofs --------------------------
(***************************************************************************)
(* Proofs about UdpReceive, for any addresses, any table and any number of *)
(* clients and datagrams, lost, repeated, reordered or malformed.          *)
(***************************************************************************)
EXTENDS UdpReceive, SequenceTheorems, WellFoundedInduction, TLAPS

\* Every id was given with an address that is no stranger's, and unless
\* addresses are used again no two ids were given with the same one.
IdsGiven ==
  /\ used \in Seq(Hosts \X Ports)
  /\ scene.side = "server" /\ ~scene.reuse =>
       \A j, k \in DOMAIN used : used[j] = used[k] => j = k

\* A cell of the table has the address its id was given with.
CellsKnown ==
  \A k \in DOMAIN infos : infos[k].id \in DOMAIN used /\ infos[k].addr = used[infos[k].id]

\* A datagram under way was sent from the address of its sender, and is of a
\* kind that senders of this execution send.
Genuine(d) ==
  /\ d.kind \in scene.kinds
  /\ \/ d.from.id = 0 /\ d.from.addr \in Strangers
     \/ d.from.id \in DOMAIN used /\ d.from.addr = used[d.from.id]

UnderWayGenuine ==
  /\ \A d \in wire : Genuine(d)
  /\ \A k \in DOMAIN queue : Genuine(queue[k])

\* A datagram is in one place: under way, at one place of the queue, or heard.
OnePlace ==
  /\ \A d \in wire : d.n <= sent
  /\ \A k \in DOMAIN queue : queue[k].n <= sent
  /\ \A k \in DOMAIN heard : heard[k].d.n <= sent
  /\ \A d, e \in wire : d.n = e.n => d = e
  /\ \A j, k \in DOMAIN queue : queue[j].n = queue[k].n => j = k
  /\ \A j, k \in DOMAIN heard : heard[j].d.n = heard[k].d.n => j = k
  /\ \A d \in wire : \A k \in DOMAIN queue : d.n # queue[k].n
  /\ \A d \in wire : \A k \in DOMAIN heard : d.n # heard[k].d.n
  /\ \A j \in DOMAIN queue : \A k \in DOMAIN heard : queue[j].n # heard[k].d.n

HeardAreSized == \A k \in DOMAIN heard : heard[k].d.kind \in {"good", "nil", "under"}

UdpInv ==
  /\ TypeOK
  /\ IdsGiven
  /\ CellsKnown
  /\ UnderWayGenuine
  /\ OnePlace
  /\ HeardAreSized
  /\ AttributedToSender
  /\ DatagramsKeepConnection

\* A set of numbers that is not empty has a smallest one.
LEMMA SmallestNumber ==
  ASSUME NEW T \in SUBSET Nat, T # {}
  PROVE  \E x \in T : \A y \in T : x <= y
<1> DEFINE less == OpToRel(<, Nat)
<1>1. PICK x \in T : \A y \in T : ~ (<<y, x>> \in less)
  BY NatLessThanWellFounded, WFMin, Zenon
<1>2. \A y \in T : y < x => <<y, x>> \in less
  BY DEF OpToRel
<1>3. \A y \in T : ~(y < x)
  BY <1>1, <1>2
<1>4. \A y \in T : x <= y
  <2> SUFFICES ASSUME NEW y \in T PROVE x <= y
    OBVIOUS
  <2>1. x \in Nat /\ y \in Nat /\ ~(y < x)
    BY <1>3
  <2> QED
    BY <2>1
<1> QED
  BY <1>4

\* RemoveAt takes one element out and moves the later ones down.
LEMMA RemoveAtProperties ==
  ASSUME NEW S, NEW s \in Seq(S), NEW k \in 1..Len(s)
  PROVE  /\ RemoveAt(s, k) \in Seq(S)
         /\ Len(RemoveAt(s, k)) = Len(s) - 1
         /\ \A j \in 1..(Len(s) - 1) :
              RemoveAt(s, k)[j] = IF j < k THEN s[j] ELSE s[j + 1]
<1> DEFINE low == SubSeq(s, 1, k - 1)
           high == SubSeq(s, k + 1, Len(s))
<1>0. Len(s) \in Nat /\ k \in Nat /\ \A j \in 1..Len(s) : s[j] \in S
  BY LenProperties, ElementOfSeq
<1>1. low \in Seq(S) /\ Len(low) = k - 1 /\ \A j \in 1..(k - 1) : low[j] = s[j]
  BY <1>0, SubSeqProperties
<1>2. high \in Seq(S) /\ Len(high) = Len(s) - k /\ \A j \in 1..(Len(s) - k) : high[j] = s[k + j]
  BY <1>0, SubSeqProperties
<1> HIDE DEF low, high
<1>3. /\ low \o high \in Seq(S)
      /\ Len(low \o high) = Len(low) + Len(high)
      /\ \A j \in 1..(Len(low) + Len(high)) :
           (low \o high)[j] = IF j <= Len(low) THEN low[j] ELSE high[j - Len(low)]
  BY <1>1, <1>2, ConcatProperties
<1>4. RemoveAt(s, k) = low \o high
  BY DEF RemoveAt, low, high
<1>5. ASSUME NEW j \in 1..(Len(s) - 1)
      PROVE  RemoveAt(s, k)[j] = IF j < k THEN s[j] ELSE s[j + 1]
  <2>1. (low \o high)[j] = IF j <= k - 1 THEN low[j] ELSE high[j - (k - 1)]
    BY <1>0, <1>1, <1>2, <1>3
  <2>2. CASE j < k
    BY <1>0, <1>1, <1>4, <2>1, <2>2
  <2>3. CASE ~(j < k)
    <3>1. j - (k - 1) \in 1..(Len(s) - k) /\ k + (j - (k - 1)) = j + 1
      BY <1>0, <2>3
    <3> QED
      BY <1>0, <1>2, <1>4, <2>1, <2>3, <3>1
  <2> QED
    BY <2>2, <2>3
<1>6. Len(low \o high) = Len(s) - 1
  BY <1>0, <1>1, <1>2, <1>3
<1> QED
  BY <1>3, <1>4, <1>5, <1>6
-----------------------------------------------------------------------------
\* udtcp_get_infos returns the id of a cell that has the address.
LEMMA GetInfosIsACell ==
  ASSUME TypeOK, NEW a, Cells(a) # {}
  PROVE  \E k \in DOMAIN infos : infos[k].addr = a /\ GetInfos(a) = infos[k].id
<1>1. Cells(a) \in SUBSET Nat /\ Cells(a) \subseteq DOMAIN infos
  <2>1. DOMAIN infos \subseteq Nat
    BY DEF TypeOK
  <2> QED
    BY <2>1 DEF Cells
<1>2. \E k \in Cells(a) : \A l \in Cells(a) : k <= l
  BY <1>1, SmallestNumber
<1> DEFINE first == CHOOSE k \in Cells(a) : \A l \in Cells(a) : k <= l
<1>3. first \in Cells(a)
  BY <1>2
<1> HIDE DEF first
<1>4. GetInfos(a) = infos[first].id
  BY DEF GetInfos, first
<1> QED
  BY <1>1, <1>3, <1>4 DEF Cells, SameAddress

\* No client and no datagram at first.
LEMMA UdpInit == Init => UdpInv
<1> SUFFICES ASSUME Init PROVE UdpInv
  OBVIOUS
<1>1. TypeOK
  BY UdpReceiveAssumption DEF Init, TypeOK, Errnos
<1>2. IdsGiven /\ CellsKnown /\ UnderWayGenuine /\ OnePlace /\ HeardAreSized
  BY DEF Init, IdsGiven, CellsKnown, UnderWayGenuine, OnePlace, HeardAreSized
<1>3. AttributedToSender /\ DatagramsKeepConnection
  BY DEF Init, AttributedToSender, DatagramsKeepConnection
<1> QED
  BY <1>1, <1>2, <1>3 DEF UdpInv

\* A client joins: the next id, with an address that is no stranger's.
LEMMA JoinStep ==
  ASSUME UdpInv, NEW a \in Hosts \X Ports, Joins(a)
  PROVE  UdpInv'
<1> USE UdpReceiveAssumption
<1>t. TypeOK /\ IdsGiven /\ CellsKnown /\ UnderWayGenuine
  BY DEF UdpInv
<1> DEFINE cell == [id |-> Len(used) + 1, addr |-> a]
<1>1. /\ used' = Append(used, a) /\ infos' = Append(infos, cell)
      /\ Len(infos) < MAX_CONNECTION /\ Len(used) < MaxId
      /\ scene.reuse \/ a \notin Range(used)
      /\ UNCHANGED <<scene, network, queue, heard, conn, errno, poll_loop, pc>>
  BY DEF Joins, HasRoom
<1>2. Len(used) \in Nat /\ Len(infos) \in Nat /\ DOMAIN used = 1..Len(used)
      /\ DOMAIN infos = 1..Len(infos) /\ used \in Seq(Hosts \X Ports)
  BY <1>t DEF TypeOK, IdsGiven
<1>3. /\ used' \in Seq(Hosts \X Ports)
      /\ Len(used') = Len(used) + 1 /\ DOMAIN used' = 1..(Len(used) + 1)
      /\ \A k \in 1..Len(used) : used'[k] = used[k]
      /\ used'[Len(used) + 1] = a
  BY <1>1, <1>2
<1>4. cell \in [id : 1..MaxId, addr : Addresses]
  BY <1>1, <1>2 DEF Addresses
<1>5. /\ infos' \in Seq([id : 1..MaxId, addr : Addresses])
      /\ Len(infos') = Len(infos) + 1 /\ DOMAIN infos' = 1..(Len(infos) + 1)
      /\ \A k \in 1..Len(infos) : infos'[k] = infos[k]
      /\ infos'[Len(infos) + 1] = cell
  <2> HIDE DEF cell
  <2> QED
    BY <1>1, <1>2, <1>4, <1>t DEF TypeOK
<1>6. TypeOK'
  <2>1. used' \in Seq(Addresses)
    BY <1>1, <1>t DEF TypeOK, Addresses
  <2> QED
    BY <2>1, <1>t, <1>1, <1>2, <1>3, <1>5 DEF TypeOK, network
<1>7. IdsGiven'
  <2> SUFFICES ASSUME scene.side = "server", ~scene.reuse,
                      NEW j \in DOMAIN used', NEW k \in DOMAIN used', used'[j] = used'[k]
               PROVE  j = k
    BY <1>1, <1>3 DEF IdsGiven
  <2>1. \A l \in DOMAIN used : used[l] # a
    BY <1>1 DEF Range
  <2>2. \A l, m \in DOMAIN used : used[l] = used[m] => l = m
    BY <1>t DEF IdsGiven
  <2> QED
    BY <1>2, <1>3, <2>1, <2>2
<1>8. CellsKnown'
  <2> SUFFICES ASSUME NEW k \in DOMAIN infos'
               PROVE  infos'[k].id \in DOMAIN used' /\ infos'[k].addr = used'[infos'[k].id]
    BY DEF CellsKnown
  <2>1. CASE k \in DOMAIN infos
    <3>1. infos'[k] = infos[k] /\ infos[k].id \in DOMAIN used /\ infos[k].addr = used[infos[k].id]
      BY <1>2, <1>5, <1>t, <2>1 DEF CellsKnown
    <3> QED
      BY <3>1, <1>2, <1>3
  <2>2. CASE k = Len(infos) + 1
    <3>1. infos'[k].id = Len(used) + 1 /\ infos'[k].addr = a
      BY <1>5, <2>2
    <3> QED
      BY <3>1, <1>2, <1>3
  <2> QED
    BY <1>2, <1>5, <2>1, <2>2
<1>9. UnderWayGenuine'
  BY <1>t, <1>1, <1>2, <1>3 DEF UnderWayGenuine, Genuine, network
<1>10. OnePlace' /\ HeardAreSized' /\ AttributedToSender' /\ DatagramsKeepConnection'
  BY <1>1 DEF UdpInv, OnePlace, HeardAreSized, AttributedToSender, DatagramsKeepConnection, network
<1> QED
  BY <1>6, <1>7, <1>8, <1>9, <1>10 DEF UdpInv

\* A client leaves, and the cells behind it move down.
LEMMA LeaveStep ==
  ASSUME UdpInv, NEW k \in DOMAIN infos, Leaves(k)
  PROVE  UdpInv'
<1>t. TypeOK /\ CellsKnown
  BY DEF UdpInv
<1>1. /\ infos' = RemoveAt(infos, k)
      /\ UNCHANGED <<scene, used, network, queue, heard, conn, errno, poll_loop, pc>>
  BY DEF Leaves
<1>2. infos \in Seq([id : 1..MaxId, addr : Addresses]) /\ k \in 1..Len(infos)
      /\ Len(infos) \in Nat /\ DOMAIN infos = 1..Len(infos)
  BY <1>t DEF TypeOK
<1>3. /\ infos' \in Seq([id : 1..MaxId, addr : Addresses])
      /\ Len(infos') = Len(infos) - 1
      /\ \A j \in 1..(Len(infos) - 1) : infos'[j] = IF j < k THEN infos[j] ELSE infos[j + 1]
  BY <1>1, <1>2, RemoveAtProperties
<1>4. DOMAIN infos' = 1..(Len(infos) - 1)
  BY <1>3
<1>5. TypeOK'
  BY <1>t, <1>1, <1>2, <1>3, UdpReceiveAssumption DEF TypeOK, network
<1>6. CellsKnown'
  <2> SUFFICES ASSUME NEW j \in DOMAIN infos'
               PROVE  infos'[j].id \in DOMAIN used /\ infos'[j].addr = used[infos'[j].id]
    BY <1>1 DEF CellsKnown
  <2>1. \E l \in DOMAIN infos : infos'[j] = infos[l]
    <3>1. j \in 1..(Len(infos) - 1)
      BY <1>4
    <3>2. infos'[j] = IF j < k THEN infos[j] ELSE infos[j + 1]
      BY <1>3, <3>1
    <3>3. j \in DOMAIN infos /\ j + 1 \in DOMAIN infos
      <4> HIDE DEF UdpInv
      <4>1. Len(infos) \in Nat /\ DOMAIN infos = 1..Len(infos)
        BY <1>2
      <4> QED
        BY <3>1, <4>1
    <3> QED
      BY <3>2, <3>3
  <2> QED
    BY <2>1, <1>t DEF CellsKnown
<1>7. IdsGiven' /\ UnderWayGenuine' /\ OnePlace' /\ HeardAreSized' /\ AttributedToSender'
      /\ DatagramsKeepConnection'
  BY <1>1 DEF UdpInv, IdsGiven, UnderWayGenuine, Genuine, OnePlace, HeardAreSized,
     AttributedToSender, DatagramsKeepConnection, network
<1> QED
  BY <1>5, <1>6, <1>7 DEF UdpInv

\* A sender is a client that joined, with its address, or a stranger.
LEMMA SenderKnown ==
  ASSUME TypeOK, NEW s \in Senders
  PROVE  /\ s \in Sender
         /\ \/ s.id = 0 /\ s.addr \in Strangers
            \/ s.id \in DOMAIN used /\ s.addr = used[s.id]
<1>1. CASE \E i \in DOMAIN used : s = [id |-> i, addr |-> used[i]]
  <2>1. PICK i \in DOMAIN used : s = [id |-> i, addr |-> used[i]]
    BY <1>1
  <2>2. i \in 0..MaxId /\ used[i] \in Addresses
    BY UdpReceiveAssumption DEF TypeOK
  <2> QED
    BY <2>1, <2>2 DEF Sender
<1>2. CASE \E a \in Strangers : s = [id |-> 0, addr |-> a]
  BY <1>2, UdpReceiveAssumption DEF Sender, Addresses
<1> QED
  BY <1>1, <1>2 DEF Senders

\* A datagram is sent, with a number none other has.
LEMMA SendStep ==
  ASSUME UdpInv, NEW s \in Senders, NEW kind \in scene.kinds, Sends(s, kind)
  PROVE  UdpInv'
<1>t. TypeOK /\ UnderWayGenuine /\ OnePlace
  BY DEF UdpInv
<1> DEFINE d == [n |-> sent + 1, from |-> s, kind |-> kind]
<1>1. /\ sent < MaxDatagrams /\ sent' = sent + 1 /\ wire' = wire \cup {d}
      /\ UNCHANGED <<scene, table, queue, heard, conn, errno, poll_loop, pc>>
  BY DEF Sends
<1>2. sent \in Nat /\ MaxDatagrams \in Nat
  BY <1>t, UdpReceiveAssumption DEF TypeOK
<1>3. d \in Datagram
  <2>1. kind \in {"good", "nil", "empty", "short", "over", "under"}
    BY <1>t DEF TypeOK, Scene
  <2>2. sent + 1 \in 1..MaxDatagrams
    BY <1>1, <1>2
  <2> QED
    BY <1>t, <2>1, <2>2, SenderKnown DEF Datagram
<1>4. Genuine(d)
  BY <1>t, SenderKnown DEF Genuine
<1>5. d.n = sent + 1
  OBVIOUS
<1> HIDE DEF d
<1>6. TypeOK'
  BY <1>t, <1>1, <1>2, <1>3 DEF TypeOK, table
<1>7. UnderWayGenuine'
  BY <1>t, <1>1, <1>4 DEF UnderWayGenuine, Genuine, table
<1>8. /\ \A e \in wire : e.n \in Nat
      /\ \A k \in DOMAIN queue : queue[k].n \in Nat
      /\ \A k \in DOMAIN heard : heard[k].d.n \in Nat
  <2>1. \A e \in Datagram : e.n \in Nat
    BY <1>2 DEF Datagram
  <2>2. \A k \in DOMAIN heard : heard[k].d \in Datagram
    <3>1. heard \in Seq([d : Datagram, to : 0..MaxId]) /\ DOMAIN heard = 1..Len(heard)
      BY <1>t DEF TypeOK
    <3>2. \A k \in DOMAIN heard : heard[k] \in [d : Datagram, to : 0..MaxId]
      BY <3>1, ElementOfSeq
    <3> QED
      BY <3>2
  <2>3. \A k \in DOMAIN queue : queue[k] \in Datagram
    BY <1>t DEF TypeOK
  <2>4. wire \subseteq Datagram
    BY <1>t DEF TypeOK
  <2> QED
    BY <2>1, <2>2, <2>3, <2>4
<1>9. OnePlace'
  BY <1>t, <1>1, <1>2, <1>5, <1>8 DEF OnePlace
<1>10. IdsGiven' /\ CellsKnown' /\ HeardAreSized' /\ AttributedToSender'
       /\ DatagramsKeepConnection'
  BY <1>1 DEF UdpInv, IdsGiven, CellsKnown, HeardAreSized, AttributedToSender,
     DatagramsKeepConnection, table
<1> QED
  BY <1>6, <1>7, <1>9, <1>10 DEF UdpInv

\* A datagram moves from the wire to the end of the queue.
LEMMA ArriveStep ==
  ASSUME UdpInv, NEW d \in wire, Arrives(d)
  PROVE  UdpInv'
<1>t. TypeOK /\ UnderWayGenuine /\ OnePlace
  BY DEF UdpInv
<1>1. /\ wire' = wire \ {d} /\ queue' = Append(queue, d)
      /\ UNCHANGED <<scene, table, sent, heard, conn, errno, poll_loop, pc>>
  BY DEF Arrives
<1>2. d \in Datagram /\ queue \in Seq(Datagram) /\ Len(queue) \in Nat
      /\ DOMAIN queue = 1..Len(queue)
  BY <1>t DEF TypeOK
<1>3. /\ queue' \in Seq(Datagram) /\ DOMAIN queue' = 1..(Len(queue) + 1)
      /\ \A k \in 1..Len(queue) : queue'[k] = queue[k]
      /\ queue'[Len(queue) + 1] = d
  BY <1>1, <1>2
<1>4. \A k \in DOMAIN queue' :
        \/ queue'[k] = d /\ k = Len(queue) + 1
        \/ k \in DOMAIN queue /\ queue'[k] = queue[k]
  <2>1. \A k \in 1..(Len(queue) + 1) : k = Len(queue) + 1 \/ k \in 1..Len(queue)
    BY <1>2
  <2> SUFFICES ASSUME NEW k \in 1..(Len(queue) + 1)
               PROVE  \/ queue'[k] = d /\ k = Len(queue) + 1
                      \/ k \in DOMAIN queue /\ queue'[k] = queue[k]
    BY <1>3, Zenon
  <2>2. CASE k = Len(queue) + 1
    BY <1>3, <2>2, Zenon
  <2>3. CASE k \in 1..Len(queue)
    BY <1>2, <1>3, <2>3, Zenon
  <2> QED
    BY <2>1, <2>2, <2>3, Zenon
<1>5. TypeOK'
  BY <1>t, <1>1, <1>3 DEF TypeOK, table
<1>6. UnderWayGenuine'
  BY <1>t, <1>1, <1>4 DEF UnderWayGenuine, Genuine, table
<1>7. OnePlace'
  BY <1>t, <1>1, <1>4 DEF OnePlace
<1>8. IdsGiven' /\ CellsKnown' /\ HeardAreSized' /\ AttributedToSender'
       /\ DatagramsKeepConnection'
  BY <1>1 DEF UdpInv, IdsGiven, CellsKnown, HeardAreSized, AttributedToSender,
     DatagramsKeepConnection, table
<1> QED
  BY <1>5, <1>6, <1>7, <1>8 DEF UdpInv
-----------------------------------------------------------------------------
\* What the second recvfrom() leaves: every datagram but the first.
LEMMA ConsumedProperties ==
  ASSUME TypeOK, queue # <<>>
  PROVE  /\ Head(queue) = queue[1] /\ 1 \in DOMAIN queue
         /\ Consumed \in Seq(Datagram)
         /\ \A k \in DOMAIN Consumed :
              k + 1 \in DOMAIN queue /\ k + 1 # 1 /\ Consumed[k] = queue[k + 1]
         /\ \A j, k \in DOMAIN Consumed : j + 1 = k + 1 => j = k
<1>1. queue \in Seq(Datagram) /\ Len(queue) \in Nat /\ DOMAIN queue = 1..Len(queue)
  BY DEF TypeOK
<1>2. /\ Consumed \in Seq(Datagram) /\ Len(Consumed) = Len(queue) - 1
      /\ \A k \in 1..Len(Consumed) : Consumed[k] = queue[k + 1]
  BY <1>1, HeadTailProperties DEF Consumed
<1>3. DOMAIN Consumed = 1..(Len(queue) - 1)
  BY <1>2
<1>4. Head(queue) = queue[1] /\ 1 \in DOMAIN queue
  BY <1>1
<1> QED
  BY <1>1, <1>2, <1>3, <1>4

\* A step that takes nothing off the queue, or takes the first datagram off
\* it, and delivers nothing.
LEMMA NothingHeardStep ==
  ASSUME UdpInv, UNCHANGED <<scene, table, network, heard>>,
         queue' = queue \/ (queue # <<>> /\ queue' = Consumed),
         conn' \in BOOLEAN, errno' \in Errnos, poll_loop' \in BOOLEAN,
         pc' \in {"poll", "udp"},
         scene.kinds \subseteq {"good", "nil"} /\ ~scene.faults /\ ~scene.logs /\ conn => conn'
  PROVE  UdpInv'
<1>t. TypeOK /\ UnderWayGenuine /\ OnePlace
  BY DEF UdpInv
<1>1. /\ queue' \in Seq(Datagram)
      /\ \A k \in DOMAIN queue' : \E l \in DOMAIN queue : queue'[k] = queue[l]
      /\ \A j, k \in DOMAIN queue' : queue'[j].n = queue'[k].n => j = k
  <2>1. CASE queue' = queue
    BY <1>t, <2>1 DEF TypeOK, OnePlace
  <2>2. CASE queue # <<>> /\ queue' = Consumed
    <3>1. /\ Consumed \in Seq(Datagram)
          /\ \A k \in DOMAIN Consumed : k + 1 \in DOMAIN queue /\ Consumed[k] = queue[k + 1]
          /\ \A j, k \in DOMAIN Consumed : j + 1 = k + 1 => j = k
      BY <1>t, <2>2, ConsumedProperties
    <3> QED
      BY <1>t, <2>2, <3>1 DEF OnePlace
  <2> QED
    BY <2>1, <2>2
<1>2. TypeOK'
  BY <1>t, <1>1 DEF TypeOK, table, network
<1>3. UnderWayGenuine'
  BY <1>t, <1>1 DEF UnderWayGenuine, Genuine, table, network
<1>4. OnePlace'
  BY <1>t, <1>1 DEF OnePlace, network
<1>5. IdsGiven' /\ CellsKnown' /\ HeardAreSized' /\ AttributedToSender'
  BY DEF UdpInv, IdsGiven, CellsKnown, HeardAreSized, AttributedToSender, table, network
<1>6. DatagramsKeepConnection'
  BY DEF UdpInv, DatagramsKeepConnection
<1> QED
  BY <1>2, <1>3, <1>4, <1>5, <1>6 DEF UdpInv

\* Behind a log errno is still one, and the same if nobody listens.
LEMMA LoggedErrno ==
  ASSUME NEW E \in SUBSET Errnos, ReturnsError(E), conn \in BOOLEAN,
         scene.side \in {"server", "client"}
  PROVE  /\ conn' \in BOOLEAN /\ errno' \in Errnos /\ pc' = "poll"
         /\ scene.side = "server" => conn' = conn
         /\ ~scene.logs => errno' \in E
         /\ errno' = "EWOULDBLOCK" => conn' = conn
<1>1. errno' \in Errnos /\ (~scene.logs => errno' \in E)
  <2>1. CASE scene.side = "server"
    BY <2>1 DEF ReturnsError
  <2>2. CASE scene.side = "client"
    <3>1. PICK e \in E : errno' \in Logged(e)
      BY <2>2 DEF ReturnsError
    <3> QED
      BY <3>1 DEF Logged
  <2> QED
    BY <2>1, <2>2
<1>2. conn' = (conn /\ (scene.side = "server" \/ errno' = "EWOULDBLOCK")) /\ pc' = "poll"
  BY DEF ReturnsError
<1> QED
  BY <1>1, <1>2

\* Every step of the poll thread but the delivery, and the stop.
LEMMA QuietStep ==
  ASSUME UdpInv,
         StopCalled \/ Serve \/ UdpNone \/ UdpEmpty \/ UdpShort \/ UdpMallocFails
           \/ UdpWrongSize \/ UdpUnknown
  PROVE  UdpInv'
<1>t. TypeOK /\ UnderWayGenuine
  BY DEF UdpInv
<1>1. conn \in BOOLEAN /\ errno \in Errnos /\ poll_loop \in BOOLEAN /\ pc \in {"poll", "udp"}
  BY <1>t DEF TypeOK
<1>2. scene.side \in {"server", "client"}
  BY <1>t DEF TypeOK, Scene
<1>3. queue # <<>> => Head(queue).kind \in scene.kinds
  BY <1>t, ConsumedProperties DEF UnderWayGenuine, Genuine
<1>4. CASE StopCalled
  BY <1>1, <1>4, NothingHeardStep DEF StopCalled
<1>5. CASE Serve
  BY <1>1, <1>5, NothingHeardStep DEF Serve
<1>l. \A e \in Errnos : Logged(e) \in SUBSET Errnos
  BY DEF Logged
<1>6. CASE UdpNone
  <2>1. {"EWOULDBLOCK"} \in SUBSET Errnos /\ ReturnsError({"EWOULDBLOCK"})
    BY <1>6 DEF UdpNone, Errnos
  <2>2. /\ conn' \in BOOLEAN /\ errno' \in Errnos /\ pc' = "poll"
        /\ ~scene.logs => conn' = conn
    BY <1>1, <1>2, <2>1, LoggedErrno
  <2> QED
    BY <1>1, <1>6, <2>2, NothingHeardStep DEF UdpNone
<1>7. CASE UdpEmpty
  <2>1. conn' \in BOOLEAN /\ errno' \in Errnos /\ ~(scene.kinds \subseteq {"good", "nil"})
    BY <1>1, <1>3, <1>7 DEF UdpEmpty
  <2> QED
    BY <1>1, <1>7, <2>1, NothingHeardStep DEF UdpEmpty
<1>8. CASE UdpShort
  <2>1. ReturnsError(Logged(errno)) /\ ~(scene.kinds \subseteq {"good", "nil"})
    BY <1>3, <1>8 DEF UdpShort
  <2>2. conn' \in BOOLEAN /\ errno' \in Errnos /\ pc' = "poll"
    BY <1>1, <1>2, <1>l, <2>1, LoggedErrno
  <2> QED
    BY <1>1, <1>8, <2>1, <2>2, NothingHeardStep DEF UdpShort
<1>9. CASE UdpMallocFails
  <2>1. "other" \in Errnos /\ ReturnsError(Logged("other")) /\ scene.faults
    BY <1>9 DEF UdpMallocFails, Errnos
  <2>2. conn' \in BOOLEAN /\ errno' \in Errnos /\ pc' = "poll"
    BY <1>1, <1>2, <1>l, <2>1, LoggedErrno
  <2> QED
    BY <1>1, <1>9, <2>1, <2>2, NothingHeardStep DEF UdpMallocFails
<1>10. CASE UdpWrongSize
  <2>1. ReturnsError(Logged(errno)) /\ ~(scene.kinds \subseteq {"good", "nil"})
    BY <1>3, <1>10 DEF UdpWrongSize
  <2>2. conn' \in BOOLEAN /\ errno' \in Errnos /\ pc' = "poll"
    BY <1>1, <1>2, <1>l, <2>1, LoggedErrno
  <2> QED
    BY <1>1, <1>10, <2>1, <2>2, NothingHeardStep DEF UdpWrongSize
<1>11. CASE UdpUnknown
  <2>1. ReturnsError(Logged(errno)) /\ scene.side = "server"
    BY <1>11 DEF UdpUnknown
  <2>2. conn' = conn /\ errno' \in Errnos /\ pc' = "poll"
    BY <1>1, <1>2, <1>l, <2>1, LoggedErrno
  <2> QED
    BY <1>1, <1>11, <2>2, NothingHeardStep DEF UdpUnknown, Sized
<1> QED
  BY <1>4, <1>5, <1>6, <1>7, <1>8, <1>9, <1>10, <1>11

\* The cell udtcp_get_infos finds is the sender's: no stranger has a cell, and
\* no other id was given with the address.
LEMMA FoundIsSender ==
  ASSUME UdpInv, NEW d, Genuine(d), Cells(d.from.addr) # {},
         scene.side = "server", ~scene.reuse
  PROVE  GetInfos(d.from.addr) = d.from.id
<1>1. PICK k \in DOMAIN infos : infos[k].addr = d.from.addr
                               /\ GetInfos(d.from.addr) = infos[k].id
  BY GetInfosIsACell DEF UdpInv
<1>2. infos[k].id \in DOMAIN used /\ infos[k].addr = used[infos[k].id]
  BY DEF UdpInv, CellsKnown
<1>3. used[infos[k].id] \in Hosts \X Ports
  BY <1>2, ElementOfSeq DEF UdpInv, IdsGiven
<1>4. d.from.addr \notin Strangers
  BY <1>1, <1>2, <1>3, UdpReceiveAssumption
<1>5. d.from.id \in DOMAIN used /\ d.from.addr = used[d.from.id]
  BY <1>4 DEF Genuine
<1> QED
  BY <1>1, <1>2, <1>5 DEF UdpInv, IdsGiven

\* receive_udp_callback is called with the first datagram of the queue.
LEMMA DeliverStep ==
  ASSUME UdpInv, UdpDelivers
  PROVE  UdpInv'
<1>t. TypeOK /\ CellsKnown /\ UnderWayGenuine /\ OnePlace /\ HeardAreSized
  BY DEF UdpInv
<1> DEFINE d == Head(queue)
           to == IF scene.side = "client" THEN 0 ELSE GetInfos(d.from.addr)
           h == [d |-> d, to |-> to]
<1>1. /\ queue # <<>> /\ d.kind \in {"good", "nil", "under"}
      /\ scene.side = "server" => Cells(d.from.addr) # {}
      /\ heard' = Append(heard, h) /\ pc' \in {"poll", "udp"}
      /\ queue' = Consumed /\ errno' \in Errnos
      /\ UNCHANGED <<scene, table, network, conn, poll_loop>>
  BY DEF UdpDelivers, Sized
<1>2. /\ d = queue[1] /\ 1 \in DOMAIN queue
      /\ Consumed \in Seq(Datagram)
      /\ \A k \in DOMAIN Consumed :
           k + 1 \in DOMAIN queue /\ k + 1 # 1 /\ Consumed[k] = queue[k + 1]
      /\ \A j, k \in DOMAIN Consumed : j + 1 = k + 1 => j = k
  BY <1>t, <1>1, ConsumedProperties
<1>3. d \in Datagram /\ Genuine(d)
  BY <1>t, <1>2, ElementOfSeq DEF TypeOK, UnderWayGenuine
<1>4. to \in 0..MaxId
  <2>1. CASE scene.side = "client"
    BY <2>1, UdpReceiveAssumption
  <2>2. CASE scene.side = "server"
    <3>1. PICK k \in DOMAIN infos : GetInfos(d.from.addr) = infos[k].id
      BY <1>t, <1>1, <2>2, GetInfosIsACell
    <3>2. infos[k] \in [id : 1..MaxId, addr : Addresses]
      <4>1. infos \in Seq([id : 1..MaxId, addr : Addresses]) /\ k \in 1..Len(infos)
        BY <1>t DEF TypeOK
      <4> QED
        BY <4>1, ElementOfSeq
    <3> QED
      BY <2>2, <3>1, <3>2, UdpReceiveAssumption
  <2> QED
    BY <1>t, <2>1, <2>2 DEF TypeOK, Scene
<1>5. scene.side = "server" /\ ~scene.reuse => to = d.from.id
  BY <1>1, <1>3, FoundIsSender
<1> HIDE DEF d, to
<1>6. h \in [d : Datagram, to : 0..MaxId] /\ h.d = d /\ h.to = to
  BY <1>3, <1>4
<1> HIDE DEF h
<1>7. heard \in Seq([d : Datagram, to : 0..MaxId]) /\ Len(heard) \in Nat
      /\ DOMAIN heard = 1..Len(heard)
  BY <1>t DEF TypeOK
<1>8. /\ heard' \in Seq([d : Datagram, to : 0..MaxId]) /\ DOMAIN heard' = 1..(Len(heard) + 1)
      /\ \A k \in 1..Len(heard) : heard'[k] = heard[k]
      /\ heard'[Len(heard) + 1] = h
  BY <1>1, <1>6, <1>7
<1>9. \A k \in DOMAIN heard' :
        \/ heard'[k] = h /\ k = Len(heard) + 1
        \/ k \in DOMAIN heard /\ heard'[k] = heard[k]
  <2>1. \A k \in 1..(Len(heard) + 1) : k = Len(heard) + 1 \/ k \in 1..Len(heard)
    BY <1>7
  <2> SUFFICES ASSUME NEW k \in 1..(Len(heard) + 1)
               PROVE  \/ heard'[k] = h /\ k = Len(heard) + 1
                      \/ k \in DOMAIN heard /\ heard'[k] = heard[k]
    BY <1>8, Zenon
  <2>2. CASE k = Len(heard) + 1
    BY <1>8, <2>2, Zenon
  <2>3. CASE k \in 1..Len(heard)
    BY <1>7, <1>8, <2>3, Zenon
  <2> QED
    BY <2>1, <2>2, <2>3, Zenon
<1>10. TypeOK'
  BY <1>t, <1>1, <1>2, <1>8 DEF TypeOK, table, network
<1>11. UnderWayGenuine'
  BY <1>t, <1>1, <1>2 DEF UnderWayGenuine, Genuine, table, network
<1>12. OnePlace'
  <2>1. /\ \A e \in wire' : e.n <= sent'
        /\ \A k \in DOMAIN queue' : queue'[k].n <= sent'
        /\ \A k \in DOMAIN heard' : heard'[k].d.n <= sent'
        /\ \A e, f \in wire' : e.n = f.n => e = f
    BY <1>t, <1>1, <1>2, <1>6, <1>9 DEF OnePlace, network
  <2>2. \A j, k \in DOMAIN queue' : queue'[j].n = queue'[k].n => j = k
    BY <1>t, <1>1, <1>2 DEF OnePlace
  <2>3. \A j, k \in DOMAIN heard' : heard'[j].d.n = heard'[k].d.n => j = k
    BY <1>t, <1>2, <1>6, <1>9 DEF OnePlace
  <2>4. \A e \in wire' : \A k \in DOMAIN queue' : e.n # queue'[k].n
    BY <1>t, <1>1, <1>2 DEF OnePlace, network
  <2>5. \A e \in wire' : \A k \in DOMAIN heard' : e.n # heard'[k].d.n
    BY <1>t, <1>1, <1>2, <1>6, <1>9 DEF OnePlace, network
  <2>6. \A j \in DOMAIN queue' : \A k \in DOMAIN heard' : queue'[j].n # heard'[k].d.n
    BY <1>t, <1>1, <1>2, <1>6, <1>9 DEF OnePlace
  <2> QED
    BY <2>1, <2>2, <2>3, <2>4, <2>5, <2>6 DEF OnePlace
<1>13. HeardAreSized'
  BY <1>t, <1>1, <1>6, <1>9 DEF HeardAreSized
<1>14. AttributedToSender'
  BY <1>1, <1>5, <1>6, <1>9 DEF UdpInv, AttributedToSender
<1>15. IdsGiven' /\ CellsKnown' /\ DatagramsKeepConnection'
  BY <1>1 DEF UdpInv, IdsGiven, CellsKnown, DatagramsKeepConnection, table
<1> QED
  BY <1>10, <1>11, <1>12, <1>13, <1>14, <1>15 DEF UdpInv

\* Every step preserves UdpInv.
LEMMA UdpStep == UdpInv /\ [Next]_vars => UdpInv'
<1> SUFFICES ASSUME UdpInv, [Next]_vars PROVE UdpInv'
  OBVIOUS
<1>1. ASSUME NEW a \in Hosts \X Ports, Joins(a) PROVE UdpInv'
  BY <1>1, JoinStep
<1>2. ASSUME NEW k \in DOMAIN infos, Leaves(k) PROVE UdpInv'
  BY <1>2, LeaveStep
<1>3. ASSUME NEW s \in Senders, NEW kind \in scene.kinds, Sends(s, kind) PROVE UdpInv'
  BY <1>3, SendStep
<1>4. ASSUME NEW d \in wire, Arrives(d) PROVE UdpInv'
  BY <1>4, ArriveStep
<1>5. CASE StopCalled \/ Serve \/ UdpNone \/ UdpEmpty \/ UdpShort \/ UdpMallocFails
             \/ UdpWrongSize \/ UdpUnknown
  BY <1>5, QuietStep
<1>6. CASE UdpDelivers
  BY <1>6, DeliverStep
<1>7. CASE UNCHANGED vars
  BY <1>7 DEF vars, table, network, UdpInv, TypeOK, IdsGiven, CellsKnown, UnderWayGenuine,
     Genuine, OnePlace, HeardAreSized, AttributedToSender, DatagramsKeepConnection
<1> QED
  BY <1>1, <1>2, <1>3, <1>4, <1>5, <1>6, <1>7 DEF Next
-----------------------------------------------------------------------------
\* UdpInv holds in every state: cells and datagrams under way carry addresses
\* as they were given, and every datagram is in one place.
THEOREM UdpInvariant == Spec => []UdpInv
<1>1. Init => UdpInv
  BY UdpInit
<1>2. UdpInv /\ [Next]_vars => UdpInv'
  BY UdpStep
<1> QED
  BY <1>1, <1>2, PTL DEF Spec

\* Every variable of UdpReceive has its type, the table of clients never has
\* more than UDTCP_MAX_CONNECTION cells, and what receive_udp_callback is
\* called with are datagrams that were sent.
THEOREM UdpTypeCorrect == Spec => []TypeOK
<1>1. UdpInv => TypeOK
  BY DEF UdpInv
<1> QED
  BY <1>1, UdpInvariant, PTL

\* receive_udp of the server hands every datagram to the client that sent it,
\* however clients come and go and datagrams are late, repeated or forged by
\* strangers, as long as no address is given to a second client.
THEOREM DatagramsAttributed == Spec => []AttributedToSender
<1>1. UdpInv => AttributedToSender
  BY DEF UdpInv
<1> QED
  BY <1>1, UdpInvariant, PTL

\* No arrival is given to receive_udp_callback twice, and none that was too
\* short for the size it claims.
THEOREM DatagramsHeardOnce == Spec => []HeardOnce
<1>1. UdpInv => HeardOnce
  BY DEF UdpInv, OnePlace, HeardAreSized, HeardOnce
<1> QED
  BY <1>1, UdpInvariant, PTL

\* Without a log_callback, datagrams as udtcp_send_udp makes them never cost the
\* client its TCP connection, whatever errno the receive callbacks leave: the
\* errno udtcp_client_poll judges is then that of the recvfrom() that found
\* nothing.  With one it is the log_callback's (client_poll.c:342), and the
\* connection may be dropped.
THEOREM ConnectionSurvivesDatagrams == Spec => []DatagramsKeepConnection
<1>1. UdpInv => DatagramsKeepConnection
  BY DEF UdpInv
<1> QED
  BY <1>1, UdpInvariant, PTL
=============================================================================
