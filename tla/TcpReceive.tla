----------------------------- MODULE TcpReceive -----------------------------
(***************************************************************************)
(* receive_tcp of the server and of the client, with the loops around it   *)
(* in udtcp_server_poll and udtcp_client_poll.  A message is a length of   *)
(* HDR bytes and a payload; TCP hands the stream over in pieces.           *)
(*                                                                         *)
(* Bytes are known by their offset in the stream of their peer.  msgs[p]   *)
(* tells where each message begins and how long its payload is, so what    *)
(* the HDR bytes at some offset mean is known where a message begins there *)
(* and arbitrary elsewhere.                                                *)
(***************************************************************************)
EXTENDS Integers, Sequences, Functions

CONSTANTS
  Peers,         \* the connections
  Scenes,        \* the circumstances of an execution: a set of Scene records
  HDR,           \* sizeof(uint32_t)
  Sizes,         \* lengths of payloads, and what other bytes read as
  IntLimit,      \* 2^31: a uint32_t from there on is negative as an int
  MaxMessages    \* bound on the messages of each peer

\* Whose receive_tcp this is; where a piece of the stream may end: only inside
\* or behind a payload, or anywhere; whether malloc fails, signals come and
\* odd lengths are sent; whether the build logs and a log_callback is set; who
\* is connected (one peer, for a client).
Scene == [side : {"server", "client"}, cuts : {"payload", "any"},
          faults : BOOLEAN, logs : BOOLEAN, peers : SUBSET Peers]

ASSUME TcpReceiveAssumption ==
  /\ Scenes \subseteq Scene
  /\ HDR \in Nat \ {0}
  /\ IntLimit \in Nat \ {0}
  /\ Sizes \subseteq 0..(2 * IntLimit - 1)
  /\ MaxMessages \in [Peers -> Nat]

VARIABLES
  scene,         \* the circumstances of this execution
  msgs,          \* per peer, the messages written
  ended,         \* per peer: "no", "fin" or "rst"
  arrived,       \* per peer, bytes that have reached this kernel
  read,          \* per peer, bytes recv() has returned
  conn,          \* per peer, not disconnected
  seen,          \* per peer, what receive_tcp_callback was called with
  poll_loop,     \* cleared by udtcp_stop_server, udtcp_stop_client
  errno,
  buffer_size,
  pc,            \* the poll thread: "poll", "size", "payload", "rest", "deliver"
  cur,           \* the peer receive_tcp is called for
  at,            \* the offset data_size was read at
  data_size,
  got            \* the code's local buffer_size: bytes of the payload so far

peer == <<msgs, ended>>
call == <<cur, at, data_size, got>>
vars == <<scene, peer, arrived, read, conn, seen, poll_loop, errno,
          buffer_size, pc, call>>

\* Only this one value of errno is told from the others.
Errnos == {"EWOULDBLOCK", "other"}

\* The first offset behind the last message of a sequence.
End(s) == IF s = <<>> THEN 0
                      ELSE LET m == s[Len(s)] IN m.at + HDR + m.len
Written(p) == End(msgs[p])

Init ==
  /\ scene \in Scenes
  /\ msgs = [p \in Peers |-> <<>>]
  /\ ended = [p \in Peers |-> IF p \in scene.peers THEN "no" ELSE "fin"]
  /\ arrived = [p \in Peers |-> 0]
  /\ read = [p \in Peers |-> 0]
  /\ conn = [p \in Peers |-> p \in scene.peers]
  /\ seen = [p \in Peers |-> <<>>]
  /\ poll_loop = TRUE
  /\ errno \in Errnos
  /\ buffer_size = 0
  /\ pc = "poll" /\ cur \in scene.peers
  /\ at = 0 /\ data_size = 0 /\ got = 0
-----------------------------------------------------------------------------
\* The peer and the network.  What a peer does is followed until the stop.

\* udtcp_send_tcp of the peer.
PeerSends(p) ==
  /\ conn[p] /\ ended[p] = "no" /\ poll_loop /\ Len(msgs[p]) < MaxMessages[p]
  /\ \E n \in IF scene.faults THEN Sizes ELSE Sizes \cap 1..(IntLimit - 1) :
       msgs' = [msgs EXCEPT ![p] = Append(@, [at |-> Written(p), len |-> n])]
  /\ UNCHANGED <<scene, ended, arrived, read, conn, seen, poll_loop, errno,
                 buffer_size, pc, call>>

\* The peer closes, or its connection breaks and what is under way is lost.
PeerEnds(p) ==
  /\ conn[p] /\ ended[p] = "no" /\ poll_loop
  /\ \E e \in {"fin", "rst"} : ended' = [ended EXCEPT ![p] = e]
  /\ UNCHANGED <<scene, msgs, arrived, read, conn, seen, poll_loop, errno,
                 buffer_size, pc, call>>

\* A piece of the stream may end before offset n.
MayCut(p, n) ==
  \/ scene.cuts = "any"
  \/ \E m \in Range(msgs[p]) :
       n \in (m.at + HDR + IF m.len = 0 THEN 0 ELSE 1)..(m.at + HDR + m.len)

Arrives(p) ==
  /\ conn[p] /\ ended[p] # "rst"
  /\ \E n \in (arrived[p] + 1)..Written(p) :
       MayCut(p, n) /\ arrived' = [arrived EXCEPT ![p] = n]
  /\ UNCHANGED <<scene, peer, read, conn, seen, poll_loop, errno,
                 buffer_size, pc, call>>

Avail(p) == arrived[p] - read[p]
Eof(p) == ended[p] = "fin" /\ arrived[p] = Written(p)
Readable(p) == conn[p] /\ (Avail(p) > 0 \/ Eof(p) \/ ended[p] = "rst")
-----------------------------------------------------------------------------
\* How a call of receive_tcp ends: the caller keeps or drops the connection.

\* The local variables of the call are gone.
Back ==
  /\ pc' = "poll"
  /\ at' = 0 /\ data_size' = 0 /\ got' = 0

\* What errno may be behind UDTCP_LOG_ERROR: a log_callback leaves any.
Logged(e) == IF scene.logs THEN Errnos ELSE {e}

\* receive_tcp returned -1.  Only EWOULDBLOCK keeps the connection; without it
\* disconnect_callback leaves any errno.
ReturnsErrorKept(e) == errno' = e /\ Back /\ UNCHANGED conn
ReturnsErrorDropped(e) == errno' = e /\ Back /\ conn' = [conn EXCEPT ![cur] = FALSE]
ReturnsError(e) ==
  /\ errno' \in IF e = "EWOULDBLOCK" THEN {e} ELSE Errnos
  /\ conn' = [conn EXCEPT ![cur] = @ /\ e = "EWOULDBLOCK"]
  /\ Back

\* receive_tcp returned 0.  disconnect_callback leaves any errno.
ReturnsClose ==
  /\ errno' \in Errnos
  /\ conn' = [conn EXCEPT ![cur] = FALSE]
  /\ Back

\* udtcp_stop_server, udtcp_stop_client.
StopCalled ==
  /\ poll_loop
  /\ poll_loop' = FALSE
  /\ UNCHANGED <<scene, peer, arrived, read, conn, seen, errno,
                 buffer_size, pc, call>>

\* The scan reaches a cell poll() reported.
Serve(p) ==
  /\ pc = "poll" /\ poll_loop
  /\ Readable(p)
  /\ pc' = "size" /\ cur' = p
  /\ UNCHANGED <<scene, peer, arrived, read, conn, seen, poll_loop, errno,
                 buffer_size, at, data_size, got>>

\* recv() of the size, or the first one of the payload, finds no bytes.
RecvFindsNothing ==
  /\ pc \in {"size", "payload"}
  /\ Avail(cur) = 0 /\ ~Eof(cur) /\ ended[cur] # "rst"
  /\ ReturnsError("EWOULDBLOCK")
  /\ UNCHANGED <<scene, peer, arrived, read, seen, poll_loop, buffer_size, cur>>

RecvFindsClose ==
  /\ pc \in {"size", "payload", "rest"}
  /\ Avail(cur) = 0 /\ Eof(cur)
  /\ ReturnsClose
  /\ UNCHANGED <<scene, peer, arrived, read, seen, poll_loop, buffer_size, cur>>

RecvFindsReset ==
  /\ pc \in {"size", "payload", "rest"}
  /\ Avail(cur) = 0 /\ ended[cur] = "rst"
  /\ \E e \in IF pc = "rest" THEN Logged("other") ELSE {"other"} :    \* ECONNRESET
       ReturnsError(e)
  /\ UNCHANGED <<scene, peer, arrived, read, seen, poll_loop, buffer_size, cur>>

\* Fewer bytes than a size: they are consumed, and errno is an older one.
RecvShortSize ==
  /\ pc = "size"
  /\ Avail(cur) \in 1..(HDR - 1)
  /\ read' = [read EXCEPT ![cur] = arrived[cur]]
  /\ \E e \in Logged(errno) : ReturnsError(e)
  /\ UNCHANGED <<scene, peer, arrived, seen, poll_loop, buffer_size, cur>>

\* What the HDR bytes at offset o say.
SizeAt(p, o) ==
  LET here == {m \in Range(msgs[p]) : m.at = o}
  IN  IF here = {} THEN Sizes ELSE {m.len : m \in here}

ReadSize(n) ==
  /\ pc = "size"
  /\ Avail(cur) >= HDR
  /\ n \in SizeAt(cur, read[cur])
  /\ read' = [read EXCEPT ![cur] = @ + HDR]

GrownNever(n) == buffer_size
Grown(n) == IF n > buffer_size THEN n ELSE buffer_size

\* The size is read and the buffer is large enough, or made so.
RecvSize ==
  /\ \E n \in Sizes :
       /\ ReadSize(n)
       /\ data_size' = n
       /\ buffer_size' = Grown(n)
  /\ at' = read[cur]
  /\ got' = 0
  /\ pc' = "payload"
  /\ UNCHANGED <<scene, peer, arrived, conn, seen, poll_loop, errno, cur>>

\* udtcp_new_buffer fails: the payload stays in the stream.
MallocFails ==
  /\ scene.faults
  /\ \E n \in Sizes : ReadSize(n) /\ n > buffer_size
  /\ \E e \in Logged("other") : ReturnsError(e)    \* ENOMEM
  /\ UNCHANGED <<scene, peer, arrived, seen, poll_loop, buffer_size, cur>>

\* recv() of 0 bytes returns 0, which is what it returns for a close; with
\* nothing to read the kernel may also answer as in RecvFindsNothing.
RecvEmptyPayload ==
  /\ pc = "payload" /\ data_size = 0
  /\ ReturnsClose
  /\ UNCHANGED <<scene, peer, arrived, read, seen, poll_loop, buffer_size, cur>>

\* recv() returns what there is, up to the rest of the payload.
TakeAll(n) == Avail(cur)
Take(n) == IF Avail(cur) < n THEN Avail(cur) ELSE n

RecvSome ==
  /\ Avail(cur) > 0
  /\ LET n == Take(data_size - got)
     IN  /\ read' = [read EXCEPT ![cur] = @ + n]
         /\ got' = got + n
         /\ pc' = IF got + n = data_size THEN "deliver" ELSE "rest"
  /\ UNCHANGED <<scene, peer, arrived, conn, seen, poll_loop, errno,
                 buffer_size, cur, at, data_size>>

RecvPayload == pc = "payload" /\ data_size > 0 /\ RecvSome

\* poll(-1) on this one socket has reported more bytes.
RecvRest == pc = "rest" /\ RecvSome

\* A signal, that of a stop for one, ends the poll(-1).  The server logs it.
RestInterrupted ==
  /\ pc = "rest"
  /\ scene.faults \/ ~poll_loop
  /\ \E e \in IF scene.side = "server" THEN Logged("other") ELSE {"other"} :    \* EINTR
       ReturnsError(e)
  /\ UNCHANGED <<scene, peer, arrived, read, seen, poll_loop, buffer_size, cur>>

\* The int the server returns for a message of n bytes; the client returns 1.
AsInt(n) == ((n + IntLimit) % (2 * IntLimit)) - IntLimit
Returned(n) == IF scene.side = "client" THEN 1 ELSE AsInt(n)

\* receive_tcp_callback, which leaves any errno, and the loop's next turn.
Deliver ==
  /\ pc = "deliver"
  /\ seen' = [seen EXCEPT ![cur] = Append(@, [at |-> at, len |-> data_size])]
  /\ \E e \in Errnos :
       \/ /\ Returned(data_size) > 0 /\ poll_loop
          /\ errno' = e
          /\ pc' = "size"
          /\ UNCHANGED <<conn, call>>
       \/ /\ Returned(data_size) > 0 /\ ~poll_loop
          /\ errno' = e
          /\ Back
          /\ UNCHANGED <<conn, cur>>
       \/ /\ Returned(data_size) < 0
          /\ ReturnsError(e)
          /\ UNCHANGED cur
  /\ UNCHANGED <<scene, peer, arrived, read, poll_loop, buffer_size>>
-----------------------------------------------------------------------------
Thread ==
  \/ \E p \in Peers : Serve(p)
  \/ RecvFindsNothing \/ RecvFindsClose \/ RecvFindsReset
  \/ RecvShortSize \/ RecvSize \/ MallocFails
  \/ RecvEmptyPayload \/ RecvPayload \/ RecvRest \/ RestInterrupted \/ Deliver

Next ==
  \/ \E p \in Peers : PeerSends(p) \/ PeerEnds(p) \/ Arrives(p) \/ Serve(p)
  \/ RecvFindsNothing \/ RecvFindsClose \/ RecvFindsReset
  \/ RecvShortSize \/ RecvSize \/ MallocFails
  \/ RecvEmptyPayload \/ RecvPayload \/ RecvRest \/ RestInterrupted \/ Deliver
  \/ StopCalled

\* The poll thread is scheduled, and TCP delivers what a peer wrote.  No peer
\* has to send, and none has to end.
Fairness ==
  /\ WF_vars(Thread)
  /\ \A p \in Peers : WF_vars(Arrives(p))

Spec == Init /\ [][Next]_vars /\ Fairness
-----------------------------------------------------------------------------
\* Correctness.

Message == [at : Nat, len : Sizes]

\* Every variable has its type, recv() never returns bytes that did not
\* arrive, and the payload under way fits the buffer.
TypeOK ==
  /\ scene \in Scenes
  /\ msgs \in [Peers -> Seq(Message)]
  /\ ended \in [Peers -> {"no", "fin", "rst"}]
  /\ arrived \in [Peers -> Nat]
  /\ read \in [Peers -> Nat]
  /\ \A p \in Peers : read[p] <= arrived[p] /\ arrived[p] <= Written(p)
  /\ conn \in [Peers -> BOOLEAN]
  /\ seen \in [Peers -> Seq(Message)]
  /\ poll_loop \in BOOLEAN
  /\ errno \in Errnos
  /\ buffer_size \in Nat
  /\ pc \in {"poll", "size", "payload", "rest", "deliver"}
  /\ cur \in Peers
  /\ at \in Nat /\ data_size \in Sizes \cup {0} /\ got \in 0..data_size
  /\ pc \in {"payload", "rest", "deliver"} => data_size \in Sizes /\ data_size <= buffer_size
  /\ pc = "deliver" => got = data_size

\* No piece of the stream ends in or just behind a length, and no log_callback
\* turns the errno of a failed malloc or of a signal into EWOULDBLOCK.
Whole == scene.cuts = "payload" /\ ~(scene.faults /\ scene.logs)

\* receive_tcp_callback is called in stream order, for disjoint pieces of the
\* stream, never after disconnect(); and with messages as they were sent,
\* none but empty ones left out, if the stream is whole.
Promise == INSTANCE Delivery WITH whole <- Whole,
                                  msgs <- msgs, seen <- seen, open <- conn,
                                  Peers <- Peers, HDR <- HDR, Sizes <- Sizes
ImplementsDelivery == Promise!Spec

\* Without faults, and if no piece ends in or just behind a length, a connection
\* is dropped only if its peer closed it or it broke, or if a stop interrupted the
\* rest of a message.  The errno that callbacks leave behind, a log_callback
\* among them, does not matter.
KeptWhilePeerStays ==
  scene.cuts = "payload" /\ ~scene.faults /\ poll_loop =>
    \A p \in Peers : conn[p] \/ ended[p] # "no"

\* In a whole stream every message that is not empty is delivered in the end,
\* unless the connection is dropped or the thread told to stop; also when the
\* thread has to wait for another peer in the middle of a message.
EventuallyDelivered ==
  \A p \in Peers : \A k \in 1..MaxMessages[p] :
    Whole /\ k \in DOMAIN msgs[p] ~>
      \/ k \in DOMAIN msgs[p] /\ (msgs[p][k].len = 0 \/ msgs[p][k] \in Range(seen[p]))
      \/ ~conn[p] \/ ~poll_loop

\* What is delivered is always a message as it was sent.
WholeMessages == \A p \in Peers : Range(seen[p]) \subseteq Range(msgs[p])
=============================================================================
