----------------------------- MODULE UdpReceive -----------------------------
(***************************************************************************)
(* receive_udp of the server (with udtcp_get_infos) and of the client, and *)
(* the loops around it in udtcp_server_poll and udtcp_client_poll.  The    *)
(* size of a datagram is read with MSG_PEEK, then the datagram is taken    *)
(* off the queue.  The network loses, duplicates and reorders datagrams;   *)
(* clients join and leave the server's table meanwhile.                    *)
(*                                                                         *)
(* One call of receive_udp is one action: between its two recvfrom() calls *)
(* nobody else reads the socket, so both see the head of the queue.        *)
(***************************************************************************)
EXTENDS Integers, Sequences, SequencesExt

CONSTANTS
  Hosts, Ports,     \* a client's address is a host and a port
  Strangers,        \* addresses of programs that are no clients
  Scenes,           \* the circumstances of an execution: a set of Scene records
  MAX_CONNECTION,   \* UDTCP_MAX_CONNECTION
  MaxId,            \* bound on the clients that ever join
  MaxDatagrams      \* bound on the datagrams that are sent

\* Whose receive_udp this is; whether a client may have the address of one that
\* left; what senders send; whether malloc fails; whether the build logs and a
\* log_callback is set.
Scene == [side : {"server", "client"}, reuse : BOOLEAN,
          kinds : SUBSET {"good", "nil", "empty", "short", "over", "under"},
          faults : BOOLEAN, logs : BOOLEAN]

ASSUME UdpReceiveAssumption ==
  /\ Scenes \subseteq Scene
  /\ Strangers \cap (Hosts \X Ports) = {}
  /\ MAX_CONNECTION \in Nat \ {0}
  /\ MaxId \in Nat /\ MaxDatagrams \in Nat

Addresses == (Hosts \X Ports) \cup Strangers

VARIABLES
  scene,      \* the circumstances of this execution
  infos,      \* the live cells of the table: ids and udp_client_addr
  used,       \* the address every client had, by id
  sent,       \* number of datagrams sent
  wire,       \* datagrams under way
  queue,      \* the socket's receive queue
  heard,      \* calls of receive_udp_callback: datagram and client id
  conn,       \* the client's TCP connection is not disconnected
  errno,
  poll_loop,
  pc          \* "poll", or "udp": in the loop around receive_udp

table == <<infos, used>>
network == <<sent, wire>>
vars == <<scene, table, network, queue, heard, conn, errno, poll_loop, pc>>

\* Only this one value of errno is told from the others.
Errnos == {"EWOULDBLOCK", "other"}

Init ==
  /\ scene \in Scenes
  /\ infos = <<>> /\ used = <<>>
  /\ sent = 0 /\ wire = {}
  /\ queue = <<>> /\ heard = <<>>
  /\ conn = TRUE
  /\ errno \in Errnos
  /\ poll_loop = TRUE
  /\ pc = "poll"
-----------------------------------------------------------------------------
\* Clients and the network.

HasRoomMutant == Len(infos) <= MAX_CONNECTION
HasRoom == Len(infos) < MAX_CONNECTION

\* accept_client puts a client with UDP address a into the next cell.
Joins(a) ==
  /\ scene.side = "server"
  /\ pc = "poll" /\ poll_loop
  /\ HasRoom /\ Len(used) < MaxId
  /\ scene.reuse \/ a \notin Range(used)
  /\ infos' = Append(infos, [id |-> Len(used) + 1, addr |-> a])
  /\ used' = Append(used, a)
  /\ UNCHANGED <<scene, network, queue, heard, conn, errno, poll_loop, pc>>

\* disconnect() and the compaction, in the poll thread.
Leaves(k) ==
  /\ pc = "poll"
  /\ infos' = RemoveAt(infos, k)
  /\ UNCHANGED <<scene, used, network, queue, heard, conn, errno, poll_loop, pc>>

\* The sender of a datagram: a client that is or was connected, or (id 0) a
\* program that is none.
Senders ==
  {[id |-> i, addr |-> used[i]] : i \in DOMAIN used} \cup
  {[id |-> 0, addr |-> a] : a \in Strangers}

\* The datagram of a sender: the size it claims is right ("nil": right and 0),
\* more or less than it has; or it is too short to claim one, or empty.
\* A lost one never arrives; a copy the network makes is one more of them.
Sends(s, kind) ==
  /\ sent < MaxDatagrams
  /\ sent' = sent + 1
  /\ wire' = wire \cup {[n |-> sent', from |-> s, kind |-> kind]}
  /\ UNCHANGED <<scene, table, queue, heard, conn, errno, poll_loop, pc>>

Arrives(d) ==
  /\ wire' = wire \ {d}
  /\ queue' = Append(queue, d)
  /\ UNCHANGED <<scene, table, sent, heard, conn, errno, poll_loop, pc>>
-----------------------------------------------------------------------------
\* The poll thread.

\* udtcp_stop_server, udtcp_stop_client.
StopCalled ==
  /\ poll_loop
  /\ poll_loop' = FALSE
  /\ UNCHANGED <<scene, table, network, queue, heard, conn, errno, pc>>

\* The scan reaches the UDP socket, which poll() reported.
Serve ==
  /\ pc = "poll" /\ poll_loop /\ conn
  /\ queue # <<>>
  /\ pc' = "udp"
  /\ UNCHANGED <<scene, table, network, queue, heard, conn, errno, poll_loop>>

\* What errno may be behind UDTCP_LOG_ERROR: a log_callback leaves any.
Logged(e) == IF scene.logs THEN Errnos ELSE {e}

\* receive_udp returned -1 with one of these errnos: the server goes on with its
\* scan; the client logs, and keeps its connection if errno is EWOULDBLOCK then.
ReturnsErrorDropped(errnos) ==
  /\ errno' \in errnos
  /\ conn' = (scene.side = "server")
  /\ pc' = "poll"
ReturnsError(errnos) ==
  /\ errno' \in IF scene.side = "client" THEN UNION {Logged(e) : e \in errnos} ELSE errnos
  /\ conn' = (conn /\ (scene.side = "server" \/ errno' = "EWOULDBLOCK"))
  /\ pc' = "poll"

UdpNone ==
  /\ pc = "udp" /\ queue = <<>>
  /\ ReturnsError({"EWOULDBLOCK"})
  /\ UNCHANGED <<scene, table, network, queue, heard, poll_loop>>

\* An empty datagram looks like a close: nothing is consumed, and the client
\* disconnects (with a callback).
UdpEmpty ==
  /\ pc = "udp" /\ queue # <<>> /\ Head(queue).kind = "empty"
  /\ conn' = (conn /\ scene.side = "server")
  /\ errno' \in IF scene.side = "client" THEN Errnos ELSE {errno}
  /\ pc' = "poll"
  /\ UNCHANGED <<scene, table, network, queue, heard, poll_loop>>

\* Fewer than four bytes: nothing is consumed, and errno is an older one.
UdpShort ==
  /\ pc = "udp" /\ queue # <<>> /\ Head(queue).kind = "short"
  /\ ReturnsError(Logged(errno))
  /\ UNCHANGED <<scene, table, network, queue, heard, poll_loop>>

\* udtcp_new_buffer fails for the size that was peeked: nothing is consumed.
UdpMallocFails ==
  /\ pc = "udp" /\ queue # <<>> /\ Head(queue).kind \notin {"empty", "short"}
  /\ scene.faults
  /\ ReturnsError(Logged("other"))    \* ENOMEM
  /\ UNCHANGED <<scene, table, network, queue, heard, poll_loop>>

\* The second recvfrom() takes the datagram off the queue.
Unconsumed == queue
Consumed == Tail(queue)

\* It holds less than it claims: it is dropped.
UdpWrongSizePeeked ==
  /\ pc = "udp" /\ queue # <<>> /\ Head(queue).kind = "over"
  /\ ReturnsError(Logged(errno))
  /\ UNCHANGED <<scene, table, network, queue, heard, poll_loop>>
UdpWrongSize ==
  /\ pc = "udp" /\ queue # <<>> /\ Head(queue).kind = "over"
  /\ queue' = Consumed
  /\ ReturnsError(Logged(errno))
  /\ UNCHANGED <<scene, table, network, heard, poll_loop>>

\* udtcp_get_infos: the first client whose address is the sender's.
SameHost(a, b) == a[1] = b[1]
SameAddress(a, b) == a = b
Cells(a) == {k \in DOMAIN infos : SameAddress(infos[k].addr, a)}
GetInfos(a) == infos[CHOOSE k \in Cells(a) : \A l \in Cells(a) : k <= l].id

\* The size is right, or less than what the datagram holds: recvfrom() has
\* cut off the rest.
Sized == pc = "udp" /\ queue # <<>> /\ Head(queue).kind \in {"good", "nil", "under"}

\* The server drops what comes from nobody in its table.
UdpUnknown ==
  /\ Sized /\ scene.side = "server"
  /\ Cells(Head(queue).from.addr) = {}
  /\ queue' = Consumed
  /\ ReturnsError(Logged(errno))
  /\ UNCHANGED <<scene, table, network, heard, poll_loop>>

\* receive_udp_callback, which leaves any errno.  The client does not look at
\* the sender (its server has id 0).  The loop goes on unless the server
\* returned the size of an empty payload.
UdpDelivers ==
  /\ Sized
  /\ LET d == Head(queue)
     IN  /\ scene.side = "server" => Cells(d.from.addr) # {}
         /\ heard' = Append(heard, [d |-> d,
                       to |-> IF scene.side = "client" THEN 0 ELSE GetInfos(d.from.addr)])
         /\ pc' = IF poll_loop /\ (d.kind = "nil" => scene.side = "client")
                    THEN "udp" ELSE "poll"
  /\ queue' = Consumed
  /\ errno' \in Errnos
  /\ UNCHANGED <<scene, table, network, conn, poll_loop>>
-----------------------------------------------------------------------------
Thread ==
  \/ Serve \/ UdpNone \/ UdpEmpty \/ UdpShort \/ UdpMallocFails \/ UdpWrongSize
  \/ UdpUnknown \/ UdpDelivers

Next ==
  \/ \E a \in Hosts \X Ports : Joins(a)
  \/ \E k \in DOMAIN infos : Leaves(k)
  \/ \E s \in Senders, kind \in scene.kinds : Sends(s, kind)
  \/ \E d \in wire : Arrives(d)
  \/ StopCalled
  \/ Serve \/ UdpNone \/ UdpEmpty \/ UdpShort \/ UdpMallocFails \/ UdpWrongSize
  \/ UdpUnknown \/ UdpDelivers

\* The poll thread is scheduled.  The network owes nothing.
Spec == Init /\ [][Next]_vars /\ WF_vars(Thread)
-----------------------------------------------------------------------------
\* Correctness.

Sender == [id : 0..MaxId, addr : Addresses]
Datagram == [n : 1..MaxDatagrams, from : Sender,
             kind : {"good", "nil", "empty", "short", "over", "under"}]

\* Every variable has its type, and what was heard was in the queue.
TypeOK ==
  /\ scene \in Scene
  /\ infos \in Seq([id : 1..MaxId, addr : Addresses]) /\ Len(infos) <= MAX_CONNECTION
  /\ used \in Seq(Addresses) /\ Len(used) <= MaxId
  /\ sent \in 0..MaxDatagrams
  /\ wire \subseteq Datagram
  /\ queue \in Seq(Datagram)
  /\ heard \in Seq([d : Datagram, to : 0..MaxId])
  /\ conn \in BOOLEAN
  /\ errno \in Errnos
  /\ poll_loop \in BOOLEAN
  /\ pc \in {"poll", "udp"}

\* Unless an address is used again, the server attributes every datagram to
\* the client that sent it, and gives nobody else's to a client: clients on
\* one host, clients that left and late or repeated datagrams included.
AttributedToSender ==
  scene.side = "server" /\ ~scene.reuse =>
    \A k \in DOMAIN heard : heard[k].to = heard[k].d.from.id

\* No datagram that arrived once is given to the application twice, and none that is
\* too short for its size.
HeardOnce ==
  /\ \A j, k \in DOMAIN heard : heard[j].d = heard[k].d => j = k
  /\ \A k \in DOMAIN heard : heard[k].d.kind \in {"good", "nil", "under"}

\* Datagrams as udtcp_send_udp makes them never cost the client its TCP
\* connection, whoever sends them and whatever errno the receive callbacks
\* leave, as long as no log_callback is set.  With one it does not hold of the
\* code: udtcp_client_poll logs between the recvfrom() that found nothing and its
\* test of errno (client_poll.c:342-344), and a log_callback that leaves another
\* errno costs it the connection.
DatagramsKeepConnection ==
  scene.kinds \subseteq {"good", "nil"} /\ ~scene.faults /\ ~scene.logs => conn

Whole == {"good", "nil", "over", "under"}

\* While every datagram has at least a size, each one that arrives is read in
\* the end, delivered or dropped: the thread never spins on the head of the
\* queue.
QueuedIsRead ==
  \A n \in 1..MaxDatagrams :
    LET Queued == \E k \in DOMAIN queue : queue[k].n = n
    IN  Queued /\ scene.kinds \subseteq Whole /\ ~scene.faults ~>
          ~Queued \/ ~poll_loop \/ ~conn
=============================================================================
