----------------------------- MODULE ServerPoll -----------------------------
(***************************************************************************)
(* The connection table of a udtcp server: udtcp_server_poll with          *)
(* accept_client, disconnect and the compaction of the table               *)
(* (server_poll.c), the start and stop flags of its thread                 *)
(* (server_start_stop.c) and udtcp_delete_server (delete_server.c).        *)
(*                                                                         *)
(* The poll thread is the process; the application only clears poll_loop   *)
(* while it runs.  What the peers do appears as the outcome of poll(),     *)
(* accept_client() and receive_tcp(), each chosen from all it can return.  *)
(***************************************************************************)
EXTENDS Integers

CONSTANTS
  MAX_CONNECTION,    \* UDTCP_MAX_CONNECTION
  TcpSocket,         \* server_infos->tcp_socket, the listening socket
  UdpServerSocket,   \* server_infos->udp_server_socket
  UdpClientSocket,   \* server_infos->udp_client_socket
  Fds,               \* descriptor numbers accept() may return
  PeerFds,           \* values a failed exchange leaves in infos[].tcp_socket
                     \* ({}: no peer writes past its udtcp_infos)
  MemcpyAscending,   \* the C library's memcpy copies in ascending order
  MaxId              \* bound on count_id

OwnSockets == {TcpSocket, UdpServerSocket, UdpClientSocket}

ASSUME ConstantsAssumption ==
  /\ MAX_CONNECTION \in Nat \ {0}
  /\ MaxId \in Nat
  /\ Fds \subseteq Nat
  /\ PeerFds \subseteq Nat
  /\ OwnSockets \subseteq Nat
  /\ TcpSocket # UdpServerSocket
  /\ OwnSockets \cap Fds = {}
  /\ MemcpyAscending \in BOOLEAN

TABLE_SIZE == 2 + MAX_CONNECTION      \* UDTCP_POLL_TABLE_SIZE

\* An array is a function over Cells: index TABLE_SIZE stands for the bytes
\* that follow the array, which the compaction reads and nothing may write.
Cells == 0..TABLE_SIZE

NoFd == -1

Ids == 1..MaxId

VARIABLES
  poll_fds,          \* [fd, pollin] per cell; pollin: revents & POLLIN
  infos,             \* [id, tcp_socket, send] per cell; send is an index of sends[]
  poll_nfds,         \* number of cells in use
  count_id,          \* id of the next client
  poll_loop,         \* the poll thread may go on
  i,                 \* the loop index of udtcp_server_poll (0 outside of it)
  organise_array,    \* a client was removed in this round (FALSE outside)
  pc,                \* where the poll thread is
  open,              \* descriptors the server holds in the kernel
  session            \* what the callbacks have told the application of each id

vars == <<poll_fds, infos, poll_nfds, count_id, poll_loop, i, organise_array,
          pc, open, session>>

table == <<poll_fds, infos, poll_nfds, count_id, open, session>>
-----------------------------------------------------------------------------
\* The application's view of the callbacks of one id: announced once, then
\* withdrawn at most once; any other call leaves the session "broken".
OnConnect(s)    == IF s = "none" THEN "connected" ELSE "broken"
OnDisconnect(s) == IF s = "connected" THEN "closed" ELSE "broken"

Init ==
  /\ poll_fds = [j \in Cells |->
       [fd |-> IF j = 0 THEN TcpSocket ELSE IF j = 1 THEN UdpServerSocket ELSE 0,
        pollin |-> FALSE]]
  /\ infos = [j \in Cells |->
       [id |-> 0, tcp_socket |-> IF j = 0 THEN TcpSocket ELSE 0, send |-> 0]]
  /\ poll_nfds = 2
  /\ count_id = 1
  /\ poll_loop = FALSE
  /\ i = 0
  /\ organise_array = FALSE
  /\ pc = "stopped"
  /\ open = OwnSockets
  /\ session = [k \in Ids |-> "none"]
-----------------------------------------------------------------------------
\* The poll thread and its flag.

udtcp_start_server ==
  /\ pc = "stopped"
  /\ ~poll_loop
  /\ poll_loop' = TRUE
  /\ pc' = "loop"
  /\ UNCHANGED <<table, i, organise_array>>

\* The join that follows in the code ends when the thread is "stopped".
udtcp_stop_server ==
  /\ poll_loop
  /\ pc # "deleted"
  /\ poll_loop' = FALSE
  /\ UNCHANGED <<table, i, organise_array, pc>>

\* The loop of thread_server_poll calls udtcp_server_poll while poll_loop is set.
LoopGoesOn ==
  /\ pc = "loop"
  /\ poll_loop
  /\ pc' = "poll"
  /\ UNCHANGED <<table, poll_loop, i, organise_array>>

\* It ends when poll_loop was cleared, or when poll() failed or was
\* interrupted, in which case poll_loop may well be set still.
ThreadEnds ==
  /\ \/ pc = "loop" /\ ~poll_loop
     \/ pc = "poll"
  /\ pc' = "stopped"
  /\ UNCHANGED <<table, poll_loop, i, organise_array>>
-----------------------------------------------------------------------------
\* udtcp_server_poll.

\* poll() reports revents for the cells in use and for no other: a free cell
\* keeps what an earlier client left there.  A closed descriptor is POLLNVAL.
PollReady ==
  /\ pc = "poll"
  /\ \E readable \in SUBSET {j \in 0..(poll_nfds - 1) : poll_fds[j].fd \in open} :
       poll_fds' = [j \in Cells |->
         IF j < poll_nfds THEN [poll_fds[j] EXCEPT !.pollin = (j \in readable)]
                          ELSE poll_fds[j]]
  /\ pc' = "scan"
  /\ UNCHANGED <<infos, poll_nfds, count_id, poll_loop, i, organise_array, open, session>>

PollTimeout ==
  /\ pc = "poll"
  /\ pc' = "loop"
  /\ UNCHANGED <<table, poll_loop, i, organise_array>>

Scanning == pc = "scan" /\ poll_loop /\ i < poll_nfds

\* Nothing to read on this cell, or an event other than POLLIN (only logged);
\* receive_udp handles datagrams and leaves the table alone.
ScanSkip ==
  /\ Scanning
  /\ \/ ~poll_fds[i].pollin
     \/ poll_fds[i].fd = UdpServerSocket
  /\ i' = i + 1
  /\ UNCHANGED <<table, poll_loop, organise_array, pc>>

ScanReadable ==
  /\ Scanning
  /\ poll_fds[i].pollin
  /\ poll_fds[i].fd # UdpServerSocket
  /\ pc' = IF poll_fds[i].fd = TcpSocket THEN "accept" ELSE "receive"
  /\ UNCHANGED <<table, poll_loop, i, organise_array>>

\* The for loop ends: every cell was visited, or poll_loop was cleared.
ScanDone ==
  /\ pc = "scan"
  /\ ~(poll_loop /\ i < poll_nfds)
  /\ IF organise_array THEN pc' = "compact" /\ i' = 2
                       ELSE pc' = "loop" /\ i' = 0
  /\ UNCHANGED <<table, poll_loop, organise_array>>

\* The inner while loop ends and the scan goes on with the next cell.
ScanNext == pc' = "scan" /\ i' = i + 1
-----------------------------------------------------------------------------
\* accept_client.

HasRoomMutant == poll_nfds <= TABLE_SIZE
HasRoom == poll_nfds < TABLE_SIZE

\* The table is full (the connection is accepted, told '\0' and closed), or
\* accept() has no connection: the slot keeps the -1.
AcceptNone ==
  /\ pc = "accept"
  /\ infos' = IF HasRoom THEN [infos EXCEPT ![poll_nfds].tcp_socket = NoFd]
                         ELSE infos
  /\ ScanNext
  /\ UNCHANGED <<poll_fds, poll_nfds, count_id, poll_loop, organise_array,
                 open, session>>

\* The socket cannot be made non-blocking or initialize_connection fails with
\* tcp_socket intact: the accepted socket is closed again.
AcceptRefused ==
  /\ pc = "accept" /\ HasRoom /\ TcpSocket \in open
  /\ \E fd \in Fds \ open :
       infos' = [infos EXCEPT ![poll_nfds].tcp_socket = fd]
  /\ ScanNext
  /\ UNCHANGED <<poll_fds, poll_nfds, count_id, poll_loop, organise_array,
                 open, session>>

\* initialize_connection read the peer's bytes over the slot and found their
\* number wrong: tcp_socket is the peer's, and that is what gets closed.
AcceptOverrun ==
  /\ pc = "accept" /\ HasRoom /\ TcpSocket \in open
  /\ \E fd \in Fds \ open, p \in PeerFds :
       /\ infos' = [infos EXCEPT ![poll_nfds].tcp_socket = p]
       /\ open' = (open \cup {fd}) \ {p}
  /\ ScanNext
  /\ UNCHANGED <<poll_fds, poll_nfds, count_id, poll_loop, organise_array, session>>

\* The send structure assigned to the client of cell poll_nfds.
SendSlotFromZero == poll_nfds - 2
SendSlot == poll_nfds

NextIdForgotten == count_id
NextId == count_id + 1

\* The handshake succeeds: the slot is filled, connect_callback is called,
\* and the while loop tries the next connection.
AcceptOk ==
  /\ pc = "accept" /\ HasRoom /\ TcpSocket \in open /\ count_id <= MaxId
  /\ \E fd \in Fds \ open :
       /\ infos' = [infos EXCEPT ![poll_nfds] =
            [id |-> count_id, tcp_socket |-> fd, send |-> SendSlot]]
       /\ poll_fds' = [poll_fds EXCEPT ![poll_nfds].fd = fd]
       /\ open' = open \cup {fd}
  /\ session' = [session EXCEPT ![count_id] = OnConnect(@)]
  /\ poll_nfds' = poll_nfds + 1
  /\ count_id' = NextId
  /\ IF poll_loop THEN UNCHANGED <<pc, i>> ELSE ScanNext
  /\ UNCHANGED <<poll_loop, organise_array>>
-----------------------------------------------------------------------------
\* receive_tcp on the client of cell i.

\* Messages were delivered until recv() would block or poll_loop was cleared.
ReceiveKeeps ==
  /\ pc = "receive"
  /\ ScanNext
  /\ UNCHANGED <<table, poll_loop, organise_array>>

ClosedForgotten(j) == {}
Closed(j) == {infos[j].tcp_socket}

\* The peer closed, or the socket failed: disconnect(), and the cell becomes
\* a hole until the compaction.
ReceiveLost ==
  /\ pc = "receive"
  /\ open' = open \ Closed(i)
  /\ session' = [session EXCEPT ![infos[i].id] = OnDisconnect(@)]
  /\ poll_fds' = [poll_fds EXCEPT ![i].fd = NoFd]
  /\ organise_array' = TRUE
  /\ ScanNext
  /\ UNCHANGED <<infos, poll_nfds, count_id, poll_loop>>
-----------------------------------------------------------------------------
\* The compaction.

\* memcpy(a + k, a + k + 1, (n - k) elements): it writes k..n-1 and reads
\* k+1..n, one element more than the table holds.  The regions overlap: a copy
\* in ascending order moves every element down, one in descending order has
\* overwritten each source before it reads it.
Shift(a, k, n) ==
  [j \in Cells |-> IF k <= j /\ j < n
                   THEN IF MemcpyAscending THEN a[j + 1] ELSE a[n]
                   ELSE a[j]]

ShiftInfosForgotten(k) == infos
ShiftInfos(k) == Shift(infos, k, poll_nfds)

\* --i before the loop's ++i: the cell moved into the hole is looked at too.
AfterHoleSkips == i + 1
AfterHole == i

\* Cell i is a hole: the cells after it move down over it.
CompactStep ==
  /\ pc = "compact"
  /\ i < poll_nfds
  /\ poll_fds[i].fd = NoFd
  /\ IF i < poll_nfds - 1
     THEN /\ poll_fds' = Shift(poll_fds, i, poll_nfds)
          /\ infos' = ShiftInfos(i)
     ELSE UNCHANGED <<poll_fds, infos>>
  /\ poll_nfds' = poll_nfds - 1
  /\ i' = AfterHole
  /\ UNCHANGED <<count_id, poll_loop, organise_array, pc, open, session>>

CompactSkip ==
  /\ pc = "compact"
  /\ i < poll_nfds
  /\ poll_fds[i].fd # NoFd
  /\ i' = i + 1
  /\ UNCHANGED <<table, poll_loop, organise_array, pc>>

CompactDone ==
  /\ pc = "compact"
  /\ i >= poll_nfds
  /\ pc' = "loop"
  /\ i' = 0
  /\ organise_array' = FALSE
  /\ UNCHANGED <<table, poll_loop>>
-----------------------------------------------------------------------------
\* udtcp_delete_server, called once the thread is gone.

Slots == 2..(poll_nfds - 1)
Live  == {j \in Slots : poll_fds[j].fd # NoFd}

\* One disconnect_callback per live cell.
SessionsAfterDeleteButFirst ==
  [k \in Ids |-> IF \E j \in Live \ {2} : infos[j].id = k
                 THEN OnDisconnect(session[k]) ELSE session[k]]
SessionsAfterDelete ==
  [k \in Ids |->
     LET cells == {j \in Live : infos[j].id = k}
     IN  IF cells = {} THEN session[k]
         ELSE IF \E j \in cells : cells = {j} THEN OnDisconnect(session[k])
         ELSE "broken"]

ClosedOnDeleteButUdp == {TcpSocket, UdpServerSocket} \cup {poll_fds[j].fd : j \in Live}
ClosedOnDelete == OwnSockets \cup {poll_fds[j].fd : j \in Live}

udtcp_delete_server ==
  /\ pc = "stopped"
  /\ open' = open \ ClosedOnDelete
  /\ session' = SessionsAfterDelete
  /\ pc' = "deleted"
  /\ UNCHANGED <<poll_fds, infos, poll_nfds, count_id, poll_loop, i, organise_array>>
-----------------------------------------------------------------------------
Next ==
  \/ udtcp_start_server
  \/ udtcp_stop_server
  \/ LoopGoesOn
  \/ ThreadEnds
  \/ PollReady
  \/ PollTimeout
  \/ ScanSkip
  \/ ScanReadable
  \/ ScanDone
  \/ AcceptNone
  \/ AcceptRefused
  \/ AcceptOverrun
  \/ AcceptOk
  \/ ReceiveKeeps
  \/ ReceiveLost
  \/ CompactStep
  \/ CompactSkip
  \/ CompactDone
  \/ udtcp_delete_server

Spec == Init /\ [][Next]_vars
-----------------------------------------------------------------------------
\* Correctness.

Infos   == [id : Nat, tcp_socket : Nat \cup {NoFd}, send : 0..TABLE_SIZE]
PollFds == [fd : Nat \cup {NoFd}, pollin : BOOLEAN]

\* Every variable has its type; in particular poll_nfds stays inside the
\* arrays of UDTCP_POLL_TABLE_SIZE elements.
TypeOK ==
  /\ poll_fds \in [Cells -> PollFds]
  /\ infos \in [Cells -> Infos]
  /\ poll_nfds \in 2..TABLE_SIZE
  /\ count_id \in 1..(MaxId + 1)
  /\ poll_loop \in BOOLEAN
  /\ i \in 0..TABLE_SIZE
  /\ organise_array \in BOOLEAN
  /\ pc \in {"stopped", "loop", "poll", "scan", "accept", "receive", "compact", "deleted"}
  /\ open \subseteq OwnSockets \cup Fds
  /\ session \in [Ids -> {"none", "connected", "closed", "broken"}]

\* The two parallel arrays never drift apart: a cell of poll_fds[] that is not
\* a hole polls the socket of the same cell of infos[].  delete_server closes
\* the one and reports the other, receive_tcp reads the other.
SlotsAligned ==
  \A j \in Live : poll_fds[j].fd = infos[j].tcp_socket

\* Between two calls of udtcp_server_poll no cell is a hole, however many
\* clients left in one round, adjacent or not, and even when a stop cut the
\* scan short.
NoHoleAtRest ==
  pc \in {"stopped", "loop", "poll", "deleted"} => Live = Slots

\* The table holds each connected client once: a live cell is a client whose
\* connect_callback was called and disconnect_callback was not, every such
\* client has a cell, no two cells have the same id, and no session is broken.
SlotsAreSessions ==
  pc # "deleted" =>
    /\ \A j \in Live : infos[j].id \in Ids /\ session[infos[j].id] = "connected"
    /\ \A k \in Ids : session[k] = "connected" => \E j \in Live : infos[j].id = k
    /\ \A j, k \in Slots : j < k => infos[j].id < infos[k].id
    /\ \A k \in Ids : session[k] # "broken"

\* A live client's send structure is one whose mutex create_server
\* initialised (index 2 and up) and never one of a lower cell: compaction
\* moves the client down and leaves its send pointer.
SendSlotsInitialised ==
  \A j \in Live : infos[j].send \in j..(TABLE_SIZE - 1)

\* While no peer overruns the exchange, the kernel holds exactly the server's
\* own sockets and one socket per live cell: no accept, refusal or disconnect
\* leaks a descriptor or closes one twice.
NoDescriptorLeak ==
  pc # "deleted" =>
    /\ open = OwnSockets \cup {infos[j].tcp_socket : j \in Live}
    /\ \A j, k \in Live : infos[j].tcp_socket = infos[k].tcp_socket => j = k

\* udtcp.h, udtcp_delete_server: "close all sockets, delete server".
AllClosedOnDelete ==
  pc = "deleted" => open = {}

\* Every id announced to the application has been withdrawn when the server
\* is gone: connect_callback and disconnect_callback come in pairs.
CallbacksPairedOnDelete ==
  pc = "deleted" => \A k \in Ids : session[k] \in {"none", "closed"}

\* The inductive invariant of the proofs: where holes may be, and what the
\* control state knows of i, strengthen the properties above.
FixedCells ==
  /\ poll_fds[0].fd = TcpSocket
  /\ poll_fds[1].fd = UdpServerSocket
  /\ \A j \in Live : poll_fds[j].fd \in Fds

Control ==
  /\ pc \in {"stopped", "loop", "poll", "deleted"} => i = 0 /\ ~organise_array
  /\ pc = "scan" => i <= poll_nfds
  /\ pc = "accept" => i = 0
  /\ pc = "receive" => i \in Slots
  /\ pc = "compact" => i \in 2..poll_nfds

HolesWhere ==
  \A j \in Slots : poll_fds[j].fd = NoFd =>
    \/ pc \in {"scan", "receive"} /\ organise_array /\ j < i
    \/ pc = "compact" /\ i <= j

IdsOrdered ==
  /\ \A j \in Slots : infos[j].id \in 1..(count_id - 1)
  /\ \A j, k \in Slots : j < k => infos[j].id < infos[k].id
  /\ \A k \in Ids : session[k] = "none" <=> k >= count_id

TableInv ==
  /\ TypeOK
  /\ FixedCells
  /\ Control
  /\ HolesWhere
  /\ IdsOrdered
  /\ SlotsAligned
  /\ SlotsAreSessions
  /\ SendSlotsInitialised
  /\ CallbacksPairedOnDelete

\* The server implements the callback contract of module Sessions.
Contract == INSTANCE Sessions WITH session <- session,
                                   MAX_CONNECTION <- MAX_CONNECTION,
                                   MaxId <- MaxId
ImplementsSessions == Contract!Spec
=============================================================================
