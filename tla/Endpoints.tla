----------------------------- MODULE Endpoints -----------------------------
(***************************************************************************)
(* What a server or a client takes from the system and gives back: its     *)
(* memory, its mutexes and its descriptors, from udtcp_create_* to         *)
(* udtcp_delete_*, with every step of the creation failing, and for a      *)
(* client with the life of its TCP socket between connections.  The        *)
(* application's calls are those of examples/simple_connection: it         *)
(* connects until that succeeds, polls until polling ends, and connects    *)
(* again.                                                                  *)
(*                                                                         *)
(* A descriptor is a number that refers to an open file or to none; the    *)
(* kernel hands out the lowest free number.  The rest of the process,      *)
(* other endpoints included, opens and closes files of its own ("app").    *)
(***************************************************************************)
EXTENDS Integers, FiniteSets

CONSTANTS
  MaxFd,            \* descriptors are 3..MaxFd
  MaxApp,           \* bound on the files the rest of the process has open
  MAX_CONNECTION    \* UDTCP_MAX_CONNECTION

ASSUME EndpointsAssumption ==
  MaxFd \in Nat /\ MaxApp \in Nat /\ MAX_CONNECTION \in Nat \ {0}

Fds == 3..MaxFd
Mutexes == 2..(MAX_CONNECTION + 1)  \* sends[i].mutex; a client has one
Sockets == {"tcp", "udp_server", "udp_client"}

VARIABLES
  kind,       \* "client" or "server"
  pc,         \* "none", the step of the creation, "ready", "connect", "polling"
  allocated,  \* the structure is allocated
  mutexes,    \* mutexes initialised and not destroyed
  infos,      \* the numbers of its own sockets: client_infos, server_infos
  poll_fd,    \* poll_fds[0].fd
  file,       \* what each descriptor refers to
  told,       \* the last callback was connect_callback
  odd,        \* what happened that the library does not expect:
              \* "replaced" a socket still open by another, another file
              \* "opened" on the number of a closed socket, or "moved"
  stolen      \* a file of the rest of the process was closed

vars == <<kind, pc, allocated, mutexes, infos, poll_fd, file, told, odd, stolen>>

Init ==
  /\ kind = "client" /\ pc = "none" /\ allocated = FALSE /\ mutexes = {}
  /\ infos = [s \in Sockets |-> 0] /\ poll_fd = 0
  /\ file = [d \in Fds |-> "closed"]
  /\ told = FALSE /\ odd = {} /\ stolen = FALSE
-----------------------------------------------------------------------------
Goes(from, to) == pc = from /\ pc' = to

\* d is the number the kernel gives to the next file.
Lowest(d) == file[d] = "closed" /\ \A e \in 3..(d - 1) : file[e] # "closed"

\* close() of the numbers D; one that is not open is an error that is logged.
Closes(D) ==
  /\ file' = [d \in Fds |-> IF d \in D THEN "closed" ELSE file[d]]
  /\ stolen' = (stolen \/ \E d \in D \cap Fds : file[d] = "app")

Frees == allocated' = FALSE /\ pc' = "none"
-----------------------------------------------------------------------------
\* udtcp_create_client and udtcp_create_server.  A name that is not found, or
\* no memory, changes nothing.

New(k) ==
  /\ Goes("none", "mutex")
  /\ kind' = k
  /\ allocated' = TRUE
  /\ mutexes' = {}
  /\ infos' = [s \in Sockets |-> 0] /\ poll_fd' = 0
  /\ told' = FALSE
  /\ UNCHANGED <<file, odd, stolen>>

\* The indices of the mutexes.
WantedMutant == 2..(2 + IF kind = "server" THEN MAX_CONNECTION ELSE 1)
Wanted == 2..(1 + IF kind = "server" THEN MAX_CONNECTION ELSE 1)

InitMutex ==
  /\ pc = "mutex"
  /\ \E i \in Wanted \ mutexes :
       /\ 2..(i - 1) \subseteq mutexes
       /\ mutexes' = mutexes \cup {i}
  /\ UNCHANGED <<kind, pc, allocated, infos, poll_fd, file, told, odd, stolen>>

\* The cleaning loop stops at i > 2.
InitMutexFails ==
  /\ pc = "mutex" /\ mutexes # Wanted
  /\ mutexes' = {i \in mutexes : i <= 2}
  /\ Frees
  /\ UNCHANGED <<kind, infos, poll_fd, file, told, odd, stolen>>

MutexesDone ==
  /\ Goes("mutex", "tcp") /\ mutexes = Wanted
  /\ UNCHANGED <<kind, allocated, mutexes, infos, poll_fd, file, told, odd, stolen>>

AfterSocket(s) ==
  CASE s = "tcp" -> "udp_server" [] s = "udp_server" -> "udp_client" [] OTHER -> "setup"

\* socket(); a server puts its TCP socket in poll_fds[0] at once.
Socket(s) ==
  /\ Goes(s, AfterSocket(s))
  /\ \E d \in Fds :
       /\ Lowest(d)
       /\ file' = [file EXCEPT ![d] = IF s = "tcp" THEN "tcp" ELSE "udp"]
       /\ infos' = [infos EXCEPT ![s] = d]
       /\ poll_fd' = IF s = "tcp" /\ kind = "server" THEN d ELSE poll_fd
  /\ UNCHANGED <<kind, allocated, mutexes, told, odd, stolen>>

\* The sockets closed when socket() fails for s.
MadeBeforeMutant(s) == IF s = "tcp" THEN {} ELSE {"tcp"}
MadeBefore(s) ==
  CASE s = "tcp" -> {} [] s = "udp_server" -> {"tcp"} [] OTHER -> {"tcp", "udp_server"}

SocketFails(s) ==
  /\ pc = s
  /\ Closes({infos[x] : x \in MadeBefore(s)})
  /\ mutexes' = {}
  /\ Frees
  /\ UNCHANGED <<kind, infos, poll_fd, told, odd>>

\* "It's recreate at connection": a client closes its TCP socket at the end,
\* and keeps its number.
ClosedAtEndMutant == IF kind = "client" THEN {"udp_client"} ELSE {}
ClosedAtEnd == IF kind = "client" THEN {"tcp"} ELSE {}

\* Options, bind(), getsockname(), listen(), O_NONBLOCK, poll positions.
Setup ==
  /\ Goes("setup", "ready")
  /\ poll_fd' = infos["tcp"]
  /\ Closes({infos[s] : s \in ClosedAtEnd})
  /\ UNCHANGED <<kind, allocated, mutexes, infos, told, odd>>
-----------------------------------------------------------------------------
\* udtcp_delete_client and udtcp_delete_server (with no clients): every socket
\* that is not -1 is closed, the mutexes are destroyed, the memory is freed.
Delete ==
  /\ Closes({infos[s] : s \in Sockets} \ {-1})
  /\ mutexes' = {}
  /\ Frees

\* One of the calls of the creation's last part fails; no callback is set yet.
SetupFails ==
  /\ pc = "setup"
  /\ Delete
  /\ UNCHANGED <<kind, infos, poll_fd, told, odd>>

\* disconnect_callback is called if the client's TCP socket has a number.
EndsMutant == infos["tcp"] = -1
Ends == infos["tcp"] # -1

udtcp_delete ==
  /\ pc \in {"ready", "polling"}
  /\ Delete
  /\ told' = (told /\ ~Ends)
  /\ UNCHANGED <<kind, infos, poll_fd, odd>>
-----------------------------------------------------------------------------
\* udtcp_connect_client.

\* The number that create_tcp_socket overwrites is still that of its socket.
StillOpen ==
  infos["tcp"] \in Fds /\ file[infos["tcp"]] \in {"tcp", "conn"}

Replaces == odd' = odd \cup (IF StillOpen THEN {"replaced"} ELSE {})

ConnectSocket ==
  /\ kind = "client" /\ Goes("ready", "connect")
  /\ Replaces
  /\ \E d \in Fds :
       /\ Lowest(d)
       /\ file' = [file EXCEPT ![d] = "tcp"]
       /\ infos' = [infos EXCEPT !["tcp"] = d]
  /\ UNCHANGED <<kind, allocated, mutexes, poll_fd, told, stolen>>

\* socket() fails; close(-1) is without effect.
ConnectNoSocket ==
  /\ kind = "client" /\ pc = "ready"
  /\ Replaces
  /\ infos' = [infos EXCEPT !["tcp"] = -1]
  /\ UNCHANGED <<kind, pc, allocated, mutexes, poll_fd, file, told, stolen>>

\* gethostbyname() fails: the new socket stays open.
ConnectLookupFails ==
  /\ Goes("connect", "ready")
  /\ UNCHANGED <<kind, allocated, mutexes, infos, poll_fd, file, told, odd, stolen>>

\* An option, bind(), connect(), the wait or the handshake fails:
\* close_tcp_socket keeps the number.
ConnectFails ==
  /\ Goes("connect", "ready")
  /\ Closes({infos["tcp"]})
  /\ UNCHANGED <<kind, allocated, mutexes, infos, poll_fd, told, odd>>

\* UDTCP_CONNECT_SUCCESS: connect_callback; the application starts to poll.
ConnectSucceeds ==
  /\ Goes("connect", "polling")
  /\ file' = [file EXCEPT ![infos["tcp"]] = "conn"]
  /\ told' = TRUE
  /\ UNCHANGED <<kind, allocated, mutexes, infos, poll_fd, odd, stolen>>
-----------------------------------------------------------------------------
\* udtcp_client_poll, seen from the sockets.

ClosedByDisconnectMutant == {}
ClosedByDisconnect == {infos["tcp"]}

\* disconnect(): the server closed, or a message or a datagram is not valid.
PollDisconnects ==
  /\ Goes("polling", "ready")
  /\ Closes(ClosedByDisconnect)
  /\ infos' = [infos EXCEPT !["tcp"] = -1]
  /\ told' = FALSE
  /\ UNCHANGED <<kind, allocated, mutexes, poll_fd, odd>>

\* A signal, a failure of poll() or a revent without POLLIN ends the polling,
\* not the connection.
PollEnds ==
  /\ Goes("polling", "ready")
  /\ UNCHANGED <<kind, allocated, mutexes, infos, poll_fd, file, told, odd, stolen>>
-----------------------------------------------------------------------------
\* The rest of the process.

AppFiles == {d \in Fds : file[d] = "app"}

\* The client's TCP socket is closed and its number kept.
Stale == infos["tcp"] \in Fds /\ file[infos["tcp"]] = "closed"

Notes(what) == odd' = IF pc = "none" THEN odd ELSE odd \cup {what}

AppOpens ==
  /\ Cardinality(AppFiles) < MaxApp
  /\ \E d \in Fds : Lowest(d) /\ file' = [file EXCEPT ![d] = "app"]
  /\ Notes(IF Stale THEN "opened" ELSE "moved")
  /\ UNCHANGED <<kind, pc, allocated, mutexes, infos, poll_fd, told, stolen>>

AppCloses ==
  /\ \E d \in AppFiles : file' = [file EXCEPT ![d] = "closed"]
  /\ Notes("moved")
  /\ UNCHANGED <<kind, pc, allocated, mutexes, infos, poll_fd, told, stolen>>
-----------------------------------------------------------------------------
Create ==
  \/ New("client") \/ New("server")
  \/ InitMutex \/ InitMutexFails \/ MutexesDone
  \/ \E s \in Sockets : Socket(s) \/ SocketFails(s)
  \/ Setup \/ SetupFails

Connect ==
  \/ ConnectSocket \/ ConnectNoSocket
  \/ ConnectLookupFails \/ ConnectFails \/ ConnectSucceeds

Next ==
  \/ Create \/ Connect
  \/ PollDisconnects \/ PollEnds
  \/ udtcp_delete
  \/ AppOpens \/ AppCloses

Spec == Init /\ [][Next]_vars
-----------------------------------------------------------------------------
\* Correctness.

TypeOK ==
  /\ kind \in {"client", "server"}
  /\ pc \in {"none", "mutex", "setup", "ready", "connect", "polling"} \cup Sockets
  /\ allocated \in BOOLEAN
  /\ mutexes \subseteq Mutexes
  /\ infos \in [Sockets -> {-1, 0} \cup Fds]
  /\ poll_fd \in {0} \cup Fds
  /\ file \in [Fds -> {"closed", "app", "tcp", "conn", "udp"}]
  /\ told \in BOOLEAN /\ stolen \in BOOLEAN
  /\ odd \subseteq {"replaced", "opened", "moved"}

\* After a creation that failed at any step (create_server.c:71-230,
\* create_client.c:68-230) or a deletion, no descriptor and no memory of the
\* endpoint is left, unless connect_client.c:47 replaced an open socket; of
\* the mutexes only the one that the loop of create_server.c:73 misses.
NothingLeft ==
  pc = "none" =>
    /\ ~allocated
    /\ mutexes \subseteq {2}
    /\ "replaced" \notin odd => \A d \in Fds : file[d] \in {"closed", "app"}

\* The client polls the TCP socket of its connection: poll_fds[0].fd, stored
\* once (create_client.c:233), is client_infos->tcp_socket.
PollsTheConnection == pc = "polling" => poll_fd = infos["tcp"]

\* It does as long as no other descriptor of the process comes or goes and no
\* open socket is replaced: every connection gets the first one's number.
PolledIsConnected == odd = {} => PollsTheConnection

\* A file of the rest of the process is closed (delete_client.c:41,
\* connect_client.c:41) only if it was opened while the client kept the number
\* of a closed socket (create_client.c:261).
OthersKeepTheirFiles == stolen => "opened" \in odd

\* A client that reported a connection reports its end before it is gone
\* (delete_client.c:55-60, client_poll.c:268), unless connecting again lost it.
ConnectionIsEnded == pc = "none" /\ told => "replaced" \in odd
=============================================================================
