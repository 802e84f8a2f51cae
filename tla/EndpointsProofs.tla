--------------------------- MODULE EndpointsProofs ---------------------------
(***************************************************************************)
(* Proofs about Endpoints, for any number of descriptors, mutexes and      *)
(* files of the rest of the process.                                       *)
(***************************************************************************)
EXTENDS Endpoints, TLAPS

\* The creation is over.
Running == {"ready", "connect", "polling"}

\* What the structure is worth at each place.
Lifetime ==
  /\ allocated <=> pc # "none"
  /\ pc = "none" => mutexes \subseteq {2}
  /\ pc \in {"connect", "polling"} => kind = "client"

\* The number in infos[s] is that of an open socket of type f.
Holds(s, f) == infos[s] \in Fds /\ file[infos[s]] = f

\* The sockets made so far are open under different numbers.  Once a client is
\* created its TCP number may be that of a closed socket, or none, but it is
\* never one of its UDP sockets.
SocketsHeld ==
  /\ pc \in {"udp_server", "udp_client", "setup", "connect"} => Holds("tcp", "tcp")
  /\ pc = "ready" /\ kind = "server" => Holds("tcp", "tcp")
  /\ pc = "polling" => Holds("tcp", "conn")
  /\ pc \in {"udp_client", "setup"} \cup Running =>
       Holds("udp_server", "udp") /\ infos["udp_server"] # infos["tcp"]
  /\ pc \in {"setup"} \cup Running =>
       /\ Holds("udp_client", "udp")
       /\ infos["udp_client"] # infos["tcp"] /\ infos["udp_client"] # infos["udp_server"]

\* The sockets that infos[] has a number for.
Made ==
  {s \in Sockets :
     \/ s = "tcp" /\ pc \in {"udp_server", "udp_client", "setup"} \cup Running
     \/ s = "udp_server" /\ pc \in {"udp_client", "setup"} \cup Running
     \/ s = "udp_client" /\ pc \in {"setup"} \cup Running}

\* Unless a socket was replaced, no socket is open but those of infos[].
NoneLost ==
  "replaced" \notin odd =>
    \A d \in Fds : file[d] \in {"closed", "app"} \/ \E s \in Made : infos[s] = d

\* A number that is kept is never that of a UDP socket, and belongs to another
\* file only if that was opened meanwhile.
KeptNumber ==
  /\ pc \in Running /\ infos["tcp"] \in Fds =>
       /\ file[infos["tcp"]] # "udp"
       /\ file[infos["tcp"]] = "app" => "opened" \in odd
  /\ OthersKeepTheirFiles

\* A connection that was reported is still open, or was replaced.
ReportedIsOpen ==
  told => "replaced" \in odd \/ (pc \in {"ready", "polling"} /\ Holds("tcp", "conn"))

\* While nothing odd happened, every number below the first TCP socket's is
\* taken, and that one is free or the client's again.
SameNumber ==
  odd = {} /\ kind = "client" =>
    /\ pc \in {"udp_server", "udp_client", "setup"} =>
         \A e \in 3..(infos["tcp"] - 1) : file[e] # "closed"
    /\ pc \in Running =>
         /\ poll_fd \in Fds
         /\ infos["tcp"] \in {-1, poll_fd}
         /\ infos["tcp"] = poll_fd \/ file[poll_fd] = "closed"
         /\ \A e \in 3..(poll_fd - 1) : file[e] # "closed"

EndpointInv ==
  /\ TypeOK
  /\ Lifetime
  /\ SocketsHeld
  /\ NoneLost
  /\ KeptNumber
  /\ ReportedIsOpen
  /\ SameNumber

\* Nothing is taken before the first creation.
LEMMA EndpointsInit == Init => EndpointInv
BY EndpointsAssumption
   DEF Init, EndpointInv, TypeOK, Lifetime, SocketsHeld, NoneLost, KeptNumber,
       OthersKeepTheirFiles, ReportedIsOpen, SameNumber, Running, Sockets, Fds, Mutexes
-----------------------------------------------------------------------------
\* A new structure has no sockets and no numbers.
LEMMA NewStep ==
  ASSUME NEW k \in {"client", "server"}, EndpointInv, New(k)
  PROVE  EndpointInv'
<1> USE EndpointsAssumption DEF Fds, Sockets
<1>t. TypeOK /\ Lifetime /\ SocketsHeld /\ NoneLost /\ KeptNumber /\ ReportedIsOpen /\ SameNumber
  BY DEF EndpointInv
<1>1. TypeOK'
  BY <1>t DEF TypeOK, Mutexes, New, Goes
<1>2. Lifetime'
  BY <1>t DEF Lifetime, TypeOK, Mutexes, New, Goes
<1>3. SocketsHeld'
  BY <1>t DEF SocketsHeld, Holds, Running, Lifetime, TypeOK, New, Goes
<1>4. NoneLost'
  BY <1>t DEF NoneLost, KeptNumber, Made, Running, TypeOK, New, Goes
<1>5. KeptNumber'
  BY <1>t DEF KeptNumber, OthersKeepTheirFiles, Running, SocketsHeld, Holds, TypeOK, New, Goes
<1>6. ReportedIsOpen'
  BY <1>t DEF ReportedIsOpen, Holds, SocketsHeld, Running, TypeOK, New, Goes
<1>7. SameNumber'
  BY <1>t DEF SameNumber, SocketsHeld, Holds, Running, NoneLost, KeptNumber, Made, TypeOK,
     New, Goes
<1> QED
  BY <1>1, <1>2, <1>3, <1>4, <1>5, <1>6, <1>7 DEF EndpointInv

\* One more mutex of the array is initialised.
LEMMA InitMutexStep ==
  ASSUME EndpointInv, InitMutex
  PROVE  EndpointInv'
<1> USE EndpointsAssumption DEF Fds, Sockets
<1>t. TypeOK /\ Lifetime /\ SocketsHeld /\ NoneLost /\ KeptNumber /\ ReportedIsOpen /\ SameNumber
  BY DEF EndpointInv
<1>1. TypeOK'
  BY <1>t DEF TypeOK, Mutexes, InitMutex, Wanted
<1>2. Lifetime'
  BY <1>t DEF Lifetime, TypeOK, Mutexes, InitMutex, Wanted
<1>3. SocketsHeld'
  BY <1>t DEF SocketsHeld, Holds, Running, Lifetime, TypeOK, InitMutex, Wanted
<1>4. NoneLost'
  BY <1>t DEF NoneLost, KeptNumber, Made, Running, TypeOK, InitMutex, Wanted
<1>5. KeptNumber'
  BY <1>t DEF KeptNumber, OthersKeepTheirFiles, Running, SocketsHeld, Holds, TypeOK,
     InitMutex, Wanted
<1>6. ReportedIsOpen'
  BY <1>t DEF ReportedIsOpen, Holds, SocketsHeld, Running, TypeOK, InitMutex, Wanted
<1>7. SameNumber'
  BY <1>t DEF SameNumber, SocketsHeld, Holds, Running, NoneLost, KeptNumber, Made, TypeOK,
     InitMutex, Wanted
<1> QED
  BY <1>1, <1>2, <1>3, <1>4, <1>5, <1>6, <1>7 DEF EndpointInv

\* The cleaning loop leaves at most mutex 2, and no socket was made yet.
LEMMA InitMutexFailsStep ==
  ASSUME EndpointInv, InitMutexFails
  PROVE  EndpointInv'
<1> USE EndpointsAssumption DEF Fds, Sockets
<1>t. TypeOK /\ Lifetime /\ SocketsHeld /\ NoneLost /\ KeptNumber /\ ReportedIsOpen /\ SameNumber
  BY DEF EndpointInv
<1>1. TypeOK'
  BY <1>t DEF TypeOK, Mutexes, InitMutexFails, Frees
<1>2. Lifetime'
  <2>1. mutexes' \subseteq {2}
    <3> SUFFICES ASSUME NEW m \in mutexes' PROVE m = 2
      OBVIOUS
    <3>1. m \in mutexes /\ m <= 2
      BY DEF InitMutexFails
    <3> QED
      BY <3>1, <1>t DEF TypeOK, Mutexes
  <2> QED
    BY <2>1, <1>t DEF Lifetime, InitMutexFails, Frees
<1>3. SocketsHeld'
  BY <1>t DEF SocketsHeld, Holds, Running, Lifetime, TypeOK, InitMutexFails, Frees
<1>4. NoneLost'
  BY <1>t DEF NoneLost, KeptNumber, Made, Running, TypeOK, InitMutexFails, Frees
<1>5. KeptNumber'
  BY <1>t DEF KeptNumber, OthersKeepTheirFiles, Running, SocketsHeld, Holds, TypeOK,
     InitMutexFails, Frees
<1>6. ReportedIsOpen'
  BY <1>t DEF ReportedIsOpen, Holds, SocketsHeld, Running, TypeOK, InitMutexFails, Frees
<1>7. SameNumber'
  BY <1>t DEF SameNumber, SocketsHeld, Holds, Running, NoneLost, KeptNumber, Made, TypeOK,
     InitMutexFails, Frees
<1> QED
  BY <1>1, <1>2, <1>3, <1>4, <1>5, <1>6, <1>7 DEF EndpointInv

\* The mutexes are ready; nothing else changes.
LEMMA MutexesDoneStep ==
  ASSUME EndpointInv, MutexesDone
  PROVE  EndpointInv'
<1> USE EndpointsAssumption DEF Fds, Sockets
<1>t. TypeOK /\ Lifetime /\ SocketsHeld /\ NoneLost /\ KeptNumber /\ ReportedIsOpen /\ SameNumber
  BY DEF EndpointInv
<1>1. TypeOK'
  BY <1>t DEF TypeOK, Mutexes, MutexesDone, Goes
<1>2. Lifetime'
  BY <1>t DEF Lifetime, TypeOK, Mutexes, MutexesDone, Goes
<1>3. SocketsHeld'
  BY <1>t DEF SocketsHeld, Holds, Running, Lifetime, TypeOK, MutexesDone, Goes
<1>4. NoneLost'
  BY <1>t DEF NoneLost, KeptNumber, Made, Running, TypeOK, MutexesDone, Goes
<1>5. KeptNumber'
  BY <1>t DEF KeptNumber, OthersKeepTheirFiles, Running, SocketsHeld, Holds, TypeOK,
     MutexesDone, Goes
<1>6. ReportedIsOpen'
  BY <1>t DEF ReportedIsOpen, Holds, SocketsHeld, Running, TypeOK, MutexesDone, Goes
<1>7. SameNumber'
  BY <1>t DEF SameNumber, SocketsHeld, Holds, Running, NoneLost, KeptNumber, Made, TypeOK,
     MutexesDone, Goes
<1> QED
  BY <1>1, <1>2, <1>3, <1>4, <1>5, <1>6, <1>7 DEF EndpointInv

\* socket() returns a number that was free, so it is no other socket's.
LEMMA SocketStep ==
  ASSUME NEW s \in Sockets, EndpointInv, Socket(s)
  PROVE  EndpointInv'
<1> USE EndpointsAssumption DEF Fds, Sockets
<1>t. TypeOK /\ Lifetime /\ SocketsHeld /\ NoneLost /\ KeptNumber /\ ReportedIsOpen /\ SameNumber
  BY DEF EndpointInv
<1>1. TypeOK'
  BY <1>t DEF TypeOK, Mutexes, Socket, Goes, AfterSocket, Lowest
<1>2. Lifetime'
  BY <1>t DEF Lifetime, TypeOK, Mutexes, Socket, Goes, AfterSocket, Lowest
<1>3. SocketsHeld'
  BY <1>t DEF SocketsHeld, Holds, Running, Lifetime, TypeOK, Socket, Goes, AfterSocket, Lowest
<1>4. NoneLost'
  BY <1>t DEF NoneLost, KeptNumber, Made, Running, TypeOK, Socket, Goes, AfterSocket, Lowest
<1>5. KeptNumber'
  BY <1>t DEF KeptNumber, OthersKeepTheirFiles, Running, SocketsHeld, Holds, TypeOK, Socket,
     Goes, AfterSocket, Lowest
<1>6. ReportedIsOpen'
  BY <1>t DEF ReportedIsOpen, Holds, SocketsHeld, Running, TypeOK, Socket, Goes, AfterSocket,
     Lowest
<1>7. SameNumber'
  BY <1>t DEF SameNumber, SocketsHeld, Holds, Running, NoneLost, KeptNumber, Made, TypeOK,
     Socket, Goes, AfterSocket, Lowest
<1> QED
  BY <1>1, <1>2, <1>3, <1>4, <1>5, <1>6, <1>7 DEF EndpointInv

\* The sockets made before the one that failed are all there is to close.
LEMMA SocketFailsStep ==
  ASSUME NEW s \in Sockets, EndpointInv, SocketFails(s)
  PROVE  EndpointInv'
<1> USE EndpointsAssumption DEF Fds, Sockets
<1>t. TypeOK /\ Lifetime /\ SocketsHeld /\ NoneLost /\ KeptNumber /\ ReportedIsOpen /\ SameNumber
  BY DEF EndpointInv
<1>1. TypeOK'
  BY <1>t DEF TypeOK, Mutexes, SocketFails, MadeBefore, Closes, Frees
<1>2. Lifetime'
  BY <1>t DEF Lifetime, TypeOK, Mutexes, SocketFails, MadeBefore, Closes, Frees
<1>3. SocketsHeld'
  BY <1>t DEF SocketsHeld, Holds, Running, Lifetime, TypeOK, SocketFails, MadeBefore, Closes,
     Frees
<1>4. NoneLost'
  BY <1>t DEF NoneLost, KeptNumber, Made, Running, TypeOK, SocketFails, MadeBefore, Closes,
     Frees
<1>5. KeptNumber'
  BY <1>t DEF KeptNumber, OthersKeepTheirFiles, Running, SocketsHeld, Holds, TypeOK,
     SocketFails, MadeBefore, Closes, Frees
<1>6. ReportedIsOpen'
  BY <1>t DEF ReportedIsOpen, Holds, SocketsHeld, Running, TypeOK, SocketFails, MadeBefore,
     Closes, Frees
<1>7. SameNumber'
  BY <1>t DEF SameNumber, SocketsHeld, Holds, Running, NoneLost, KeptNumber, Made, TypeOK,
     SocketFails, MadeBefore, Closes, Frees
<1> QED
  BY <1>1, <1>2, <1>3, <1>4, <1>5, <1>6, <1>7 DEF EndpointInv

\* A client's TCP socket is closed and its number kept, in poll_fds[0] too.
LEMMA SetupStep ==
  ASSUME EndpointInv, Setup
  PROVE  EndpointInv'
<1> USE EndpointsAssumption DEF Fds, Sockets
<1>t. TypeOK /\ Lifetime /\ SocketsHeld /\ NoneLost /\ KeptNumber /\ ReportedIsOpen /\ SameNumber
  BY DEF EndpointInv
<1>1. TypeOK'
  BY <1>t DEF TypeOK, Mutexes, SocketsHeld, Holds, Setup, Goes, ClosedAtEnd, Closes
<1>2. Lifetime'
  BY <1>t DEF Lifetime, TypeOK, Mutexes, Setup, Goes, ClosedAtEnd, Closes
<1>3. SocketsHeld'
  BY <1>t DEF SocketsHeld, Holds, Running, Lifetime, TypeOK, Setup, Goes, ClosedAtEnd, Closes
<1>4. NoneLost'
  BY <1>t DEF NoneLost, KeptNumber, Made, Running, TypeOK, Setup, Goes, ClosedAtEnd, Closes
<1>5. KeptNumber'
  BY <1>t DEF KeptNumber, OthersKeepTheirFiles, Running, SocketsHeld, Holds, TypeOK, Setup,
     Goes, ClosedAtEnd, Closes
<1>6. ReportedIsOpen'
  BY <1>t DEF ReportedIsOpen, Holds, SocketsHeld, Running, TypeOK, Setup, Goes, ClosedAtEnd,
     Closes
<1>7. SameNumber'
  BY <1>t DEF SameNumber, SocketsHeld, Holds, Running, NoneLost, KeptNumber, Made, TypeOK,
     Setup, Goes, ClosedAtEnd, Closes
<1> QED
  BY <1>1, <1>2, <1>3, <1>4, <1>5, <1>6, <1>7 DEF EndpointInv

\* The three sockets are open, so closing their numbers closes no other file.
LEMMA SetupFailsStep ==
  ASSUME EndpointInv, SetupFails
  PROVE  EndpointInv'
<1> USE EndpointsAssumption DEF Fds, Sockets
<1>t. TypeOK /\ Lifetime /\ SocketsHeld /\ NoneLost /\ KeptNumber /\ ReportedIsOpen /\ SameNumber
  BY DEF EndpointInv
<1>1. TypeOK'
  BY <1>t DEF TypeOK, Mutexes, SetupFails, Delete, Closes, Frees
<1>2. Lifetime'
  BY <1>t DEF Lifetime, TypeOK, Mutexes, SetupFails, Delete, Closes, Frees
<1>3. SocketsHeld'
  BY <1>t DEF SocketsHeld, Holds, Running, Lifetime, TypeOK, SetupFails, Delete, Closes, Frees
<1>4. NoneLost'
  BY <1>t DEF NoneLost, KeptNumber, Made, Running, TypeOK, SetupFails, Delete, Closes, Frees
<1>5. KeptNumber'
  BY <1>t DEF KeptNumber, OthersKeepTheirFiles, Running, SocketsHeld, Holds, TypeOK,
     SetupFails, Delete, Closes, Frees
<1>6. ReportedIsOpen'
  BY <1>t DEF ReportedIsOpen, Holds, SocketsHeld, Running, TypeOK, SetupFails, Delete,
     Closes, Frees
<1>7. SameNumber'
  BY <1>t DEF SameNumber, SocketsHeld, Holds, Running, NoneLost, KeptNumber, Made, TypeOK,
     SetupFails, Delete, Closes, Frees
<1> QED
  BY <1>1, <1>2, <1>3, <1>4, <1>5, <1>6, <1>7 DEF EndpointInv

\* A deletion closes the sockets of infos[], and the file that took the number
\* of the TCP socket if one was opened meanwhile.
LEMMA DeleteStep ==
  ASSUME EndpointInv, udtcp_delete
  PROVE  EndpointInv'
<1> USE EndpointsAssumption DEF Fds, Sockets
<1>t. TypeOK /\ Lifetime /\ SocketsHeld /\ NoneLost /\ KeptNumber /\ ReportedIsOpen /\ SameNumber
  BY DEF EndpointInv
<1>1. TypeOK'
  BY <1>t DEF TypeOK, Mutexes, udtcp_delete, Delete, Closes, Frees, Ends
<1>2. Lifetime'
  BY <1>t DEF Lifetime, TypeOK, Mutexes, udtcp_delete, Delete, Closes, Frees, Ends
<1>3. SocketsHeld'
  BY <1>t DEF SocketsHeld, Holds, Running, Lifetime, TypeOK, udtcp_delete, Delete, Closes,
     Frees, Ends
<1>4. NoneLost'
  BY <1>t DEF NoneLost, KeptNumber, Made, Running, TypeOK, udtcp_delete, Delete, Closes,
     Frees, Ends
<1>5. KeptNumber'
  BY <1>t DEF KeptNumber, OthersKeepTheirFiles, Running, SocketsHeld, Holds, TypeOK,
     udtcp_delete, Delete, Closes, Frees, Ends
<1>6. ReportedIsOpen'
  <2> SUFFICES ASSUME told' PROVE "replaced" \in odd'
    BY DEF ReportedIsOpen
  <2>1. told /\ infos["tcp"] = -1 /\ odd' = odd
    BY DEF udtcp_delete, Ends
  <2> QED
    BY <2>1, <1>t DEF ReportedIsOpen, Holds
<1>7. SameNumber'
  BY <1>t DEF SameNumber, SocketsHeld, Holds, Running, NoneLost, KeptNumber, Made, TypeOK,
     udtcp_delete, Delete, Closes, Frees, Ends
<1> QED
  BY <1>1, <1>2, <1>3, <1>4, <1>5, <1>6, <1>7 DEF EndpointInv

\* The new socket gets the number of the first one if nothing odd happened; the
\* old one is lost only if it was still open.
LEMMA ConnectSocketStep ==
  ASSUME EndpointInv, ConnectSocket
  PROVE  EndpointInv'
<1> USE EndpointsAssumption DEF Fds, Sockets
<1>t. TypeOK /\ Lifetime /\ SocketsHeld /\ NoneLost /\ KeptNumber /\ ReportedIsOpen /\ SameNumber
  BY DEF EndpointInv
<1>1. TypeOK'
  BY <1>t DEF TypeOK, Mutexes, ConnectSocket, Goes, Replaces, StillOpen, Lowest
<1>2. Lifetime'
  BY <1>t DEF Lifetime, TypeOK, Mutexes, ConnectSocket, Goes, Replaces, StillOpen, Lowest
<1>3. SocketsHeld'
  BY <1>t DEF SocketsHeld, Holds, Running, Lifetime, TypeOK, ConnectSocket, Goes, Replaces,
     StillOpen, Lowest
<1>4. NoneLost'
  BY <1>t DEF NoneLost, KeptNumber, Made, Running, TypeOK, ConnectSocket, Goes, Replaces,
     StillOpen, Lowest
<1>5. KeptNumber'
  BY <1>t DEF KeptNumber, OthersKeepTheirFiles, Running, SocketsHeld, Holds, TypeOK,
     ConnectSocket, Goes, Replaces, StillOpen, Lowest
<1>6. ReportedIsOpen'
  BY <1>t DEF ReportedIsOpen, Holds, SocketsHeld, Running, TypeOK, ConnectSocket, Goes,
     Replaces, StillOpen, Lowest
<1>7. SameNumber'
  BY <1>t DEF SameNumber, SocketsHeld, Holds, Running, NoneLost, KeptNumber, Made, TypeOK,
     ConnectSocket, Goes, Replaces, StillOpen, Lowest
<1> QED
  BY <1>1, <1>2, <1>3, <1>4, <1>5, <1>6, <1>7 DEF EndpointInv

\* Without a socket the number becomes -1.
LEMMA ConnectNoSocketStep ==
  ASSUME EndpointInv, ConnectNoSocket
  PROVE  EndpointInv'
<1> USE EndpointsAssumption DEF Fds, Sockets
<1>t. TypeOK /\ Lifetime /\ SocketsHeld /\ NoneLost /\ KeptNumber /\ ReportedIsOpen /\ SameNumber
  BY DEF EndpointInv
<1>1. TypeOK'
  BY <1>t DEF TypeOK, Mutexes, ConnectNoSocket, Replaces, StillOpen
<1>2. Lifetime'
  BY <1>t DEF Lifetime, TypeOK, Mutexes, ConnectNoSocket, Replaces, StillOpen
<1>3. SocketsHeld'
  BY <1>t DEF SocketsHeld, Holds, Running, Lifetime, TypeOK, ConnectNoSocket, Replaces,
     StillOpen
<1>4. NoneLost'
  BY <1>t DEF NoneLost, KeptNumber, Made, Running, TypeOK, ConnectNoSocket, Replaces, StillOpen
<1>5. KeptNumber'
  BY <1>t DEF KeptNumber, OthersKeepTheirFiles, Running, SocketsHeld, Holds, TypeOK,
     ConnectNoSocket, Replaces, StillOpen
<1>6. ReportedIsOpen'
  BY <1>t DEF ReportedIsOpen, Holds, SocketsHeld, Running, TypeOK, ConnectNoSocket, Replaces,
     StillOpen
<1>7. SameNumber'
  BY <1>t DEF SameNumber, SocketsHeld, Holds, Running, NoneLost, KeptNumber, Made, TypeOK,
     ConnectNoSocket, Replaces, StillOpen
<1> QED
  BY <1>1, <1>2, <1>3, <1>4, <1>5, <1>6, <1>7 DEF EndpointInv

\* The new socket stays open under the client's number.
LEMMA ConnectLookupFailsStep ==
  ASSUME EndpointInv, ConnectLookupFails
  PROVE  EndpointInv'
<1> USE EndpointsAssumption DEF Fds, Sockets
<1>t. TypeOK /\ Lifetime /\ SocketsHeld /\ NoneLost /\ KeptNumber /\ ReportedIsOpen /\ SameNumber
  BY DEF EndpointInv
<1>1. TypeOK'
  BY <1>t DEF TypeOK, Mutexes, ConnectLookupFails, Goes
<1>2. Lifetime'
  BY <1>t DEF Lifetime, TypeOK, Mutexes, ConnectLookupFails, Goes
<1>3. SocketsHeld'
  BY <1>t DEF SocketsHeld, Holds, Running, Lifetime, TypeOK, ConnectLookupFails, Goes
<1>4. NoneLost'
  BY <1>t DEF NoneLost, KeptNumber, Made, Running, TypeOK, ConnectLookupFails, Goes
<1>5. KeptNumber'
  BY <1>t DEF KeptNumber, OthersKeepTheirFiles, Running, SocketsHeld, Holds, TypeOK,
     ConnectLookupFails, Goes
<1>6. ReportedIsOpen'
  BY <1>t DEF ReportedIsOpen, Holds, SocketsHeld, Running, TypeOK, ConnectLookupFails, Goes
<1>7. SameNumber'
  BY <1>t DEF SameNumber, SocketsHeld, Holds, Running, NoneLost, KeptNumber, Made, TypeOK,
     ConnectLookupFails, Goes
<1> QED
  BY <1>1, <1>2, <1>3, <1>4, <1>5, <1>6, <1>7 DEF EndpointInv

\* The new socket is closed and its number kept.
LEMMA ConnectFailsStep ==
  ASSUME EndpointInv, ConnectFails
  PROVE  EndpointInv'
<1> USE EndpointsAssumption DEF Fds, Sockets
<1>t. TypeOK /\ Lifetime /\ SocketsHeld /\ NoneLost /\ KeptNumber /\ ReportedIsOpen /\ SameNumber
  BY DEF EndpointInv
<1>1. TypeOK'
  BY <1>t DEF TypeOK, Mutexes, ConnectFails, Goes, Closes
<1>2. Lifetime'
  BY <1>t DEF Lifetime, TypeOK, Mutexes, ConnectFails, Goes, Closes
<1>3. SocketsHeld'
  BY <1>t DEF SocketsHeld, Holds, Running, Lifetime, TypeOK, ConnectFails, Goes, Closes
<1>4. NoneLost'
  BY <1>t DEF NoneLost, KeptNumber, Made, Running, TypeOK, ConnectFails, Goes, Closes
<1>5. KeptNumber'
  BY <1>t DEF KeptNumber, OthersKeepTheirFiles, Running, SocketsHeld, Holds, TypeOK,
     ConnectFails, Goes, Closes
<1>6. ReportedIsOpen'
  BY <1>t DEF ReportedIsOpen, Holds, SocketsHeld, Running, TypeOK, ConnectFails, Goes, Closes
<1>7. SameNumber'
  BY <1>t DEF SameNumber, SocketsHeld, Holds, Running, NoneLost, KeptNumber, Made, TypeOK,
     ConnectFails, Goes, Closes
<1> QED
  BY <1>1, <1>2, <1>3, <1>4, <1>5, <1>6, <1>7 DEF EndpointInv

\* The new socket is now a connection.
LEMMA ConnectSucceedsStep ==
  ASSUME EndpointInv, ConnectSucceeds
  PROVE  EndpointInv'
<1> USE EndpointsAssumption DEF Fds, Sockets
<1>t. TypeOK /\ Lifetime /\ SocketsHeld /\ NoneLost /\ KeptNumber /\ ReportedIsOpen /\ SameNumber
  BY DEF EndpointInv
<1>1. TypeOK'
  BY <1>t DEF TypeOK, Mutexes, ConnectSucceeds, Goes
<1>2. Lifetime'
  BY <1>t DEF Lifetime, TypeOK, Mutexes, ConnectSucceeds, Goes
<1>3. SocketsHeld'
  BY <1>t DEF SocketsHeld, Holds, Running, Lifetime, TypeOK, ConnectSucceeds, Goes
<1>4. NoneLost'
  BY <1>t DEF NoneLost, KeptNumber, Made, Running, TypeOK, ConnectSucceeds, Goes
<1>5. KeptNumber'
  BY <1>t DEF KeptNumber, OthersKeepTheirFiles, Running, SocketsHeld, Holds, TypeOK,
     ConnectSucceeds, Goes
<1>6. ReportedIsOpen'
  BY <1>t DEF ReportedIsOpen, Holds, SocketsHeld, Running, TypeOK, ConnectSucceeds, Goes
<1>7. SameNumber'
  BY <1>t DEF SameNumber, SocketsHeld, Holds, Running, NoneLost, KeptNumber, Made, TypeOK,
     ConnectSucceeds, Goes
<1> QED
  BY <1>1, <1>2, <1>3, <1>4, <1>5, <1>6, <1>7 DEF EndpointInv

\* The connection is closed; the next one finds its number free.
LEMMA PollDisconnectsStep ==
  ASSUME EndpointInv, PollDisconnects
  PROVE  EndpointInv'
<1> USE EndpointsAssumption DEF Fds, Sockets
<1>t. TypeOK /\ Lifetime /\ SocketsHeld /\ NoneLost /\ KeptNumber /\ ReportedIsOpen /\ SameNumber
  BY DEF EndpointInv
<1>1. TypeOK'
  BY <1>t DEF TypeOK, Mutexes, PollDisconnects, Goes, Closes, ClosedByDisconnect
<1>2. Lifetime'
  BY <1>t DEF Lifetime, TypeOK, Mutexes, PollDisconnects, Goes, Closes, ClosedByDisconnect
<1>3. SocketsHeld'
  BY <1>t DEF SocketsHeld, Holds, Running, Lifetime, TypeOK, PollDisconnects, Goes, Closes,
     ClosedByDisconnect
<1>4. NoneLost'
  BY <1>t DEF NoneLost, KeptNumber, Made, Running, TypeOK, PollDisconnects, Goes, Closes,
     ClosedByDisconnect
<1>5. KeptNumber'
  BY <1>t DEF KeptNumber, OthersKeepTheirFiles, Running, SocketsHeld, Holds, TypeOK,
     PollDisconnects, Goes, Closes, ClosedByDisconnect
<1>6. ReportedIsOpen'
  BY <1>t DEF ReportedIsOpen, Holds, SocketsHeld, Running, TypeOK, PollDisconnects, Goes,
     Closes, ClosedByDisconnect
<1>7. SameNumber'
  BY <1>t DEF SameNumber, SocketsHeld, Holds, Running, NoneLost, KeptNumber, Made, TypeOK,
     PollDisconnects, Goes, Closes, ClosedByDisconnect
<1> QED
  BY <1>1, <1>2, <1>3, <1>4, <1>5, <1>6, <1>7 DEF EndpointInv

\* The polling ends and the connection stays.
LEMMA PollEndsStep ==
  ASSUME EndpointInv, PollEnds
  PROVE  EndpointInv'
<1> USE EndpointsAssumption DEF Fds, Sockets
<1>t. TypeOK /\ Lifetime /\ SocketsHeld /\ NoneLost /\ KeptNumber /\ ReportedIsOpen /\ SameNumber
  BY DEF EndpointInv
<1>1. TypeOK'
  BY <1>t DEF TypeOK, Mutexes, PollEnds, Goes
<1>2. Lifetime'
  BY <1>t DEF Lifetime, TypeOK, Mutexes, PollEnds, Goes
<1>3. SocketsHeld'
  BY <1>t DEF SocketsHeld, Holds, Running, Lifetime, TypeOK, PollEnds, Goes
<1>4. NoneLost'
  BY <1>t DEF NoneLost, KeptNumber, Made, Running, TypeOK, PollEnds, Goes
<1>5. KeptNumber'
  BY <1>t DEF KeptNumber, OthersKeepTheirFiles, Running, SocketsHeld, Holds, TypeOK,
     PollEnds, Goes
<1>6. ReportedIsOpen'
  BY <1>t DEF ReportedIsOpen, Holds, SocketsHeld, Running, TypeOK, PollEnds, Goes
<1>7. SameNumber'
  BY <1>t DEF SameNumber, SocketsHeld, Holds, Running, NoneLost, KeptNumber, Made, TypeOK,
     PollEnds, Goes
<1> QED
  BY <1>1, <1>2, <1>3, <1>4, <1>5, <1>6, <1>7 DEF EndpointInv

\* A file of the rest of the process takes a free number; a kept one only if
\* that is noted.
LEMMA AppOpensStep ==
  ASSUME EndpointInv, AppOpens
  PROVE  EndpointInv'
<1> USE EndpointsAssumption DEF Fds, Sockets
<1>t. TypeOK /\ Lifetime /\ SocketsHeld /\ NoneLost /\ KeptNumber /\ ReportedIsOpen /\ SameNumber
  BY DEF EndpointInv
<1>1. TypeOK'
  BY <1>t DEF TypeOK, Mutexes, AppOpens, Lowest, Notes, Stale, AppFiles
<1>2. Lifetime'
  BY <1>t DEF Lifetime, TypeOK, Mutexes, AppOpens, Lowest, Notes, Stale, AppFiles
<1>3. SocketsHeld'
  BY <1>t DEF SocketsHeld, Holds, Running, Lifetime, TypeOK, AppOpens, Lowest, Notes, Stale,
     AppFiles
<1>4. NoneLost'
  BY <1>t DEF NoneLost, KeptNumber, Made, Running, TypeOK, AppOpens, Lowest, Notes, Stale,
     AppFiles
<1>5. KeptNumber'
  BY <1>t DEF KeptNumber, OthersKeepTheirFiles, Running, SocketsHeld, Holds, TypeOK,
     AppOpens, Lowest, Notes, Stale, AppFiles
<1>6. ReportedIsOpen'
  BY <1>t DEF ReportedIsOpen, Holds, SocketsHeld, Running, TypeOK, AppOpens, Lowest, Notes,
     Stale, AppFiles
<1>7. SameNumber'
  BY <1>t DEF SameNumber, SocketsHeld, Holds, Running, NoneLost, KeptNumber, Made, TypeOK,
     AppOpens, Lowest, Notes, Stale, AppFiles
<1> QED
  BY <1>1, <1>2, <1>3, <1>4, <1>5, <1>6, <1>7 DEF EndpointInv

\* A file of the rest of the process goes.
LEMMA AppClosesStep ==
  ASSUME EndpointInv, AppCloses
  PROVE  EndpointInv'
<1> USE EndpointsAssumption DEF Fds, Sockets
<1>t. TypeOK /\ Lifetime /\ SocketsHeld /\ NoneLost /\ KeptNumber /\ ReportedIsOpen /\ SameNumber
  BY DEF EndpointInv
<1>1. TypeOK'
  BY <1>t DEF TypeOK, Mutexes, AppCloses, Notes, AppFiles
<1>2. Lifetime'
  BY <1>t DEF Lifetime, TypeOK, Mutexes, AppCloses, Notes, AppFiles
<1>3. SocketsHeld'
  BY <1>t DEF SocketsHeld, Holds, Running, Lifetime, TypeOK, AppCloses, Notes, AppFiles
<1>4. NoneLost'
  BY <1>t DEF NoneLost, KeptNumber, Made, Running, TypeOK, AppCloses, Notes, AppFiles
<1>5. KeptNumber'
  BY <1>t DEF KeptNumber, OthersKeepTheirFiles, Running, SocketsHeld, Holds, TypeOK,
     AppCloses, Notes, AppFiles
<1>6. ReportedIsOpen'
  BY <1>t DEF ReportedIsOpen, Holds, SocketsHeld, Running, TypeOK, AppCloses, Notes, AppFiles
<1>7. SameNumber'
  BY <1>t DEF SameNumber, SocketsHeld, Holds, Running, NoneLost, KeptNumber, Made, TypeOK,
     AppCloses, Notes, AppFiles
<1> QED
  BY <1>1, <1>2, <1>3, <1>4, <1>5, <1>6, <1>7 DEF EndpointInv

-----------------------------------------------------------------------------
\* Every step of the application, the endpoint or the rest of the process.
LEMMA EndpointsStep == EndpointInv /\ [Next]_vars => EndpointInv'
<1> SUFFICES ASSUME EndpointInv, [Next]_vars PROVE EndpointInv'
  OBVIOUS
<1>1. CASE UNCHANGED vars
  BY <1>1 DEF vars, EndpointInv, TypeOK, Lifetime, SocketsHeld, Holds, NoneLost, Made,
     KeptNumber, OthersKeepTheirFiles, ReportedIsOpen, SameNumber
<1>2. CASE Create
  BY <1>2, NewStep, InitMutexStep, InitMutexFailsStep, MutexesDoneStep, SocketStep,
     SocketFailsStep, SetupStep, SetupFailsStep DEF Create
<1>3. CASE Connect
  BY <1>3, ConnectSocketStep, ConnectNoSocketStep, ConnectLookupFailsStep,
     ConnectFailsStep, ConnectSucceedsStep DEF Connect
<1>4. CASE PollDisconnects \/ PollEnds \/ udtcp_delete \/ AppOpens \/ AppCloses
  BY <1>4, PollDisconnectsStep, PollEndsStep, DeleteStep, AppOpensStep, AppClosesStep
<1> QED
  BY <1>1, <1>2, <1>3, <1>4 DEF Next

\* What each step of a creation, a connection or a deletion holds of the
\* system's descriptors, whatever the rest of the process opens and closes.
THEOREM EndpointInvariant == Spec => []EndpointInv
<1>1. Init => EndpointInv
  BY EndpointsInit
<1>2. EndpointInv /\ [Next]_vars => EndpointInv'
  BY EndpointsStep
<1> QED
  BY <1>1, <1>2, PTL DEF Spec

\* Every variable of Endpoints keeps its type; in particular no mutex outside
\* the array is initialised.
THEOREM EndpointTypeCorrect == Spec => []TypeOK
<1>1. EndpointInv => TypeOK
  BY DEF EndpointInv
<1> QED
  BY <1>1, EndpointInvariant, PTL

\* A creation that failed at any step, or a deletion, gives everything back:
\* every descriptor unless udtcp_connect_client replaced an open socket, the
\* memory, and all mutexes but the one the cleaning loop misses.
THEOREM EverythingGivenBack == Spec => []NothingLeft
<1>1. EndpointInv => NothingLeft
  BY DEF EndpointInv, Lifetime, NoneLost, Made, Running, NothingLeft
<1> QED
  BY <1>1, EndpointInvariant, PTL

\* poll_fds[0].fd, stored once, is the socket of every later connection while
\* no descriptor of the process moves and no open socket is replaced.
THEOREM ConnectionIsPolled == Spec => []PolledIsConnected
<1>1. EndpointInv => PolledIsConnected
  <2> SUFFICES ASSUME EndpointInv, odd = {}, pc = "polling" PROVE poll_fd = infos["tcp"]
    BY DEF PolledIsConnected, PollsTheConnection
  <2>1. kind = "client" /\ infos["tcp"] \in Fds
    BY DEF EndpointInv, Lifetime, SocketsHeld, Holds
  <2>2. infos["tcp"] \in {-1, poll_fd}
    BY <2>1 DEF EndpointInv, SameNumber, Running
  <2> QED
    BY <2>1, <2>2, EndpointsAssumption DEF Fds
<1> QED
  BY <1>1, EndpointInvariant, PTL

\* No file of the rest of the process is closed unless it was opened while the
\* client kept the number of a closed socket.
THEOREM FilesOfOthersKept == Spec => []OthersKeepTheirFiles
<1>1. EndpointInv => OthersKeepTheirFiles
  BY DEF EndpointInv, KeptNumber
<1> QED
  BY <1>1, EndpointInvariant, PTL

\* connect_callback is followed by disconnect_callback before the client is
\* gone, unless connecting again lost the connection.
THEOREM EndIsReported == Spec => []ConnectionIsEnded
<1>1. EndpointInv => ConnectionIsEnded
  BY DEF EndpointInv, ReportedIsOpen, ConnectionIsEnded
<1> QED
  BY <1>1, EndpointInvariant, PTL
=============================================================================
