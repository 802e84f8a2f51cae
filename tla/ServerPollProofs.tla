-------------------------- MODULE ServerPollProofs --------------------------
(***************************************************************************)
(* Proofs about ServerPoll, for every table size, every set of descriptors *)
(* and every bound on the ids.                                             *)
(***************************************************************************)
EXTENDS ServerPoll, FiniteSetTheorems, TLAPS

\* The table when the server has just been created: no client.
LEMMA InitTable == Init => TableInv
<1> SUFFICES ASSUME Init PROVE TableInv
  OBVIOUS
<1> USE ConstantsAssumption DEF Init
<1>0. TABLE_SIZE \in Nat /\ TABLE_SIZE >= 3
  BY DEF TABLE_SIZE
<1>1. TypeOK
  <2>1. poll_fds \in [Cells -> PollFds]
    BY DEF PollFds, OwnSockets
  <2>2. infos \in [Cells -> Infos]
    BY <1>0 DEF Infos, OwnSockets
  <2>3. open \subseteq OwnSockets \cup Fds
    OBVIOUS
  <2>4. poll_loop \in BOOLEAN /\ organise_array \in BOOLEAN
    OBVIOUS
  <2> QED
    BY <1>0, <2>1, <2>2, <2>3, <2>4 DEF TypeOK
<1>2. Slots = {} /\ Live = {}
  BY DEF Slots, Live
<1>3. FixedCells /\ Control /\ HolesWhere
  BY <1>0, <1>2 DEF FixedCells, Control, HolesWhere, Cells
<1>4. IdsOrdered /\ SlotsAligned /\ SlotsAreSessions /\ SendSlotsInitialised
      /\ CallbacksPairedOnDelete
  BY <1>2 DEF IdsOrdered, SlotsAligned, SlotsAreSessions, SendSlotsInitialised,
              CallbacksPairedOnDelete, Ids
<1> QED
  BY <1>1, <1>3, <1>4 DEF TableInv

\* A step that leaves the table alone only has to keep the control state right.
LEMMA QuietStep ==
  ASSUME TableInv, UNCHANGED table, pc' # "deleted", pc # "deleted",
         i' \in 0..TABLE_SIZE, poll_loop' \in BOOLEAN, organise_array' \in BOOLEAN,
         pc' \in {"stopped", "loop", "poll", "scan", "accept", "receive", "compact"},
         Control', HolesWhere'
  PROVE  TableInv'
<1>1. Slots' = Slots /\ Live' = Live
  BY DEF Slots, Live, table
<1>2. TypeOK'
  BY DEF TypeOK, TableInv, table
<1>3. FixedCells' /\ IdsOrdered' /\ SlotsAligned' /\ SendSlotsInitialised'
  BY <1>1 DEF TableInv, FixedCells, IdsOrdered, SlotsAligned, SendSlotsInitialised, table
<1>4. SlotsAreSessions' /\ CallbacksPairedOnDelete'
  BY <1>1 DEF TableInv, SlotsAreSessions, CallbacksPairedOnDelete, table
<1> QED
  BY <1>2, <1>3, <1>4 DEF TableInv

\* The steps of the thread and of the scan that do not touch the table.
LEMMA ControlSteps ==
  ASSUME TableInv,
         \/ udtcp_start_server \/ udtcp_stop_server
         \/ LoopGoesOn \/ ThreadEnds \/ PollTimeout
         \/ ScanSkip \/ ScanReadable \/ ScanDone \/ ReceiveKeeps
         \/ CompactSkip \/ CompactDone
  PROVE  TableInv'
<1> USE ConstantsAssumption
<1>0. TABLE_SIZE \in Nat /\ TABLE_SIZE >= 3
  BY DEF TABLE_SIZE
<1>t. TypeOK /\ Control /\ HolesWhere /\ FixedCells
  BY DEF TableInv
<1>1. CASE udtcp_start_server
  <2>1. Control' /\ HolesWhere'
    BY <1>1, <1>t, <1>0 DEF udtcp_start_server, Control, HolesWhere, Slots, table
  <2> QED
    BY <1>1, <1>t, <2>1, QuietStep DEF udtcp_start_server, TypeOK
<1>2. CASE udtcp_stop_server
  <2>1. Control' /\ HolesWhere'
    BY <1>2, <1>t, <1>0 DEF udtcp_stop_server, Control, HolesWhere, Slots, table
  <2> QED
    BY <1>2, <1>t, <2>1, QuietStep DEF udtcp_stop_server, TypeOK
<1>3. CASE LoopGoesOn \/ ThreadEnds \/ PollTimeout
  <2>1. Control' /\ HolesWhere'
    BY <1>3, <1>t, <1>0 DEF LoopGoesOn, ThreadEnds, PollTimeout, Control, HolesWhere, Slots, table
  <2> QED
    BY <1>3, <1>t, <2>1, QuietStep DEF LoopGoesOn, ThreadEnds, PollTimeout, TypeOK
<1>4. CASE ScanSkip
  <2>1. Control' /\ HolesWhere'
    BY <1>4, <1>t, <1>0 DEF ScanSkip, Scanning, Control, HolesWhere, Slots, table, TypeOK
  <2>2. i' \in 0..TABLE_SIZE
    BY <1>4, <1>t, <1>0 DEF ScanSkip, Scanning, TypeOK
  <2> QED
    BY <1>4, <1>t, <2>1, <2>2, QuietStep DEF ScanSkip, Scanning, TypeOK
<1>5. CASE ScanReadable
  <2>1. i \in 0..(poll_nfds - 1)
    BY <1>5, <1>t DEF ScanReadable, Scanning, TypeOK
  <2>2. i \in Slots => poll_fds[i].fd # TcpSocket
    BY <1>t DEF FixedCells, Live, OwnSockets, NoFd
  <2>3. Control'
    BY <1>5, <1>t, <2>1, <2>2 DEF ScanReadable, Scanning, Control, FixedCells, Slots, table, TypeOK
  <2>4. HolesWhere'
    BY <1>5, <1>t, <2>1, <2>2 DEF ScanReadable, Scanning, HolesWhere, FixedCells, Slots, table, TypeOK
  <2> QED
    BY <1>5, <1>t, <2>3, <2>4, QuietStep DEF ScanReadable, Scanning, TypeOK
<1>6. CASE ScanDone
  <2>1. Control' /\ HolesWhere'
    BY <1>6, <1>t, <1>0 DEF ScanDone, Control, HolesWhere, Slots, table, TypeOK
  <2> QED
    BY <1>6, <1>0, <1>t, <2>1, QuietStep DEF ScanDone, TypeOK
<1>7. CASE ReceiveKeeps
  <2>1. Control' /\ HolesWhere'
    BY <1>7, <1>t, <1>0 DEF ReceiveKeeps, ScanNext, Control, HolesWhere, Slots, table, TypeOK
  <2>2. i' \in 0..TABLE_SIZE
    BY <1>7, <1>t, <1>0 DEF ReceiveKeeps, ScanNext, Control, Slots, TypeOK
  <2> QED
    BY <1>7, <1>t, <2>1, <2>2, QuietStep DEF ReceiveKeeps, ScanNext, TypeOK
<1>8. CASE CompactSkip
  <2>1. Control' /\ HolesWhere'
    BY <1>8, <1>t, <1>0 DEF CompactSkip, Control, HolesWhere, Slots, table, TypeOK
  <2>2. i' \in 0..TABLE_SIZE
    BY <1>8, <1>t, <1>0 DEF CompactSkip, Control, TypeOK
  <2> QED
    BY <1>8, <1>t, <2>1, <2>2, QuietStep DEF CompactSkip, TypeOK
<1>9. CASE CompactDone
  <2>1. Control' /\ HolesWhere'
    BY <1>9, <1>t, <1>0 DEF CompactDone, Control, HolesWhere, Slots, table, TypeOK
  <2>2. organise_array' \in BOOLEAN
    BY <1>9 DEF CompactDone
  <2>3. poll_loop' \in BOOLEAN /\ i' \in 0..TABLE_SIZE
    BY <1>9, <1>0, <1>t DEF CompactDone, TypeOK
  <2> QED
    BY <1>9, <2>1, <2>2, <2>3, QuietStep DEF CompactDone
<1> QED
  BY <1>1, <1>2, <1>3, <1>4, <1>5, <1>6, <1>7, <1>8, <1>9

\* poll() only writes revents.
LEMMA PollStep ==
  ASSUME TableInv, PollReady
  PROVE  TableInv'
<1> USE ConstantsAssumption
<1>t. TypeOK /\ Control /\ HolesWhere
  BY DEF TableInv
<1>1. poll_fds' \in [Cells -> PollFds] /\ \A j \in Cells : poll_fds'[j].fd = poll_fds[j].fd
  <2>1. PICK readable : poll_fds' = [j \in Cells |->
             IF j < poll_nfds THEN [poll_fds[j] EXCEPT !.pollin = (j \in readable)]
                              ELSE poll_fds[j]]
    BY DEF PollReady
  <2>2. ASSUME NEW j \in Cells
        PROVE  poll_fds'[j] \in PollFds /\ poll_fds'[j].fd = poll_fds[j].fd
    <3>1. poll_fds[j] \in PollFds
      BY <1>t DEF TypeOK
    <3>2. (j \in readable) \in BOOLEAN
      OBVIOUS
    <3> QED
      BY <2>1, <3>1, <3>2 DEF PollFds
  <2> QED
    BY <2>1, <2>2
<1>2. Slots' = Slots /\ Slots \subseteq Cells /\ 0 \in Cells /\ 1 \in Cells
  BY <1>t DEF PollReady, Slots, Cells, TypeOK, TABLE_SIZE
<1>3. Live' = Live
  BY <1>1, <1>2 DEF Live
<1>4. TypeOK'
  BY <1>t, <1>1 DEF PollReady, TypeOK
<1>5. FixedCells' /\ SlotsAligned'
  BY <1>1, <1>2, <1>3 DEF TableInv, FixedCells, SlotsAligned, PollReady, Live
<1>6. Control' /\ HolesWhere'
  BY <1>t, <1>1, <1>2 DEF Control, HolesWhere, PollReady, TypeOK
<1>7. IdsOrdered' /\ SendSlotsInitialised'
  BY <1>2, <1>3 DEF TableInv, IdsOrdered, SendSlotsInitialised, PollReady
<1>8. SlotsAreSessions' /\ CallbacksPairedOnDelete'
  BY <1>2, <1>3 DEF TableInv, SlotsAreSessions, CallbacksPairedOnDelete, PollReady
<1> QED
  BY <1>4, <1>5, <1>6, <1>7, <1>8 DEF TableInv

\* An accept_client that fails writes at most the tcp_socket of the first
\* free cell, which no part of the invariant looks at.
LEMMA AcceptFails ==
  ASSUME TableInv, pc = "accept", ScanNext,
         UNCHANGED <<poll_fds, poll_nfds, count_id, poll_loop, organise_array, session>>,
         open' \subseteq OwnSockets \cup Fds,
         NEW fd \in Nat \cup {NoFd},
         \/ infos' = infos
         \/ HasRoom /\ infos' = [infos EXCEPT ![poll_nfds].tcp_socket = fd]
  PROVE  TableInv'
<1> USE ConstantsAssumption
<1>0. TABLE_SIZE \in Nat /\ TABLE_SIZE >= 3
  BY DEF TABLE_SIZE
<1>t. TypeOK /\ Control /\ HolesWhere
  BY DEF TableInv
<1>1. infos' \in [Cells -> Infos] /\ \A j \in Slots : infos'[j] = infos[j]
  <2>1. CASE infos' = infos
    BY <2>1, <1>t DEF TypeOK
  <2>2. CASE HasRoom /\ infos' = [infos EXCEPT ![poll_nfds].tcp_socket = fd]
    <3>1. poll_nfds \in Cells /\ poll_nfds \notin Slots /\ infos[poll_nfds] \in Infos
      BY <2>2, <1>0, <1>t DEF HasRoom, TypeOK, Cells, Slots
    <3>2. [infos[poll_nfds] EXCEPT !.tcp_socket = fd] \in Infos
      BY <3>1 DEF Infos
    <3>3. Slots \subseteq Cells
      BY <1>0, <1>t DEF Slots, Cells, TypeOK
    <3> QED
      BY <2>2, <3>1, <3>2, <3>3, <1>t DEF TypeOK
  <2> QED
    BY <2>1, <2>2
<1>2. Slots' = Slots /\ Live' = Live /\ Live \subseteq Slots
  BY DEF Slots, Live
<1>3. TypeOK'
  BY <1>0, <1>t, <1>1 DEF TypeOK, ScanNext, Control
<1>4. FixedCells' /\ SlotsAligned' /\ SendSlotsInitialised'
  BY <1>1, <1>2 DEF TableInv, FixedCells, SlotsAligned, SendSlotsInitialised
<1>5. Control' /\ HolesWhere'
  BY <1>t, <1>2 DEF Control, HolesWhere, ScanNext, TypeOK
<1>6. IdsOrdered'
  BY <1>1, <1>2 DEF TableInv, IdsOrdered
<1>7. SlotsAreSessions' /\ CallbacksPairedOnDelete'
  BY <1>1, <1>2 DEF TableInv, SlotsAreSessions, CallbacksPairedOnDelete, ScanNext
<1> QED
  BY <1>3, <1>4, <1>5, <1>6, <1>7 DEF TableInv

\* The three ways accept_client returns -1 are such failures.
LEMMA RefusedSteps ==
  ASSUME TableInv, AcceptNone \/ AcceptRefused \/ AcceptOverrun
  PROVE  TableInv'
<1> USE ConstantsAssumption
<1>t. open \subseteq OwnSockets \cup Fds
  BY DEF TableInv, TypeOK
<1>1. CASE AcceptNone
  BY <1>1, <1>t, AcceptFails DEF AcceptNone
<1>2. CASE AcceptRefused
  <2>1. PICK fd \in Fds : infos' = [infos EXCEPT ![poll_nfds].tcp_socket = fd]
    BY <1>2 DEF AcceptRefused
  <2>2. fd \in Nat \cup {NoFd}
    OBVIOUS
  <2> QED
    BY <1>2, <1>t, <2>1, <2>2, AcceptFails DEF AcceptRefused
<1>3. CASE AcceptOverrun
  <2>1. PICK fd \in Fds, p \in PeerFds :
          /\ infos' = [infos EXCEPT ![poll_nfds].tcp_socket = p]
          /\ open' = (open \cup {fd}) \ {p}
    BY <1>3 DEF AcceptOverrun
  <2>2. p \in Nat \cup {NoFd} /\ open' \subseteq OwnSockets \cup Fds
    BY <1>t, <2>1
  <2> QED
    BY <1>3, <2>1, <2>2, AcceptFails DEF AcceptOverrun
<1> QED
  BY <1>1, <1>2, <1>3

\* A new client takes the first free cell and the highest id so far.
LEMMA AcceptStep ==
  ASSUME TableInv, AcceptOk
  PROVE  TableInv'
<1> USE ConstantsAssumption
<1>0. TABLE_SIZE \in Nat /\ TABLE_SIZE >= 3
  BY DEF TABLE_SIZE
<1>t. TypeOK /\ FixedCells /\ Control /\ HolesWhere /\ IdsOrdered /\ SlotsAligned
      /\ SlotsAreSessions /\ SendSlotsInitialised
  BY DEF TableInv
<1> DEFINE n == poll_nfds
<1>1. PICK fd \in Fds :
        /\ infos' = [infos EXCEPT ![n] = [id |-> count_id, tcp_socket |-> fd, send |-> n]]
        /\ poll_fds' = [poll_fds EXCEPT ![n].fd = fd]
        /\ open' = open \cup {fd}
  BY DEF AcceptOk, SendSlot
<1>n. n \in 2..(TABLE_SIZE - 1) /\ n \in Cells /\ count_id \in 1..MaxId /\ count_id \in Ids
      /\ pc = "accept" /\ poll_nfds' = n + 1 /\ count_id' = count_id + 1
      /\ fd \in Nat /\ fd # NoFd
  BY <1>0, <1>t DEF AcceptOk, HasRoom, NextId, TypeOK, Cells, Ids, NoFd
<1>2. /\ poll_fds' \in [Cells -> PollFds]
      /\ infos' \in [Cells -> Infos]
      /\ poll_fds'[n].fd = fd
      /\ infos'[n] = [id |-> count_id, tcp_socket |-> fd, send |-> n]
      /\ \A j \in Cells : j # n => poll_fds'[j] = poll_fds[j] /\ infos'[j] = infos[j]
  <2>1. poll_fds[n] \in PollFds
    BY <1>n, <1>t DEF TypeOK
  <2>2. [poll_fds[n] EXCEPT !.fd = fd] \in PollFds
    BY <1>n, <2>1 DEF PollFds
  <2>3. [id |-> count_id, tcp_socket |-> fd, send |-> n] \in Infos
    BY <1>n, <1>0 DEF Infos
  <2> QED
    BY <1>1, <1>n, <2>1, <2>2, <2>3, <1>t DEF TypeOK, PollFds
<1>3. /\ Slots' = Slots \cup {n}
      /\ n \notin Slots
      /\ Slots \subseteq Cells
      /\ \A j \in Slots : j \in Nat /\ j < n
      /\ 0 \in Cells /\ 1 \in Cells
  BY <1>0, <1>n DEF Slots, Cells
<1>4. Live = Slots /\ Live' = Slots'
  <2>1. Live = Slots
    BY <1>n, <1>t DEF Live, HolesWhere
  <2> QED
    BY <2>1, <1>2, <1>3, <1>n DEF Live
<1>5. session[count_id] = "none" /\ session' = [session EXCEPT ![count_id] = "connected"]
  <2>1. session[count_id] = "none"
    BY <1>n, <1>t DEF IdsOrdered
  <2>2. OnConnect(session[count_id]) = "connected"
    BY <2>1 DEF OnConnect
  <2>3. session' = [session EXCEPT ![count_id] = OnConnect(session[count_id])]
    BY DEF AcceptOk
  <2> QED
    BY <2>1, <2>2, <2>3
<1>6. TypeOK'
  <2>1. i' \in 0..TABLE_SIZE /\ pc' \in {"accept", "scan"}
    BY <1>0, <1>n, <1>t DEF AcceptOk, ScanNext, Control
  <2>2. session' \in [Ids -> {"none", "connected", "closed", "broken"}]
    BY <1>5, <1>t DEF TypeOK
  <2> QED
    BY <1>0, <1>1, <1>2, <1>n, <1>t, <2>1, <2>2 DEF TypeOK, AcceptOk
<1>7. FixedCells' /\ SlotsAligned' /\ SendSlotsInitialised'
  BY <1>0, <1>2, <1>3, <1>4, <1>n, <1>t
     DEF FixedCells, SlotsAligned, SendSlotsInitialised
<1>8. Control'
  BY <1>n, <1>t DEF Control, AcceptOk, ScanNext, TypeOK
<1>9. HolesWhere'
  BY <1>4 DEF HolesWhere, Live
<1>10. IdsOrdered'
  <2>1. \A j \in Slots' : infos'[j].id \in 1..count_id
    BY <1>2, <1>3, <1>n, <1>t DEF IdsOrdered
  <2>2. \A j, k \in Slots' : j < k => infos'[j].id < infos'[k].id
    <3> SUFFICES ASSUME NEW j \in Slots', NEW k \in Slots', j < k
                 PROVE  infos'[j].id < infos'[k].id
      OBVIOUS
    <3>1. j \in Slots /\ infos'[j] = infos[j]
      BY <1>2, <1>3, <1>n
    <3>2. CASE k \in Slots
      BY <3>1, <3>2, <1>2, <1>3, <1>t DEF IdsOrdered
    <3>3. CASE k = n
      BY <3>1, <3>3, <1>2, <1>n, <1>t DEF IdsOrdered
    <3> QED
      BY <3>2, <3>3, <1>3
  <2>3. \A k \in Ids : session'[k] = "none" <=> k >= count_id'
    BY <1>5, <1>n, <1>t DEF IdsOrdered, TypeOK, Ids
  <2> QED
    BY <2>1, <2>2, <2>3, <1>n DEF IdsOrdered
<1>11. SlotsAreSessions'
  <2>1. \A j \in Live' : infos'[j].id \in Ids /\ session'[infos'[j].id] = "connected"
    BY <1>2, <1>3, <1>4, <1>5, <1>n, <1>t DEF SlotsAreSessions, TypeOK
  <2>2. \A k \in Ids : session'[k] = "connected" => \E j \in Live' : infos'[j].id = k
    BY <1>2, <1>3, <1>4, <1>5, <1>n, <1>t DEF SlotsAreSessions, TypeOK
  <2>3. \A k \in Ids : session'[k] # "broken"
    BY <1>5, <1>n, <1>t DEF SlotsAreSessions, TypeOK
  <2> QED
    BY <2>1, <2>2, <2>3, <1>10 DEF SlotsAreSessions, IdsOrdered
<1>12. CallbacksPairedOnDelete'
  BY <1>n DEF CallbacksPairedOnDelete, AcceptOk, ScanNext
<1> QED
  BY <1>6, <1>7, <1>8, <1>9, <1>10, <1>11, <1>12 DEF TableInv

\* A lost client leaves a hole behind the scan, and its id is withdrawn.
LEMMA LostStep ==
  ASSUME TableInv, ReceiveLost
  PROVE  TableInv'
<1> USE ConstantsAssumption
<1>0. TABLE_SIZE \in Nat /\ TABLE_SIZE >= 3
  BY DEF TABLE_SIZE
<1>t. TypeOK /\ FixedCells /\ Control /\ HolesWhere /\ IdsOrdered /\ SlotsAligned
      /\ SlotsAreSessions /\ SendSlotsInitialised
  BY DEF TableInv
<1>1. pc = "receive" /\ i \in Slots /\ pc' = "scan" /\ i' = i + 1 /\ organise_array' = TRUE
  BY <1>t DEF ReceiveLost, Control, ScanNext
<1>2. Slots' = Slots /\ Slots \subseteq Cells /\ 0 \in Cells /\ 1 \in Cells
      /\ \A j \in Slots : j \in 2..(TABLE_SIZE - 1)
  BY <1>0, <1>t DEF ReceiveLost, Slots, Cells, TypeOK
<1>3. /\ poll_fds' \in [Cells -> PollFds]
      /\ poll_fds'[i].fd = NoFd
      /\ \A j \in Cells : j # i => poll_fds'[j] = poll_fds[j]
  <2>1. poll_fds[i] \in PollFds
    BY <1>1, <1>2, <1>t DEF TypeOK
  <2>2. [poll_fds[i] EXCEPT !.fd = NoFd] \in PollFds
    BY <2>1 DEF PollFds
  <2> QED
    BY <1>1, <1>2, <1>t, <2>1, <2>2 DEF TypeOK, PollFds, ReceiveLost
<1>4. i \in Live /\ Live' = Live \ {i} /\ Live \subseteq Slots
  <2>1. i \in Live
    BY <1>1, <1>2, <1>t DEF HolesWhere, Live
  <2> QED
    BY <2>1, <1>1, <1>2, <1>3 DEF Live
<1> DEFINE k0 == infos[i].id
<1>5. k0 \in Ids /\ session[k0] = "connected" /\ session' = [session EXCEPT ![k0] = "closed"]
  BY <1>1, <1>4, <1>t DEF SlotsAreSessions, ReceiveLost, OnDisconnect
<1>6. TypeOK'
  <2>1. session' \in [Ids -> {"none", "connected", "closed", "broken"}]
    BY <1>5, <1>t DEF TypeOK
  <2>2. organise_array' \in BOOLEAN
    BY <1>1
  <2>3. i' \in 0..TABLE_SIZE
    BY <1>0, <1>1, <1>2
  <2> QED
    BY <1>1, <1>3, <1>t, <2>1, <2>2, <2>3 DEF TypeOK, ReceiveLost
<1>7. FixedCells' /\ SlotsAligned' /\ SendSlotsInitialised'
  BY <1>1, <1>2, <1>3, <1>4, <1>t
     DEF FixedCells, SlotsAligned, SendSlotsInitialised, ReceiveLost
<1>8. Control'
  BY <1>1, <1>t DEF Control, Slots, TypeOK, ReceiveLost
<1>9. HolesWhere'
  BY <1>1, <1>2, <1>3, <1>t DEF HolesWhere
<1>10. IdsOrdered'
  BY <1>2, <1>5, <1>t DEF IdsOrdered, ReceiveLost, TypeOK
<1>11. SlotsAreSessions'
  <2>1. \A j \in Live' : infos'[j].id # k0 /\ infos'[j].id = infos[j].id /\ j \in Live
    <3> SUFFICES ASSUME NEW j \in Live' PROVE infos[j].id # k0
      BY <1>4 DEF ReceiveLost
    <3>1. j \in Slots /\ j # i /\ (j < i \/ i < j)
      BY <1>1, <1>2, <1>4
    <3>2. infos[j].id \in Nat /\ infos[i].id \in Nat
      BY <1>1, <1>2, <3>1, <1>t DEF TypeOK, Infos
    <3> QED
      BY <3>1, <3>2, <1>1, <1>t DEF IdsOrdered
  <2>2. \A j \in Live' : infos'[j].id \in Ids /\ session'[infos'[j].id] = "connected"
    BY <2>1, <1>1, <1>5, <1>t DEF SlotsAreSessions, TypeOK
  <2>3. \A k \in Ids : session'[k] = "connected" => \E j \in Live' : infos'[j].id = k
    BY <1>1, <1>4, <1>5, <1>t DEF SlotsAreSessions, TypeOK, ReceiveLost
  <2>4. \A k \in Ids : session'[k] # "broken"
    BY <1>1, <1>5, <1>t DEF SlotsAreSessions, TypeOK
  <2> QED
    BY <2>2, <2>3, <2>4, <1>10 DEF SlotsAreSessions, IdsOrdered
<1>12. CallbacksPairedOnDelete'
  BY <1>1 DEF CallbacksPairedOnDelete
<1> QED
  BY <1>6, <1>7, <1>8, <1>9, <1>10, <1>11, <1>12 DEF TableInv

\* The compaction of one hole: cell j of the new table is cell From(j) of the
\* old one, whether the cells were moved or the hole was the last cell.
From(j) == IF j < i THEN j ELSE j + 1

\* From maps the cells in use after the step one to one, in order, onto the
\* cells in use before it other than the hole.
LEMMA CompactionMap ==
  ASSUME MemcpyAscending, TableInv, CompactStep
  PROVE  /\ pc = "compact" /\ pc' = "compact" /\ i' = i /\ i \in 2..(poll_nfds - 1)
         /\ poll_nfds' = poll_nfds - 1 /\ poll_nfds \in 3..TABLE_SIZE
         /\ poll_fds' \in [Cells -> PollFds] /\ infos' \in [Cells -> Infos]
         /\ poll_fds'[0] = poll_fds[0] /\ poll_fds'[1] = poll_fds[1]
         /\ Slots' \subseteq Int
         /\ \A j \in Slots' : From(j) \in Slots /\ From(j) \in Int /\ j <= From(j)
         /\ \A j, k \in Slots' : j < k => From(j) < From(k)
         /\ \A k \in Slots : k # i => \E j \in Slots' : From(j) = k
         /\ \A j \in Slots' : j \in Live' <=> From(j) \in Live
         /\ \A j \in Slots' : poll_fds'[j] = poll_fds[From(j)] /\ infos'[j] = infos[From(j)]
         /\ Live' \subseteq Slots' /\ Live \subseteq Slots /\ i \notin Live
<1> USE ConstantsAssumption DEF From
<1>0. TABLE_SIZE \in Nat /\ TABLE_SIZE >= 3
  BY DEF TABLE_SIZE
<1>t. TypeOK /\ Control
  BY DEF TableInv
<1> DEFINE n == poll_nfds
<1>1. /\ pc = "compact" /\ pc' = "compact" /\ i' = i /\ i \in 2..(n - 1)
      /\ poll_nfds' = n - 1 /\ n \in 3..TABLE_SIZE /\ poll_fds[i].fd = NoFd
  BY <1>0, <1>t DEF CompactStep, AfterHole, Control, TypeOK
<1>2. /\ Slots = 2..(n - 1)
      /\ Slots' = 2..(n - 2)
      /\ Slots \subseteq Cells
      /\ 0 \in Cells /\ 1 \in Cells
  BY <1>0, <1>1 DEF Slots, Cells
<1>3. /\ poll_fds' \in [Cells -> PollFds]
      /\ infos' \in [Cells -> Infos]
      /\ \A j \in 0..(n - 2) : poll_fds'[j] = poll_fds[From(j)] /\ infos'[j] = infos[From(j)]
  <2>1. CASE i < n - 1
    <3>1. poll_fds' = [j \in Cells |-> IF i <= j /\ j < n THEN poll_fds[j + 1] ELSE poll_fds[j]]
      BY <2>1 DEF CompactStep, Shift
    <3>2. infos' = [j \in Cells |-> IF i <= j /\ j < n THEN infos[j + 1] ELSE infos[j]]
      BY <2>1 DEF CompactStep, ShiftInfos, Shift
    <3>3. \A j \in Cells : i <= j /\ j < n => j + 1 \in Cells
      BY <1>0, <1>1 DEF Cells
    <3>4. \A j \in 0..(n - 2) : j \in Cells /\ j < n
      BY <1>0, <1>1 DEF Cells
    <3>5. i \in Int
      BY <1>1
    <3>6. poll_fds' \in [Cells -> PollFds] /\ infos' \in [Cells -> Infos]
      BY <3>1, <3>2, <3>3, <1>t DEF TypeOK
    <3> QED
      BY <3>1, <3>2, <3>4, <3>5, <3>6
  <2>2. CASE ~(i < n - 1)
    <3>1. UNCHANGED <<poll_fds, infos>>
      BY <2>2 DEF CompactStep
    <3>2. \A j \in 0..(n - 2) : From(j) = j
      BY <2>2, <1>1
    <3> QED
      BY <3>1, <3>2, <1>t DEF TypeOK
  <2> QED
    BY <2>1, <2>2
<1>4. /\ \A j \in Slots' : j \in 0..(n - 2) /\ From(j) \in Slots /\ From(j) # i
      /\ \A j, k \in Slots' : j < k => From(j) < From(k)
      /\ \A j \in Slots' : j <= From(j)
      /\ \A k \in Slots : k # i => \E j \in Slots' : From(j) = k
  <2>1. \A k \in Slots : k # i => \E j \in Slots' : From(j) = k
    <3> SUFFICES ASSUME NEW k \in Slots, k # i PROVE \E j \in Slots' : From(j) = k
      OBVIOUS
    <3>1. CASE k < i
      BY <3>1, <1>1, <1>2
    <3>2. CASE k > i
      <4>1. k - 1 \in Slots' /\ From(k - 1) = k
        BY <3>2, <1>1, <1>2
      <4> QED
        BY <4>1
    <3> QED
      BY <3>1, <3>2, <1>1, <1>2
  <2> QED
    BY <2>1, <1>1, <1>2
<1>z. poll_fds'[0] = poll_fds[0] /\ poll_fds'[1] = poll_fds[1]
  BY <1>1, <1>3
<1>i. Slots' \subseteq Int /\ Slots \subseteq Int
  BY <1>2
<1> HIDE DEF From
<1>5. /\ \A j \in Slots' : j \in Live' <=> From(j) \in Live
      /\ Live' \subseteq Slots' /\ Live \subseteq Slots /\ i \notin Live
  BY <1>1, <1>3, <1>4 DEF Live
<1>6. \A j \in Slots' : poll_fds'[j] = poll_fds[From(j)] /\ infos'[j] = infos[From(j)]
  BY <1>3, <1>4
<1> QED
  BY <1>1, <1>3, <1>z, <1>i, <1>4, <1>5, <1>6

\* Hence the compaction of one hole keeps the invariant.
LEMMA CompactionStep ==
  ASSUME MemcpyAscending, TableInv, CompactStep
  PROVE  TableInv'
<1> USE ConstantsAssumption
<1>0. TABLE_SIZE \in Nat /\ TABLE_SIZE >= 3
  BY DEF TABLE_SIZE
<1>t. TypeOK /\ FixedCells /\ HolesWhere /\ IdsOrdered /\ SlotsAligned
      /\ SlotsAreSessions /\ SendSlotsInitialised
  BY DEF TableInv
<1>7. TypeOK'
  BY <1>0, CompactionMap, <1>t DEF TypeOK, CompactStep
<1>8. FixedCells'
  <2>1. poll_fds'[0] = poll_fds[0] /\ poll_fds'[1] = poll_fds[1]
    BY CompactionMap
  <2>2. \A j \in Live' : poll_fds'[j].fd \in Fds
    BY CompactionMap, <1>t DEF FixedCells
  <2> QED
    BY <2>1, <2>2, <1>t DEF FixedCells
<1>9. SlotsAligned'
  BY CompactionMap, <1>t DEF SlotsAligned
<1>10. SendSlotsInitialised'
  <2> SUFFICES ASSUME NEW j \in Live' PROVE infos'[j].send \in j..(TABLE_SIZE - 1)
    BY DEF SendSlotsInitialised
  <2>1. infos[From(j)].send \in From(j)..(TABLE_SIZE - 1)
    BY CompactionMap, <1>t DEF SendSlotsInitialised
  <2>2. j \in Int /\ From(j) \in Int /\ j <= From(j)
    BY CompactionMap
  <2> QED
    BY <2>1, <2>2, CompactionMap, <1>0
<1>11. Control'
  BY CompactionMap DEF Control
<1>12. HolesWhere'
  <2> SUFFICES ASSUME NEW j \in Slots', poll_fds'[j].fd = NoFd PROVE i <= j
    BY CompactionMap DEF HolesWhere
  <2>1. i <= From(j)
    BY CompactionMap, <1>t DEF HolesWhere
  <2> QED
    BY <2>1, CompactionMap DEF From
<1>13. IdsOrdered'
  <2>1. \A j \in Slots' : infos'[j].id \in 1..(count_id - 1)
    BY CompactionMap, <1>t DEF IdsOrdered
  <2>2. \A j, k \in Slots' : j < k => infos'[j].id < infos'[k].id
    BY CompactionMap, <1>t DEF IdsOrdered
  <2> QED
    BY <2>1, <2>2, <1>t DEF IdsOrdered, CompactStep
<1>14. SlotsAreSessions'
  <2>1. \A j \in Live' : infos'[j].id \in Ids /\ session[infos'[j].id] = "connected"
    BY CompactionMap, <1>t DEF SlotsAreSessions
  <2>2. \A k \in Ids : session[k] = "connected" => \E j \in Live' : infos'[j].id = k
    <3> SUFFICES ASSUME NEW k \in Ids, session[k] = "connected"
                 PROVE  \E j \in Live' : infos'[j].id = k
      OBVIOUS
    <3>1. PICK l \in Live : infos[l].id = k
      BY CompactionMap, <1>t DEF SlotsAreSessions
    <3>2. PICK j \in Slots' : From(j) = l
      BY CompactionMap
    <3> QED
      BY <3>1, <3>2, CompactionMap
  <2> QED
    BY <2>1, <2>2, CompactionMap, <1>13, <1>t DEF SlotsAreSessions, IdsOrdered, CompactStep
<1>15. CallbacksPairedOnDelete'
  BY CompactionMap DEF CallbacksPairedOnDelete
<1> QED
  BY <1>7, <1>8, <1>9, <1>10, <1>11, <1>12, <1>13, <1>14, <1>15 DEF TableInv

\* Deleting a stopped server withdraws every connected id, each once.
LEMMA DeleteStep ==
  ASSUME TableInv, udtcp_delete_server
  PROVE  TableInv'
<1> USE ConstantsAssumption
<1>t. TypeOK /\ FixedCells /\ Control /\ HolesWhere /\ IdsOrdered /\ SlotsAligned
      /\ SlotsAreSessions /\ SendSlotsInitialised
  BY DEF TableInv
<1>1. pc = "stopped" /\ pc' = "deleted" /\ session' = SessionsAfterDelete
      /\ UNCHANGED <<poll_fds, infos, poll_nfds, count_id, poll_loop, i, organise_array>>
      /\ open' \subseteq open
  BY DEF udtcp_delete_server
<1>2. Slots' = Slots /\ Live' = Live /\ Live \subseteq Slots
  BY <1>1 DEF Slots, Live
<1>3. ASSUME NEW k \in Ids
      PROVE  /\ session'[k] \in {"none", "closed"}
             /\ session'[k] = "none" <=> session[k] = "none"
  <2> DEFINE cells == {j \in Live : infos[j].id = k}
  <2>1. session'[k] = IF cells = {} THEN session[k]
                      ELSE IF \E j \in cells : cells = {j} THEN OnDisconnect(session[k])
                      ELSE "broken"
    BY <1>1 DEF SessionsAfterDelete
  <2>2. session[k] \in {"none", "connected", "closed"}
    BY <1>1, <1>t DEF TypeOK, SlotsAreSessions
  <2>3. CASE cells = {}
    <3>1. session[k] # "connected"
      BY <2>3, <1>1, <1>t DEF SlotsAreSessions
    <3> QED
      BY <2>1, <2>2, <2>3, <3>1
  <2>4. CASE cells # {}
    <3>1. PICK j \in cells : TRUE
      BY <2>4
    <3>2. session[k] = "connected"
      BY <3>1, <1>1, <1>t DEF SlotsAreSessions
    <3>3. \A l \in cells : l = j
      <4> SUFFICES ASSUME NEW l \in cells, l # j PROVE FALSE
        OBVIOUS
      <4>1. l \in Slots /\ j \in Slots /\ infos[l].id = k /\ infos[j].id = k
        BY <1>2, <3>1
      <4>2. l \in Int /\ j \in Int /\ k \in Int
        BY <4>1 DEF Slots, Ids
      <4> QED
        BY <4>1, <4>2, <1>t DEF IdsOrdered
    <3>4. cells = {j}
      BY <3>1, <3>3
    <3>5. session'[k] = "closed"
      BY <2>1, <3>1, <3>2, <3>4 DEF OnDisconnect
    <3> QED
      BY <3>2, <3>5
  <2> QED
    BY <2>3, <2>4
<1>4. TypeOK'
  <2>1. session' \in [Ids -> {"none", "connected", "closed", "broken"}]
    <3>1. session' = [k \in Ids |-> session'[k]]
      BY <1>1 DEF SessionsAfterDelete
    <3> QED
      BY <1>3, <3>1
  <2> QED
    BY <1>1, <1>t, <2>1 DEF TypeOK
<1>5. FixedCells' /\ SlotsAligned' /\ SendSlotsInitialised'
  BY <1>1, <1>2, <1>t DEF FixedCells, SlotsAligned, SendSlotsInitialised
<1>6. Control' /\ HolesWhere'
  BY <1>1, <1>2, <1>t DEF Control, HolesWhere
<1>7. IdsOrdered'
  BY <1>1, <1>2, <1>3, <1>t DEF IdsOrdered
<1>8. SlotsAreSessions' /\ CallbacksPairedOnDelete'
  BY <1>1, <1>3 DEF SlotsAreSessions, CallbacksPairedOnDelete
<1> QED
  BY <1>4, <1>5, <1>6, <1>7, <1>8 DEF TableInv

\* Every step of the server keeps the inductive invariant, provided memcpy
\* copies in ascending order.
LEMMA TableStep ==
  ASSUME MemcpyAscending
  PROVE  TableInv /\ [Next]_vars => TableInv'
<1> SUFFICES ASSUME TableInv, [Next]_vars PROVE TableInv'
  OBVIOUS
<1>1. CASE UNCHANGED vars
  <2>1. Slots' = Slots /\ Live' = Live
    BY <1>1 DEF vars, Slots, Live
  <2> QED
    BY <1>1, <2>1 DEF vars, TableInv, TypeOK, FixedCells, Control, HolesWhere, IdsOrdered,
       SlotsAligned, SlotsAreSessions, SendSlotsInitialised, CallbacksPairedOnDelete
<1>2. CASE Next
  BY <1>2, ControlSteps, PollStep, RefusedSteps, AcceptStep, LostStep, CompactionStep,
     DeleteStep DEF Next
<1> QED
  BY <1>1, <1>2

\* The table keeps its shape in every reachable state: the conjunction that
\* the compaction, the accepts and the disconnects preserve together.
THEOREM TableInvariant ==
  ASSUME MemcpyAscending
  PROVE  Spec => []TableInv
<1>1. Init => TableInv
  BY InitTable
<1>2. TableInv /\ [Next]_vars => TableInv'
  BY TableStep
<1> QED
  BY <1>1, <1>2, PTL DEF Spec

\* No variable leaves its type: poll_nfds and i stay inside the arrays of
\* UDTCP_POLL_TABLE_SIZE elements whatever the peers do.
THEOREM TypeCorrect ==
  ASSUME MemcpyAscending
  PROVE  Spec => []TypeOK
<1>1. TableInv => TypeOK
  BY DEF TableInv
<1> QED
  BY <1>1, TableInvariant, PTL

\* poll_fds[] and infos[] name the same socket in every live cell.
THEOREM ArraysAligned ==
  ASSUME MemcpyAscending
  PROVE  Spec => []SlotsAligned
<1>1. TableInv => SlotsAligned
  BY DEF TableInv
<1> QED
  BY <1>1, TableInvariant, PTL

\* udtcp_server_poll never returns with a hole in the table.
THEOREM TableCompacted ==
  ASSUME MemcpyAscending
  PROVE  Spec => []NoHoleAtRest
<1>1. TableInv => NoHoleAtRest
  BY DEF TableInv, NoHoleAtRest, HolesWhere, Live
<1> QED
  BY <1>1, TableInvariant, PTL

\* The table is exactly the set of connected sessions, and no id gets a
\* callback out of turn.
THEOREM TableIsSessions ==
  ASSUME MemcpyAscending
  PROVE  Spec => []SlotsAreSessions
<1>1. TableInv => SlotsAreSessions
  BY DEF TableInv
<1> QED
  BY <1>1, TableInvariant, PTL

\* However often the table was compacted, a client's send structure is one
\* whose mutex udtcp_create_server initialised.
THEOREM SendSlotsValid ==
  ASSUME MemcpyAscending
  PROVE  Spec => []SendSlotsInitialised
<1>1. TableInv => SendSlotsInitialised
  BY DEF TableInv
<1> QED
  BY <1>1, TableInvariant, PTL

\* After udtcp_delete_server every connect_callback has had its
\* disconnect_callback.
THEOREM CallbacksPaired ==
  ASSUME MemcpyAscending
  PROVE  Spec => []CallbacksPairedOnDelete
<1>1. TableInv => CallbacksPairedOnDelete
  BY DEF TableInv
<1> QED
  BY <1>1, TableInvariant, PTL

\* A step that leaves the live cells, their sockets and open alone keeps the
\* descriptors accounted for.
LEMMA SocketsKept ==
  ASSUME NoDescriptorLeak, Live' = Live, open' = open, pc # "deleted", pc' # "deleted",
         \A j \in Live : infos'[j].tcp_socket = infos[j].tcp_socket
  PROVE  NoDescriptorLeak'
BY DEF NoDescriptorLeak

\* One step of a server whose peers never overrun the exchange.
LEMMA SocketStep ==
  ASSUME MemcpyAscending, PeerFds = {}, TableInv, NoDescriptorLeak, AllClosedOnDelete, [Next]_vars
  PROVE  NoDescriptorLeak' /\ AllClosedOnDelete'
<1> USE ConstantsAssumption
<1>t. TypeOK /\ FixedCells /\ Control /\ HolesWhere /\ SlotsAligned
  BY DEF TableInv
<1>1. CASE UNCHANGED vars
  <2>1. Live' = Live
    BY <1>1 DEF vars, Slots, Live
  <2> QED
    BY <1>1, <2>1 DEF vars, NoDescriptorLeak, AllClosedOnDelete
<1>2. CASE udtcp_start_server \/ udtcp_stop_server \/ LoopGoesOn \/ ThreadEnds \/ PollTimeout
           \/ ScanSkip \/ ScanReadable \/ ScanDone \/ ReceiveKeeps \/ CompactSkip \/ CompactDone
  <2>1. Live' = Live /\ open' = open /\ infos' = infos /\ pc # "deleted" /\ pc' # "deleted"
    BY <1>2 DEF udtcp_start_server, udtcp_stop_server, LoopGoesOn, ThreadEnds, PollTimeout,
       ScanSkip, ScanReadable, ScanDone, ReceiveKeeps, CompactSkip, CompactDone, ScanNext,
       Scanning, table, Slots, Live
  <2> QED
    BY <2>1, SocketsKept DEF AllClosedOnDelete
<1>3. CASE PollReady
  <2>1. \A j \in Cells : poll_fds'[j].fd = poll_fds[j].fd
    <3>1. PICK readable : poll_fds' = [j \in Cells |->
             IF j < poll_nfds THEN [poll_fds[j] EXCEPT !.pollin = (j \in readable)]
                              ELSE poll_fds[j]]
      BY <1>3 DEF PollReady
    <3>2. \A j \in Cells : poll_fds[j] \in PollFds
      BY <1>t DEF TypeOK
    <3> QED
      BY <3>1, <3>2 DEF PollFds
  <2>2. Slots' = Slots /\ Slots \subseteq Cells
    BY <1>3, <1>t DEF PollReady, Slots, Cells, TypeOK, TABLE_SIZE
  <2>3. Live' = Live
    BY <2>1, <2>2 DEF Live
  <2> QED
    BY <1>3, <2>3, SocketsKept DEF PollReady, AllClosedOnDelete
<1>4. CASE AcceptNone \/ AcceptRefused
  <2>1. Live' = Live /\ open' = open /\ pc # "deleted" /\ pc' # "deleted"
    BY <1>4 DEF AcceptNone, AcceptRefused, ScanNext, Slots, Live
  <2>2. \A j \in Live : j \in Cells /\ j # poll_nfds
    BY <1>t DEF Live, Slots, Cells, TypeOK, TABLE_SIZE
  <2>3. infos' = infos \/ \E fd : infos' = [infos EXCEPT ![poll_nfds].tcp_socket = fd]
    BY <1>4 DEF AcceptNone, AcceptRefused
  <2>4. \A j \in Live : infos'[j].tcp_socket = infos[j].tcp_socket
    BY <2>2, <2>3, <1>t DEF TypeOK
  <2> QED
    BY <2>1, <2>4, SocketsKept DEF AllClosedOnDelete
<1>5. CASE AcceptOverrun
  BY <1>5 DEF AcceptOverrun
<1>6. CASE AcceptOk
  <2>1. PICK fd \in Fds \ open :
          /\ infos' = [infos EXCEPT ![poll_nfds] =
                 [id |-> count_id, tcp_socket |-> fd, send |-> SendSlot]]
          /\ poll_fds' = [poll_fds EXCEPT ![poll_nfds].fd = fd]
          /\ open' = open \cup {fd}
    BY <1>6 DEF AcceptOk
  <2>2. poll_nfds \in Cells /\ poll_nfds \notin Live /\ Live \subseteq Cells
    BY <1>6, <1>t DEF AcceptOk, HasRoom, TypeOK, Cells, Live, Slots, TABLE_SIZE
  <2>3. Live' = Live \cup {poll_nfds}
    <3>1. Slots' = Slots \cup {poll_nfds} /\ Slots \subseteq Cells
      BY <1>6, <1>t DEF AcceptOk, HasRoom, TypeOK, Cells, Slots, TABLE_SIZE
    <3>2. \A j \in Slots : j # poll_nfds
      BY <1>t DEF Slots, TypeOK
    <3>3. poll_fds'[poll_nfds].fd = fd /\ fd # NoFd
      BY <2>1, <2>2, <1>t DEF TypeOK, PollFds, NoFd
    <3>4. \A j \in Slots : poll_fds'[j] = poll_fds[j]
      BY <2>1, <3>1, <3>2, <1>t DEF TypeOK
    <3> QED
      BY <3>1, <3>2, <3>3, <3>4 DEF Live
  <2>4. infos'[poll_nfds].tcp_socket = fd
    BY <2>1, <2>2, <1>t DEF TypeOK
  <2>5. \A j \in Live : infos'[j] = infos[j]
    BY <2>1, <2>2, <1>t DEF TypeOK
  <2>6. \A j \in Live : infos[j].tcp_socket # fd
    BY <1>6, <2>1 DEF NoDescriptorLeak, AcceptOk
  <2>7. pc # "deleted" /\ pc' # "deleted"
    BY <1>6 DEF AcceptOk, ScanNext
  <2>8. NoDescriptorLeak'
    BY <2>1, <2>3, <2>4, <2>5, <2>6, <2>7 DEF NoDescriptorLeak
  <2> QED
    BY <2>7, <2>8 DEF AllClosedOnDelete
<1>7. CASE ReceiveLost
  <2>1. pc = "receive" /\ pc' = "scan" /\ infos' = infos /\ i \in Slots
        /\ open' = open \ {infos[i].tcp_socket}
    BY <1>7, <1>t DEF ReceiveLost, ScanNext, Control, Closed
  <2>2. i \in Live /\ Live' = Live \ {i}
    <3>1. Slots' = Slots /\ Slots \subseteq Cells
      BY <1>7, <1>t DEF ReceiveLost, Slots, Cells, TypeOK, TABLE_SIZE
    <3>2. i \in Live
      BY <2>1, <3>1, <1>t DEF HolesWhere, Live, Slots
    <3>3. poll_fds'[i].fd = NoFd
      BY <1>7, <2>1, <3>1, <1>t DEF ReceiveLost, TypeOK, PollFds
    <3>4. \A j \in Slots : j # i => poll_fds'[j] = poll_fds[j]
      BY <1>7, <2>1, <3>1, <1>t DEF ReceiveLost, TypeOK
    <3> QED
      BY <3>1, <3>2, <3>3, <3>4 DEF Live
  <2>3. infos[i].tcp_socket \notin OwnSockets
    BY <2>2, <1>t DEF SlotsAligned, FixedCells
  <2>4. NoDescriptorLeak'
    BY <2>1, <2>2, <2>3 DEF NoDescriptorLeak
  <2> QED
    BY <2>1, <2>4 DEF AllClosedOnDelete
<1>8. CASE CompactStep
  <2>1. open' = open /\ pc # "deleted" /\ pc' # "deleted"
    BY <1>8, CompactionMap DEF CompactStep
  <2>2. {infos'[j].tcp_socket : j \in Live'} = {infos[j].tcp_socket : j \in Live}
    <3>1. \A j \in Live' : From(j) \in Live /\ infos'[j] = infos[From(j)]
      BY <1>8, CompactionMap
    <3>2. \A k \in Live : \E j \in Live' : infos'[j] = infos[k]
      <4> SUFFICES ASSUME NEW k \in Live PROVE \E j \in Live' : infos'[j] = infos[k]
        OBVIOUS
      <4>1. PICK j \in Slots' : From(j) = k
        BY <1>8, CompactionMap
      <4> QED
        BY <1>8, <4>1, CompactionMap
    <3> QED
      BY <3>1, <3>2
  <2>3. \A j, k \in Live' : infos'[j].tcp_socket = infos'[k].tcp_socket => j = k
    <3> SUFFICES ASSUME NEW j \in Live', NEW k \in Live',
                        infos'[j].tcp_socket = infos'[k].tcp_socket, j # k
                 PROVE  FALSE
      OBVIOUS
    <3>1. j \in Slots' /\ k \in Slots' /\ From(j) \in Live /\ From(k) \in Live
          /\ From(j) \in Int /\ From(k) \in Int /\ j \in Int /\ k \in Int
          /\ infos'[j] = infos[From(j)] /\ infos'[k] = infos[From(k)]
      BY <1>8, CompactionMap
    <3>2. From(j) = From(k)
      BY <3>1, <2>1 DEF NoDescriptorLeak
    <3>3. (j < k => From(j) < From(k)) /\ (k < j => From(k) < From(j))
      BY <3>1, <1>8, CompactionMap
    <3> QED
      BY <3>1, <3>2, <3>3
  <2> QED
    BY <2>1, <2>2, <2>3 DEF NoDescriptorLeak, AllClosedOnDelete
<1>9. CASE udtcp_delete_server
  <2>1. {poll_fds[j].fd : j \in Live} = {infos[j].tcp_socket : j \in Live}
    BY <1>t DEF SlotsAligned
  <2>2. open' = {}
    BY <1>9, <2>1 DEF udtcp_delete_server, ClosedOnDelete, NoDescriptorLeak
  <2> QED
    BY <1>9, <2>2 DEF udtcp_delete_server, NoDescriptorLeak, AllClosedOnDelete
<1> QED
  BY <1>1, <1>2, <1>3, <1>4, <1>5, <1>6, <1>7, <1>8, <1>9 DEF Next

\* Over any life of a server whose peers keep to the exchange, the kernel
\* holds its own sockets and one per live client, and none once it is deleted.
THEOREM DescriptorsAccounted ==
  ASSUME MemcpyAscending, PeerFds = {}
  PROVE  Spec => [](NoDescriptorLeak /\ AllClosedOnDelete)
<1>1. Init => NoDescriptorLeak /\ AllClosedOnDelete
  <2>1. ASSUME Init PROVE Live = {}
    BY <2>1 DEF Init, Slots, Live
  <2> QED
    BY <2>1 DEF Init, NoDescriptorLeak, AllClosedOnDelete
<1>2. TableInv /\ NoDescriptorLeak /\ AllClosedOnDelete /\ [Next]_vars
        => (NoDescriptorLeak /\ AllClosedOnDelete)'
  BY SocketStep
<1> QED
  BY <1>1, <1>2, TableInvariant, PTL DEF Spec

\* udtcp_delete_server leaves no socket open, and before it only the sockets
\* in use are.
THEOREM DeleteClosesAll ==
  ASSUME MemcpyAscending, PeerFds = {}
  PROVE  Spec => []AllClosedOnDelete
<1>1. NoDescriptorLeak /\ AllClosedOnDelete => AllClosedOnDelete
  OBVIOUS
<1> QED
  BY <1>1, DescriptorsAccounted, PTL
-----------------------------------------------------------------------------
\* The refinement of Sessions.

\* The application knows of no more connected ids than there are live cells.
LEMMA ConnectedFit ==
  ASSUME TableInv, pc # "deleted"
  PROVE  Contract!Cardinality(Contract!Connected) <= poll_nfds - 2
<1> DEFINE cellsOf == [j \in Live |-> infos[j].id]
<1>t. /\ poll_nfds \in 2..TABLE_SIZE /\ poll_nfds \in Int /\ TABLE_SIZE \in Int
      /\ SlotsAreSessions
  BY ConstantsAssumption DEF TableInv, TypeOK, TABLE_SIZE
<1>1. IsFiniteSet(Slots) /\ Cardinality(Slots) = poll_nfds - 2
  BY <1>t, FS_Interval DEF Slots
<1>2. IsFiniteSet(Live) /\ Cardinality(Live) <= poll_nfds - 2
  <2>1. Live \in SUBSET Slots
    BY DEF Live
  <2> QED
    BY <1>1, <2>1, FS_Subset
<1>3. cellsOf \in Surjection(Live, Contract!Connected)
  <2>1. \A j \in Live : infos[j].id \in Contract!Connected
    BY <1>t DEF SlotsAreSessions, Contract!Connected, Contract!Ids, Ids
  <2>2. \A k \in Contract!Connected : \E j \in Live : cellsOf[j] = k
    BY <1>t DEF SlotsAreSessions, Contract!Connected, Contract!Ids, Ids
  <2> QED
    BY <2>1, <2>2 DEF Surjection
<1>4. IsFiniteSet(Contract!Connected)
      /\ Cardinality(Contract!Connected) <= Cardinality(Live)
  <2> HIDE DEF cellsOf
  <2> QED
    BY <1>2, <1>3, FS_Surjection
<1>5. Cardinality(Contract!Connected) \in Nat /\ Cardinality(Live) \in Nat
  BY <1>2, <1>4, FS_CardinalityType
<1>6. Contract!Cardinality(Contract!Connected) = Cardinality(Contract!Connected)
  BY DEF Contract!Cardinality, Cardinality
<1> QED
  BY <1>t, <1>2, <1>4, <1>5, <1>6

\* accept_client announces the next id, and there is room for it.
LEMMA AcceptIsConnect ==
  ASSUME TableInv, AcceptOk
  PROVE  Contract!Connect(count_id) /\ count_id \in Contract!Ids
<1> USE ConstantsAssumption
<1>t. /\ pc = "accept" /\ poll_nfds < TABLE_SIZE /\ count_id \in Ids
      /\ session \in [Ids -> {"none", "connected", "closed", "broken"}]
      /\ session' = [session EXCEPT ![count_id] = OnConnect(@)]
      /\ poll_nfds \in Int
  BY DEF TableInv, TypeOK, AcceptOk, HasRoom, Ids, TABLE_SIZE
<1>1. session[count_id] = "none" /\ \A l \in 1..(count_id - 1) : session[l] # "none"
  BY <1>t DEF TableInv, IdsOrdered, Ids
<1>2. session' = [session EXCEPT ![count_id] = "connected"]
  BY <1>t, <1>1 DEF OnConnect
<1>3. Contract!Cardinality(Contract!Connected) <= poll_nfds - 2
  BY <1>t, ConnectedFit
<1>4. Contract!Cardinality(Contract!Connected) \in Int
  <2>1. Contract!Connected \in SUBSET (1..MaxId)
    BY DEF Contract!Connected, Contract!Ids
  <2>2. IsFiniteSet(1..MaxId)
    BY FS_Interval
  <2>3. Cardinality(Contract!Connected) \in Nat
    BY <2>1, <2>2, FS_Subset, FS_CardinalityType
  <2> QED
    BY <2>3 DEF Contract!Cardinality, Cardinality
<1>5. Contract!Cardinality(Contract!Connected) < MAX_CONNECTION
  BY <1>t, <1>3, <1>4 DEF TABLE_SIZE
<1> QED
  BY <1>t, <1>1, <1>2, <1>5 DEF Contract!Connect, Contract!Ids, Ids

\* A lost client is one that is connected, and its id is withdrawn.
LEMMA LostIsDisconnect ==
  ASSUME TableInv, ReceiveLost
  PROVE  Contract!Disconnect(infos[i].id) /\ infos[i].id \in Contract!Ids
<1>1. pc = "receive" /\ i \in Slots /\ session' = [session EXCEPT ![infos[i].id] = OnDisconnect(@)]
  BY DEF ReceiveLost, TableInv, Control
<1>2. i \in Live
  <2>1. i \in Int
    BY <1>1, ConstantsAssumption DEF TableInv, TypeOK, Slots, TABLE_SIZE
  <2> QED
    BY <1>1, <2>1 DEF TableInv, HolesWhere, Live
<1>3. infos[i].id \in Ids /\ session[infos[i].id] = "connected"
  BY <1>1, <1>2 DEF TableInv, SlotsAreSessions
<1>4. session \in [Ids -> {"none", "connected", "closed", "broken"}]
  BY DEF TableInv, TypeOK
<1> QED
  BY <1>1, <1>3, <1>4 DEF OnDisconnect, Contract!Disconnect, Contract!Ids, Ids

\* A deletion withdraws exactly the ids that are still connected.
LEMMA DeleteIsShutdown ==
  ASSUME TableInv, udtcp_delete_server
  PROVE  Contract!Shutdown
<1>t. /\ pc = "stopped" /\ session' = SessionsAfterDelete /\ SlotsAreSessions
      /\ session \in [Ids -> {"none", "connected", "closed", "broken"}]
  BY DEF udtcp_delete_server, TableInv, TypeOK
<1>1. ASSUME NEW k \in Ids
      PROVE  session'[k] = IF session[k] = "connected" THEN "closed" ELSE session[k]
  <2> DEFINE cells == {j \in Live : infos[j].id = k}
  <2>1. session'[k] = IF cells = {} THEN session[k]
                      ELSE IF \E j \in cells : cells = {j} THEN OnDisconnect(session[k])
                      ELSE "broken"
    BY <1>t DEF SessionsAfterDelete
  <2>2. CASE session[k] = "connected"
    <3>1. PICK j \in Live : infos[j].id = k
      BY <1>t, <2>2 DEF SlotsAreSessions
    <3>2. \A l \in Live : infos[l].id = k => l = j
      <4>1. \A l \in Slots : l \in Int /\ infos[l].id \in Nat
        BY ConstantsAssumption DEF TableInv, TypeOK, Infos, Slots, Cells, TABLE_SIZE
      <4>2. Live \subseteq Slots
        BY DEF Live
      <4> QED
        BY <1>t, <3>1, <4>1, <4>2 DEF SlotsAreSessions
    <3>3. cells = {j} /\ j \in cells
      BY <3>1, <3>2
    <3> QED
      BY <2>1, <2>2, <3>3 DEF OnDisconnect
  <2>3. CASE session[k] # "connected"
    <3>1. cells = {}
      BY <1>t, <2>3 DEF SlotsAreSessions
    <3> QED
      BY <2>1, <2>3, <3>1
  <2> QED
    BY <2>2, <2>3
<1>2. session' = [k \in Ids |-> session'[k]]
  BY <1>t DEF SessionsAfterDelete
<1> QED
  BY <1>1, <1>2 DEF Contract!Shutdown, Contract!Ids, Ids

\* Every step of the server is a step of the contract, or none of its business.
LEMMA SessionsStep ==
  ASSUME TableInv, [Next]_vars
  PROVE  [Contract!Next]_session
<1>1. CASE AcceptOk
  BY <1>1, AcceptIsConnect DEF Contract!Next
<1>2. CASE ReceiveLost
  BY <1>2, LostIsDisconnect DEF Contract!Next
<1>3. CASE udtcp_delete_server
  BY <1>3, DeleteIsShutdown DEF Contract!Next
<1>4. CASE UNCHANGED vars
  BY <1>4 DEF vars
<1>5. CASE \/ udtcp_start_server \/ udtcp_stop_server \/ LoopGoesOn \/ ThreadEnds
           \/ PollReady \/ PollTimeout \/ ScanSkip \/ ScanReadable \/ ScanDone
           \/ AcceptNone \/ AcceptRefused \/ AcceptOverrun
           \/ ReceiveKeeps \/ CompactStep \/ CompactSkip \/ CompactDone
  BY <1>5 DEF udtcp_start_server, udtcp_stop_server, LoopGoesOn, ThreadEnds, PollReady,
     PollTimeout, ScanSkip, ScanReadable, ScanDone, AcceptNone, AcceptRefused,
     AcceptOverrun, ReceiveKeeps, CompactStep, CompactSkip, CompactDone, table
<1> QED
  BY <1>1, <1>2, <1>3, <1>4, <1>5 DEF Next

\* The server keeps the contract of module Sessions: ids are announced in
\* order, once each, withdrawn at most once, and never more of them are
\* connected than the table holds, whatever the peers send.
THEOREM SessionsImplemented ==
  ASSUME MemcpyAscending
  PROVE  Spec => ImplementsSessions
<1>1. Init => Contract!Init
  BY DEF Init, Contract!Init, Contract!Ids, Ids
<1>2. TableInv /\ [Next]_vars => [Contract!Next]_session
  BY SessionsStep
<1> QED
  BY <1>1, <1>2, TableInvariant, PTL DEF Spec, ImplementsSessions, Contract!Spec
=============================================================================
