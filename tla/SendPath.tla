------------------------------ MODULE SendPath ------------------------------
(***************************************************************************)
(* udtcp_send_tcp and udtcp_send_udp (send.c) called by several threads of *)
(* a server's application, while the poll thread adds clients to the table *)
(* and compacts it.  A client is sent to through a pointer to its cell of  *)
(* infos[]; the cell points to one of the send structures (mutex, buffer). *)
(* Both pointers are followed again at every use, and the compaction moves *)
(* cells with their send pointer: after it a client that moved down and a  *)
(* newer one can share a structure.                                        *)
(*                                                                         *)
(* Cells and send structures are counted from 1 (index 2 in the code).     *)
(***************************************************************************)
EXTENDS Integers, Sequences

CONSTANTS
  Threads, NoThread,   \* threads that send; "none of them"
  MAX_CONNECTION,      \* UDTCP_MAX_CONNECTION
  MaxId,               \* bound on the clients that ever connect
  Sizes,               \* data_size of a call
  HDR,                 \* sizeof(uint32_t)
  Wrap,                \* 2^32: udtcp_new_buffer takes its size modulo this
  MaxCalls,            \* bound on the calls of a thread
  Churn,               \* which cells may be removed during a call:
                       \* "behind" the ones being sent to, or "any"
  Faults               \* subset of {"malloc", "partial"}

ASSUME SendPathAssumption ==
  /\ NoThread \notin Threads
  /\ MAX_CONNECTION \in Nat \ {0} /\ MaxId \in Nat /\ MaxCalls \in Nat
  /\ HDR \in Nat \ {0} /\ Wrap \in Nat \ {0}
  /\ Sizes \subseteq Nat
  /\ Churn \in {"behind", "any"}
  /\ Faults \subseteq {"malloc", "partial"}

Ids == 1..MaxId
Cells == 1..(MAX_CONNECTION + 1)    \* the last one is behind the array
Slots == 1..MAX_CONNECTION

VARIABLES
  infos,      \* cells: the client (its sockets) and the number of its send structure
  n,          \* number of clients: poll_nfds - 2
  joined,     \* number of clients that ever connected
  open,       \* clients whose socket is open
  sends,      \* mutex owner, buffer_size (0: buffer is NULL), bytes allocated, and
              \* the frame in the buffer
  pc,         \* where each thread is: "idle", "lock", "copy", "send", "unlock", or
              \* "dead" with its process
  cell,       \* the cell the pointer `infos' of a thread's call points to
  mutex,      \* the mutex a thread waits for
  call,       \* what the call is for: its number, receiver, size
  ret,        \* what the call will return
  wire        \* what was written to each client, in order

table == <<infos, n, joined, open>>
vars == <<table, sends, pc, cell, mutex, call, ret, wire>>

NoFrame == [by |-> NoThread, k |-> 0, to |-> 0, size |-> 0]
NoCell == [client |-> 0, send |-> 0]

Init ==
  /\ infos = [c \in Cells |-> NoCell]
  /\ n = 0 /\ joined = 0 /\ open = {}
  /\ sends = [s \in Slots |-> [owner |-> NoThread, buffer_size |-> 0,
                               bytes |-> 0, frame |-> NoFrame]]
  /\ pc = [t \in Threads |-> "idle"]
  /\ cell = [t \in Threads |-> 1]
  /\ mutex = [t \in Threads |-> 1]
  /\ call = [t \in Threads |-> [NoFrame EXCEPT !.by = t]]
  /\ ret = [t \in Threads |-> 0]
  /\ wire = [i \in Ids |-> <<>>]
-----------------------------------------------------------------------------
\* The poll thread.

HasRoomMutant == n <= MAX_CONNECTION
HasRoom == n < MAX_CONNECTION

Alive == \A t \in Threads : pc[t] # "dead"

\* accept_client: the next cell, and the send structure with its number.
Accept ==
  /\ Alive
  /\ HasRoom /\ joined < MaxId
  /\ infos' = [infos EXCEPT ![n + 1] = [client |-> joined + 1, send |-> n + 1]]
  /\ n' = n + 1
  /\ joined' = joined + 1
  /\ open' = open \cup {joined + 1}
  /\ UNCHANGED <<sends, pc, cell, mutex, call, ret, wire>>

Busy(t) == pc[t] \notin {"idle", "dead"}

\* The cells from j on are moved down over cell j.
Shift(j) ==
  [c \in Cells |-> IF j < n /\ c \in j..n THEN infos[c + 1] ELSE infos[c]]

\* disconnect() of the client in cell j, and the compaction.
Leave(j) ==
  /\ Alive
  /\ j \in 1..n
  /\ Churn = "behind" => \A t \in Threads : Busy(t) => cell[t] < j
  /\ open' = open \ {infos[j].client}
  /\ infos' = Shift(j)
  /\ n' = n - 1
  /\ UNCHANGED <<joined, sends, pc, cell, mutex, call, ret, wire>>
-----------------------------------------------------------------------------
\* udtcp_send_tcp, udtcp_send_udp of thread t.

Goes(t, from, to) ==
  /\ pc[t] = from
  /\ pc' = [pc EXCEPT ![t] = to]

\* Thread t is between its lock and its unlock.
Inside(t) == pc[t] \in {"copy", "send", "unlock"}

\* The send structure the call uses now; NULL in a cell no client ever filled.
Send(t) == infos[cell[t]].send
Usable(t) == Send(t) \in Slots

\* The call follows a NULL pointer: that of the send structure, or, with no
\* data to copy, that of a buffer no call has needed yet (0 < 0 is false).
FollowsNull(t) ==
  /\ Inside(t)
  /\ Usable(t) => pc[t] = "copy" /\ call[t].size = 0 /\ sends[Send(t)].buffer_size = 0

\* That ends the process, with all its threads.
Crashes(t) ==
  /\ FollowsNull(t)
  /\ pc' = [u \in Threads |-> "dead"]
  /\ UNCHANGED <<table, sends, cell, mutex, call, ret, wire>>

\* The call: &(infos->send->mutex) is evaluated.
SendBegins(t) ==
  /\ Goes(t, "idle", "lock")
  /\ call[t].k < MaxCalls
  /\ \E j \in 1..n, m \in Sizes :
       /\ cell' = [cell EXCEPT ![t] = j]
       /\ mutex' = [mutex EXCEPT ![t] = infos[j].send]
       /\ call' = [call EXCEPT ![t] = [by |-> t, k |-> @.k + 1,
                                       to |-> infos[j].client, size |-> m]]
  /\ UNCHANGED <<table, sends, ret, wire>>

FreeMutant(s) == TRUE
Free(s) == sends[s].owner = NoThread

\* pthread_mutex_lock returns.
Locks(t) ==
  /\ Goes(t, "lock", "copy")
  /\ Free(mutex[t])
  /\ sends' = [sends EXCEPT ![mutex[t]].owner = t]
  /\ UNCHANGED <<table, cell, mutex, call, ret, wire>>

\* What buffer_copy leaves in a send structure for call c.
AllocatedUnframed(m) == m % Wrap
Allocated(m) == (m + HDR) % Wrap
CopiedUnkept(s, c) ==
  IF sends[s].buffer_size < c.size
    THEN [sends[s] EXCEPT !.bytes = Allocated(c.size), !.frame = c]
    ELSE [sends[s] EXCEPT !.frame = c]
Copied(s, c) ==
  IF sends[s].buffer_size < c.size
    THEN [sends[s] EXCEPT !.buffer_size = c.size, !.bytes = Allocated(c.size),
                          !.frame = c]
    ELSE [sends[s] EXCEPT !.frame = c]

Copies(t) ==
  /\ ~FollowsNull(t)
  /\ Goes(t, "copy", "send")
  /\ sends' = [sends EXCEPT ![Send(t)] = Copied(Send(t), call[t])]
  /\ UNCHANGED <<table, cell, mutex, call, ret, wire>>

UnlockForgotten(t) == UNCHANGED sends
Unlock(t) == sends' = [sends EXCEPT ![Send(t)].owner = NoThread]

\* The new buffer cannot be allocated: the call returns 0.
CopyFails(t) ==
  /\ "malloc" \in Faults
  /\ Usable(t)
  /\ sends[Send(t)].buffer_size < call[t].size
  /\ Goes(t, "copy", "idle")
  /\ Unlock(t)
  /\ ret' = [ret EXCEPT ![t] = 0]
  /\ UNCHANGED <<table, cell, mutex, call, wire>>

\* What is written when call c sends the first b bytes of the buffer of s.
Piece(s, c, b) == [call |-> c, frame |-> sends[s].frame, bytes |-> b]

\* send() or sendto() takes all bytes, or (TCP, and the socket's buffer is
\* nearly full) the first ones.
Sends(t) ==
  /\ ~FollowsNull(t)
  /\ Goes(t, "send", "unlock")
  /\ infos[cell[t]].client \in open /\ sends[Send(t)].buffer_size # 0
  /\ \E b \in IF "partial" \in Faults THEN 1..(call[t].size + HDR)
                                      ELSE {call[t].size + HDR} :
       /\ wire' = [wire EXCEPT ![infos[cell[t]].client] =
                     Append(@, Piece(Send(t), call[t], b))]
       /\ ret' = [ret EXCEPT ![t] = b]
  /\ UNCHANGED <<table, sends, cell, mutex, call>>

\* send() returns -1: the socket is closed or its buffer is full, or the buffer
\* of the structure the cell has now is NULL (EFAULT).
SendFails(t) ==
  /\ ~FollowsNull(t)
  /\ Goes(t, "send", "unlock")
  /\ \/ infos[cell[t]].client \notin open
     \/ "partial" \in Faults
     \/ sends[Send(t)].buffer_size = 0
  /\ ret' = [ret EXCEPT ![t] = -1]
  /\ UNCHANGED <<table, sends, cell, mutex, call, wire>>

Unlocks(t) ==
  /\ ~FollowsNull(t)
  /\ Goes(t, "unlock", "idle")
  /\ Unlock(t)
  /\ UNCHANGED <<table, cell, mutex, call, ret, wire>>
-----------------------------------------------------------------------------
Thread(t) ==
  \/ Locks(t) \/ Copies(t) \/ CopyFails(t) \/ Sends(t) \/ SendFails(t) \/ Unlocks(t)
  \/ Crashes(t)

Next ==
  \/ Accept
  \/ \E j \in Slots : Leave(j)
  \/ \E t \in Threads :
       \/ SendBegins(t) \/ Locks(t) \/ Copies(t) \/ CopyFails(t)
       \/ Sends(t) \/ SendFails(t) \/ Unlocks(t) \/ Crashes(t)

\* A call that has begun is scheduled; no thread has to call.
Spec == Init /\ [][Next]_vars /\ \A t \in Threads : WF_vars(Thread(t))
-----------------------------------------------------------------------------
\* Correctness.

Frames == [by : Threads \cup {NoThread}, k : 0..MaxCalls,
           to : {0} \cup Ids, size : {0} \cup Sizes]
Structures == [owner : Threads \cup {NoThread}, buffer_size : {0} \cup Sizes,
               bytes : 0..(Wrap - 1), frame : Frames]
Pieces == [call : Frames, frame : Frames, bytes : Nat]
TableCells == [client : {0} \cup Ids, send : {0} \cup Slots]

TypeOK ==
  /\ infos \in [Cells -> TableCells]
  /\ n \in 0..MAX_CONNECTION /\ joined \in 0..MaxId /\ open \subseteq Ids
  /\ sends \in [Slots -> Structures]
  /\ pc \in [Threads -> {"idle", "lock", "copy", "send", "unlock", "dead"}]
  /\ cell \in [Threads -> Slots]
  /\ mutex \in [Threads -> Slots]
  /\ call \in [Threads -> Frames]
  /\ ret \in [Threads -> Int]
  /\ wire \in [Ids -> Seq(Pieces)]

\* Two calls between lock and unlock (send.c:67-78, 88-101) never use the same
\* send structure, even when two clients share one after a compaction.
MutualExclusion ==
  \A t, u \in Threads : t # u /\ Inside(t) /\ Inside(u) => Send(t) # Send(u)

\* What reaches a client was sent to it, and is the data of the call that
\* wrote it: no call writes the frame of another (send.c:71-77, 92-100).
SentToReceiver ==
  \A c \in Ids : \A i \in 1..Len(wire[c]) :
    wire[c][i].frame = wire[c][i].call /\ wire[c][i].call.to = c

\* The buffer holds the header and the data that buffer_copy put there
\* (send.c:38-57), also when it was allocated for an earlier, larger call or
\* the call has no data: no header is ever in a structure without a buffer.
FrameFits ==
  \A s \in Slots :
    sends[s].frame # NoFrame => sends[s].frame.size + HDR <= sends[s].bytes

\* Every call returns, whatever fails in it, if the process lives: no path keeps
\* the mutex (send.c:71-79, 92-102).
CallsReturn == \A t \in Threads : pc[t] = "lock" ~> pc[t] = "idle" \/ ~Alive

\* A call ends the process only if it has no data and no call with data has come
\* through on its structure: then the header is copied to a NULL pointer
\* (send.c:38, 56), which does happen.  No other call follows one, whatever the
\* table did, and once there is a frame in a structure no call does any more.
OnlyFirstEmptyCallsCrash ==
  Alive \/ \E t \in Threads :
             /\ Usable(t) /\ call[t].size = 0
             /\ sends[Send(t)].frame = NoFrame
=============================================================================
