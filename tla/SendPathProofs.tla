-------------------------- MODULE SendPathProofs --------------------------
(***************************************************************************)
(* Proofs about SendPath, for any number of threads, cells and clients,    *)
(* when no client at or before the one a call sends to leaves during the   *)
(* call (Churn = "behind").                                                *)
(***************************************************************************)
EXTENDS SendPath, TLAPS

\* The live cells hold clients with a send structure of the array.
CellsFilled == \A j \in 1..n : infos[j].client \in Ids /\ infos[j].send \in Slots

\* A call under way still points to its receiver and waits for, or holds, the
\* mutex of the structure it uses.
CallsAim ==
  \A t \in Threads : Busy(t) =>
    /\ cell[t] \in 1..n
    /\ infos[cell[t]].client = call[t].to
    /\ mutex[t] = Send(t)
    /\ Inside(t) => sends[Send(t)].owner = t

\* Between copy and send the buffer holds the call's own frame.
FrameIsOwn == \A t \in Threads : pc[t] = "send" => sends[Send(t)].frame = call[t]

SendInv == TypeOK /\ CellsFilled /\ CallsAim /\ FrameIsOwn /\ SentToReceiver

\* No call is under way at first.
LEMMA SendInit == Init => SendInv
<1> SUFFICES ASSUME Init PROVE SendInv
  OBVIOUS
<1> USE SendPathAssumption
<1>1. TypeOK
  <2>1. NoFrame \in Frames /\ \A t \in Threads : [NoFrame EXCEPT !.by = t] \in Frames
    BY DEF NoFrame, Frames
  <2>2. QED
    BY <2>1 DEF Init, TypeOK, NoCell, TableCells, Structures, Cells, Slots, Ids
<1>2. CellsFilled /\ CallsAim /\ FrameIsOwn /\ SentToReceiver
  BY DEF Init, CellsFilled, CallsAim, FrameIsOwn, SentToReceiver, Busy, Ids
<1>3. QED
  BY <1>1, <1>2 DEF SendInv

\* The size of a frame is one that is sent, or 0 for the empty buffer.
LEMMA FrameSizes == \A f \in Frames : f.size \in {0} \cup Sizes /\ f.size \in Nat
<1> SUFFICES ASSUME NEW f \in Frames PROVE f.size \in {0} \cup Sizes /\ f.size \in Nat
  OBVIOUS
<1>1. f.size \in {0} \cup Sizes
  BY DEF Frames
<1>2. Sizes \subseteq Nat /\ 0 \in Nat
  BY SendPathAssumption
<1>3. f.size \in Nat
  <2>1. CASE f.size = 0
    BY <2>1
  <2>2. CASE f.size \in Sizes
    BY <1>2, <2>2
  <2>3. QED
    BY <1>1, <2>1, <2>2
<1>4. QED
  BY <1>1, <1>3

\* Two calls inside hold the mutexes of their structures, so these differ.
LEMMA HoldersDiffer == SendInv => MutualExclusion
  BY DEF SendInv, CallsAim, MutualExclusion, Inside, Busy

\* A call inside that does not follow a NULL pointer has a send structure.
LEMMA NotNull ==
  ASSUME NEW t \in Threads, Inside(t), ~FollowsNull(t)
  PROVE  Usable(t)
  BY DEF FollowsNull

\* The process ends: no call is under way any more.
LEMMA CrashStep ==
  ASSUME NEW t \in Threads, SendInv, Crashes(t)
  PROVE  SendInv'
<1>1. /\ pc' = [u \in Threads |-> "dead"]
      /\ UNCHANGED <<table, sends, cell, mutex, call, ret, wire>>
  BY DEF Crashes
<1>2. TypeOK'
  BY <1>1 DEF SendInv, TypeOK, table
<1>3. CellsFilled' /\ SentToReceiver'
  BY <1>1 DEF SendInv, CellsFilled, SentToReceiver, table
<1>4. CallsAim' /\ FrameIsOwn'
  BY <1>1 DEF CallsAim, FrameIsOwn, Busy
<1>5. QED
  BY <1>2, <1>3, <1>4 DEF SendInv

\* The steps of the poll thread.
LEMMA AcceptStep == SendInv /\ Accept => SendInv'
<1> SUFFICES ASSUME SendInv, Accept PROVE SendInv'
  OBVIOUS
<1> USE SendPathAssumption
<1>1. TypeOK'
  <2>1. [client |-> joined + 1, send |-> n + 1] \in TableCells /\ n + 1 \in Cells
    BY DEF SendInv, TypeOK, Accept, HasRoom, TableCells, Cells, Slots, Ids
  <2>2. infos' \in [Cells -> TableCells]
    BY <2>1 DEF SendInv, TypeOK, Accept
  <2>3. n' \in 0..MAX_CONNECTION /\ joined' \in 0..MaxId /\ open' \subseteq Ids
    BY DEF SendInv, TypeOK, Accept, HasRoom, Ids
  <2>4. QED
    BY <2>2, <2>3 DEF SendInv, TypeOK, Accept
<1>2. CellsFilled'
  BY DEF SendInv, TypeOK, CellsFilled, Accept, HasRoom, Cells, Slots, Ids
<1>3. \A j \in 1..n : infos'[j] = infos[j]
  BY DEF SendInv, TypeOK, Accept, Cells
<1>4. CallsAim'
  BY <1>3 DEF SendInv, TypeOK, CallsAim, Accept, Busy, Inside, Send
<1>5. FrameIsOwn'
  <2>1. \A t \in Threads : pc[t] = "send" => cell[t] \in 1..n
    BY DEF SendInv, CallsAim, Busy
  <2>2. QED
    BY <1>3, <2>1 DEF SendInv, FrameIsOwn, Accept, Send
<1>6. SentToReceiver'
  BY DEF SendInv, SentToReceiver, Accept
<1>7. QED
  BY <1>1, <1>2, <1>4, <1>5, <1>6 DEF SendInv

\* A client leaves behind those being sent to, and the table is compacted.
LEMMA LeaveStep ==
  ASSUME Churn = "behind", NEW j \in Slots, SendInv, Leave(j)
  PROVE  SendInv'
<1> USE SendPathAssumption
<1>1. TypeOK'
  <2>1. Shift(j) \in [Cells -> TableCells]
    BY DEF SendInv, TypeOK, Leave, Shift, Cells, Slots
  <2>2. n' \in 0..MAX_CONNECTION /\ open' \subseteq Ids
    BY DEF SendInv, TypeOK, Leave, Slots
  <2>3. QED
    BY <2>1, <2>2 DEF SendInv, TypeOK, Leave
<1>2. CellsFilled'
  BY DEF SendInv, TypeOK, CellsFilled, Leave, Shift, Cells, Slots
<1>3. \A t \in Threads : Busy(t) => cell[t] \in 1..(n - 1) /\ infos'[cell[t]] = infos[cell[t]]
  BY DEF SendInv, TypeOK, CallsAim, Leave, Shift, Cells, Slots
<1>4. CallsAim'
  BY <1>3 DEF SendInv, CallsAim, Leave, Busy, Inside, Send
<1>5. FrameIsOwn'
  BY <1>3 DEF SendInv, FrameIsOwn, Leave, Busy, Send
<1>6. SentToReceiver'
  BY DEF SendInv, SentToReceiver, Leave
<1>7. QED
  BY <1>1, <1>2, <1>4, <1>5, <1>6 DEF SendInv

\* The steps of a call.
LEMMA BeginStep ==
  ASSUME NEW t \in Threads, SendInv, SendBegins(t)
  PROVE  SendInv'
<1> USE SendPathAssumption
<1> PICK j \in 1..n, m \in Sizes :
       /\ cell' = [cell EXCEPT ![t] = j]
       /\ mutex' = [mutex EXCEPT ![t] = infos[j].send]
       /\ call' = [call EXCEPT ![t] = [by |-> t, k |-> call[t].k + 1,
                                       to |-> infos[j].client, size |-> m]]
  BY DEF SendBegins
<1>1. infos[j].client \in Ids /\ infos[j].send \in Slots /\ j \in Slots
  BY DEF SendInv, CellsFilled, TypeOK, Slots
<1>2. call' \in [Threads -> Frames]
  BY <1>1 DEF SendInv, TypeOK, SendBegins, Frames
<1>3. TypeOK'
  BY <1>1, <1>2 DEF SendInv, TypeOK, SendBegins, Goes, table
<1>4. CellsFilled' /\ SentToReceiver'
  BY DEF SendInv, CellsFilled, SentToReceiver, SendBegins, table
<1>5. CallsAim'
  BY <1>1 DEF SendInv, TypeOK, CallsAim, SendBegins, Goes, Busy, Inside, Send, table
<1>6. FrameIsOwn'
  BY DEF SendInv, TypeOK, FrameIsOwn, SendBegins, Goes, Send, table
<1>7. QED
  BY <1>3, <1>4, <1>5, <1>6 DEF SendInv

\* A call takes the mutex of its send structure.
LEMMA LockStep ==
  ASSUME NEW t \in Threads, SendInv, Locks(t)
  PROVE  SendInv'
<1> USE SendPathAssumption
<1>1. TypeOK'
  <2>1. [sends[mutex[t]] EXCEPT !.owner = t] \in Structures
    <3>1. sends[mutex[t]] \in Structures
      BY DEF SendInv, TypeOK
    <3>2. QED
      BY <3>1 DEF Structures
  <2>2. sends' \in [Slots -> Structures]
    BY <2>1 DEF SendInv, TypeOK, Locks
  <2>3. QED
    BY <2>2 DEF SendInv, TypeOK, Locks, Goes, table
<1>2. CellsFilled' /\ SentToReceiver'
  BY DEF SendInv, CellsFilled, SentToReceiver, Locks, table
<1>3. mutex[t] = Send(t) /\ mutex[t] \in Slots
  BY DEF SendInv, TypeOK, CallsAim, Locks, Goes, Busy
<1>4. \A u \in Threads : u # t /\ Inside(u) => Send(u) # mutex[t]
  <2>1. \A u \in Threads : Inside(u) => Busy(u)
    BY DEF Inside, Busy
  <2>2. sends[mutex[t]].owner = NoThread
    BY DEF Locks, Free
  <2>3. QED
    BY <2>1, <2>2 DEF SendInv, CallsAim
<1>5. CallsAim'
  BY <1>3, <1>4 DEF SendInv, TypeOK, CallsAim, Locks, Goes, Busy, Inside, Send, table
<1>6. FrameIsOwn'
  BY <1>3, <1>4 DEF SendInv, TypeOK, FrameIsOwn, Locks, Goes, Inside, Send, table
<1>7. QED
  BY <1>1, <1>2, <1>5, <1>6 DEF SendInv

\* buffer_copy writes the call's frame into the buffer it has locked.
LEMMA CopyStep ==
  ASSUME NEW t \in Threads, SendInv, Copies(t)
  PROVE  SendInv'
<1> USE SendPathAssumption
<1> DEFINE s == Send(t)
<1>1. s \in Slots /\ Inside(t) /\ call[t] \in Frames
  BY NotNull DEF SendInv, TypeOK, Copies, Usable, Goes, Inside
<1>2. /\ Copied(s, call[t]).owner = sends[s].owner
      /\ Copied(s, call[t]).frame = call[t]
  BY <1>1 DEF SendInv, TypeOK, Copied
<1>3. TypeOK'
  <2>1. call[t].size \in {0} \cup Sizes /\ Allocated(call[t].size) \in 0..(Wrap - 1)
    <3>1. call[t].size \in {0} \cup Sizes /\ call[t].size + HDR \in Nat
      BY <1>1, FrameSizes
    <3>2. \A x \in Nat : x % Wrap \in 0..(Wrap - 1)
      OBVIOUS
    <3>3. QED
      BY <3>1, <3>2 DEF Allocated
  <2>2. Copied(s, call[t]) \in Structures
    BY <1>1, <2>1 DEF SendInv, TypeOK, Copied, Structures
  <2>3. QED
    BY <1>1, <2>2 DEF SendInv, TypeOK, Copies, Goes, table
<1>4. CellsFilled' /\ SentToReceiver'
  BY DEF SendInv, CellsFilled, SentToReceiver, Copies, table
<1>5. \A x \in Slots : sends'[x].owner = sends[x].owner
  BY <1>1, <1>2 DEF SendInv, TypeOK, Copies
<1>6. CallsAim'
  BY <1>1, <1>5 DEF SendInv, TypeOK, CallsAim, CellsFilled, Copies, Goes, Busy, Inside, Send, table
<1>7. \A u \in Threads : u # t /\ pc[u] = "send" => Send(u) # s
  BY <1>1, HoldersDiffer DEF MutualExclusion, Inside
<1>8. FrameIsOwn'
  BY <1>1, <1>2, <1>7 DEF SendInv, TypeOK, FrameIsOwn, Copies, Goes, Send, table
<1>9. QED
  BY <1>3, <1>4, <1>6, <1>8 DEF SendInv

\* The call gives its mutex back, and returns.
LEMMA UnlockStep ==
  ASSUME NEW t \in Threads, SendInv, Inside(t), Usable(t), Unlock(t),
         pc' = [pc EXCEPT ![t] = "idle"], ret' \in [Threads -> Int],
         UNCHANGED <<table, cell, mutex, call, wire>>
  PROVE  SendInv'
<1> USE SendPathAssumption
<1>1. TypeOK'
  <2>1. [sends[Send(t)] EXCEPT !.owner = NoThread] \in Structures
    BY DEF SendInv, TypeOK, Usable, Structures
  <2>2. sends' \in [Slots -> Structures]
    BY <2>1 DEF SendInv, TypeOK, Unlock, Usable
  <2>3. QED
    BY <2>2 DEF SendInv, TypeOK, table
<1>2. CellsFilled' /\ SentToReceiver'
  BY DEF SendInv, CellsFilled, SentToReceiver, table
<1>3. \A u \in Threads : u # t /\ Inside(u) => Send(u) # Send(t)
  BY HoldersDiffer DEF MutualExclusion
<1>4. CallsAim'
  BY <1>3 DEF SendInv, TypeOK, CallsAim, Unlock, Usable, Busy, Inside, Send, table
<1>5. FrameIsOwn'
  BY <1>3 DEF SendInv, TypeOK, FrameIsOwn, Unlock, Usable, Inside, Send, table
<1>6. QED
  BY <1>1, <1>2, <1>4, <1>5 DEF SendInv

\* send() hands the frame to the socket of the cell.
LEMMA WriteStep ==
  ASSUME NEW t \in Threads, SendInv, Sends(t) \/ SendFails(t)
  PROVE  SendInv'
<1> USE SendPathAssumption
<1>1. /\ pc[t] = "send" /\ pc' = [pc EXCEPT ![t] = "unlock"]
      /\ UNCHANGED <<table, sends, cell, mutex, call>>
  BY DEF Sends, SendFails, Goes
<1>2. CellsFilled' /\ CallsAim' /\ FrameIsOwn'
  BY <1>1 DEF SendInv, TypeOK, CellsFilled, CallsAim, FrameIsOwn, Busy, Inside, Send, table
<1>3. TypeOK' /\ SentToReceiver'
  <2>1. CASE SendFails(t)
    <3>1. ret' = [ret EXCEPT ![t] = -1] /\ wire' = wire
      BY <2>1 DEF SendFails
    <3>2. SentToReceiver'
      BY <3>1 DEF SendInv, SentToReceiver
    <3>3. pc' \in [Threads -> {"idle", "lock", "copy", "send", "unlock", "dead"}]
      BY <1>1 DEF SendInv, TypeOK
    <3>4. ret' \in [Threads -> Int] /\ wire' \in [Ids -> Seq(Pieces)]
      BY <3>1 DEF SendInv, TypeOK
    <3>5. QED
      BY <1>1, <3>2, <3>3, <3>4 DEF SendInv, TypeOK, table
  <2>2. CASE Sends(t)
    <3> DEFINE c == infos[cell[t]].client
    <3>1. c = call[t].to /\ c \in Ids /\ Usable(t) /\ sends[Send(t)].frame = call[t]
      BY <1>1, <2>2, NotNull DEF SendInv, CallsAim, CellsFilled, FrameIsOwn, Busy, Inside, Sends
    <3>2. call[t] \in Frames /\ call[t].size \in Nat
      BY FrameSizes DEF SendInv, TypeOK
    <3>3. PICK b \in 1..(call[t].size + HDR) :
            /\ wire' = [wire EXCEPT ![c] = Append(@, Piece(Send(t), call[t], b))]
            /\ ret' = [ret EXCEPT ![t] = b]
      <4>1. call[t].size + HDR \in 1..(call[t].size + HDR)
        BY <3>2
      <4>2. CASE "partial" \in Faults
        BY <2>2, <4>2 DEF Sends
      <4>3. CASE "partial" \notin Faults
        BY <2>2, <4>1, <4>3 DEF Sends
      <4>4. QED
        BY <4>2, <4>3
    <3> DEFINE piece == Piece(Send(t), call[t], b)
    <3>4. /\ piece \in Pieces
          /\ piece.frame = piece.call /\ piece.call.to = c
      BY <3>1, <3>2 DEF Piece, Pieces
    <3>5. wire \in [Ids -> Seq(Pieces)]
      BY DEF SendInv, TypeOK
    <3> HIDE DEF piece, c
    <3>6. TypeOK'
      <4>1. wire' \in [Ids -> Seq(Pieces)]
        <5>1. Append(wire[c], piece) \in Seq(Pieces)
          BY <3>1, <3>4, <3>5
        <5>2. QED
          BY <3>1, <3>3, <3>5, <5>1 DEF piece
      <4>2. ret' \in [Threads -> Int]
        BY <3>2, <3>3 DEF SendInv, TypeOK
      <4>3. QED
        BY <1>1, <4>1, <4>2 DEF SendInv, TypeOK, table
    <3>7. SentToReceiver'
      <4> SUFFICES ASSUME NEW d \in Ids, NEW i \in 1..Len(wire'[d])
                   PROVE  wire'[d][i].frame = wire'[d][i].call /\ wire'[d][i].call.to = d
        BY DEF SentToReceiver
      <4>1. CASE d # c
        BY <3>1, <3>3, <3>5, <4>1 DEF SendInv, SentToReceiver
      <4>2. CASE d = c
        <5>1. wire'[d] = Append(wire[d], piece)
          BY <3>1, <3>3, <3>5, <4>2 DEF piece
        <5>2. CASE i = Len(wire[d]) + 1
          BY <3>4, <3>5, <4>2, <5>1, <5>2
        <5>3. CASE i # Len(wire[d]) + 1
          <6>1. i \in 1..Len(wire[d]) /\ wire'[d][i] = wire[d][i]
            BY <3>4, <3>5, <5>1, <5>3
          <6>2. QED
            BY <6>1 DEF SendInv, SentToReceiver
        <5>4. QED
          BY <5>2, <5>3
      <4>3. QED
        BY <4>1, <4>2
    <3>8. QED
      BY <3>6, <3>7
  <2>3. QED
    BY <2>1, <2>2
<1>4. QED
  BY <1>2, <1>3 DEF SendInv

\* Every step preserves SendInv.
LEMMA SendStep ==
  ASSUME Churn = "behind"
  PROVE  SendInv /\ [Next]_vars => SendInv'
<1> SUFFICES ASSUME SendInv, [Next]_vars PROVE SendInv'
  OBVIOUS
<1>1. CASE Accept
  BY <1>1, AcceptStep
<1>2. CASE \E j \in Slots : Leave(j)
  BY <1>2, LeaveStep
<1>3. ASSUME NEW t \in Threads, SendBegins(t) \/ Locks(t) \/ Copies(t)
      PROVE  SendInv'
  BY <1>3, BeginStep, LockStep, CopyStep
<1>4. ASSUME NEW t \in Threads, CopyFails(t) PROVE SendInv'
  <2>1. Inside(t) /\ Usable(t) /\ ret' \in [Threads -> Int]
    BY <1>4 DEF CopyFails, Goes, Inside, SendInv, TypeOK
  <2>2. QED
    BY <1>4, <2>1, UnlockStep DEF CopyFails, Goes
<1>5. ASSUME NEW t \in Threads, Unlocks(t) PROVE SendInv'
  <2>1. Inside(t) /\ Usable(t) /\ ret' \in [Threads -> Int]
    BY <1>5, NotNull DEF Unlocks, Goes, Inside, SendInv, TypeOK
  <2>2. QED
    BY <1>5, <2>1, UnlockStep DEF Unlocks, Goes
<1>6. ASSUME NEW t \in Threads, Sends(t) \/ SendFails(t) PROVE SendInv'
  BY <1>6, WriteStep
<1>7. ASSUME NEW t \in Threads, Crashes(t) PROVE SendInv'
  BY <1>7, CrashStep
<1>8. CASE UNCHANGED vars
  BY <1>8 DEF SendInv, TypeOK, CellsFilled, CallsAim, FrameIsOwn, SentToReceiver,
              Busy, Inside, Send, vars, table
<1>9. QED
  BY <1>1, <1>2, <1>3, <1>4, <1>5, <1>6, <1>7, <1>8 DEF Next

\* While nobody leaves in front of it, a call keeps its receiver, its structure
\* and its mutex, whatever else happens to the table.
THEOREM SendInvariant == (Churn = "behind") => (Spec => []SendInv)
<1> SUFFICES ASSUME Churn = "behind" PROVE Spec => []SendInv
  OBVIOUS
<1>1. Init => SendInv
  BY SendInit
<1>2. SendInv /\ [Next]_vars => SendInv'
  BY SendStep
<1>3. QED
  BY <1>1, <1>2, PTL DEF Spec

\* Every variable keeps its type: no cell behind the array is ever in use.
THEOREM SendTypeCorrect == (Churn = "behind") => (Spec => []TypeOK)
<1> SUFFICES ASSUME Churn = "behind" PROVE Spec => []TypeOK
  OBVIOUS
<1>1. SendInv => TypeOK
  BY DEF SendInv
<1>2. QED
  BY <1>1, SendInvariant, PTL

\* Two calls never use one send structure at a time (send.c:67-78, 88-101).
THEOREM SendsExclude == (Churn = "behind") => (Spec => []MutualExclusion)
<1> SUFFICES ASSUME Churn = "behind" PROVE Spec => []MutualExclusion
  OBVIOUS
<1>1. SendInv => MutualExclusion
  BY HoldersDiffer
<1>2. QED
  BY <1>1, SendInvariant, PTL

\* What a client is sent was meant for it, and is the sender's own frame
\* (send.c:71-77, 92-100).
THEOREM SendsArrive == (Churn = "behind") => (Spec => []SentToReceiver)
<1> SUFFICES ASSUME Churn = "behind" PROVE Spec => []SentToReceiver
  OBVIOUS
<1>1. SendInv => SentToReceiver
  BY DEF SendInv
<1>2. QED
  BY <1>1, SendInvariant, PTL

\* Sizes that udtcp_new_buffer's argument can hold together with the header.
SizesFit == \A m \in Sizes : m + HDR < Wrap

\* A call has a size; a buffer was allocated for the largest frame it held.
BufferInv ==
  /\ \A t \in Threads : Busy(t) => call[t].size \in Sizes
  /\ \A s \in Slots :
       \/ sends[s].frame = NoFrame
       \/ /\ sends[s].bytes = sends[s].buffer_size + HDR
          /\ sends[s].frame.size <= sends[s].buffer_size
  /\ \A s \in Slots : sends[s].buffer_size # 0 =>
       sends[s].bytes = sends[s].buffer_size + HDR

\* Every step preserves BufferInv.
LEMMA BufferStep ==
  ASSUME SizesFit, SendInv, BufferInv, [Next]_vars
  PROVE  BufferInv'
<1> USE SendPathAssumption
<1>1. ASSUME UNCHANGED sends,
             \A t \in Threads : Busy(t)' => call'[t].size \in Sizes
      PROVE  BufferInv'
  BY <1>1 DEF BufferInv
<1>2. ASSUME NEW u \in Threads, SendBegins(u) PROVE BufferInv'
  <2>1. PICK m \in Sizes, j \in 1..n :
          call' = [call EXCEPT ![u] = [by |-> u, k |-> call[u].k + 1,
                                       to |-> infos[j].client, size |-> m]]
    BY <1>2 DEF SendBegins
  <2>2. UNCHANGED sends /\ \A t \in Threads : t # u => pc'[t] = pc[t]
    BY <1>2 DEF SendBegins, Goes, SendInv, TypeOK
  <2>3. ASSUME NEW t \in Threads, Busy(t)' PROVE call'[t].size \in Sizes
    <3>1. CASE t = u
      BY <2>1, <3>1 DEF SendInv, TypeOK
    <3>2. CASE t # u
      BY <2>1, <2>2, <2>3, <3>2 DEF SendInv, TypeOK, BufferInv, Busy
    <3>3. QED
      BY <3>1, <3>2
  <2>4. QED
    BY <1>1, <2>2, <2>3
\* Locking and unlocking change the owner only.
<1>3. ASSUME NEW u \in Threads, Locks(u) \/ CopyFails(u) \/ Unlocks(u)
      PROVE  BufferInv'
  <2>1. /\ UNCHANGED call
        /\ \A t \in Threads : Busy(t)' => Busy(t)
    BY <1>3 DEF Locks, CopyFails, Unlocks, Goes, Busy, SendInv, TypeOK
  <2>2. \A s \in Slots : /\ sends'[s].frame = sends[s].frame
                         /\ sends'[s].bytes = sends[s].bytes
                         /\ sends'[s].buffer_size = sends[s].buffer_size
    <3>1. CASE Locks(u)
      <4>1. sends' = [sends EXCEPT ![mutex[u]] = [sends[mutex[u]] EXCEPT !.owner = u]]
        BY <3>1 DEF Locks
      <4>2. sends \in [Slots -> Structures]
        BY DEF SendInv, TypeOK
      <4>3. QED
        BY <4>1, <4>2 DEF Structures
    <3>2. CASE CopyFails(u) \/ Unlocks(u)
      <4>1. sends' = [sends EXCEPT ![Send(u)] = [sends[Send(u)] EXCEPT !.owner = NoThread]]
        BY <3>2 DEF CopyFails, Unlocks, Unlock
      <4>2. sends \in [Slots -> Structures]
        BY DEF SendInv, TypeOK
      <4>3. QED
        BY <4>1, <4>2 DEF Structures
    <3>3. QED
      BY <1>3, <3>1, <3>2
  <2>3. QED
    BY <2>1, <2>2 DEF BufferInv
<1>4. ASSUME NEW u \in Threads, Copies(u) PROVE BufferInv'
  <2> DEFINE q == Send(u)
             m == call[u].size
  <2>1. q \in Slots /\ m \in Sizes /\ m \in Nat /\ m + HDR < Wrap
        /\ ~(m = 0 /\ sends[q].buffer_size = 0)
    <3>1. pc[u] = "copy" /\ Inside(u) /\ Busy(u) /\ ~FollowsNull(u)
      BY <1>4 DEF Copies, Goes, Inside, Busy
    <3>2. Usable(u)
      BY <3>1, NotNull
    <3>3. QED
      BY <3>1, <3>2 DEF Usable, BufferInv, SizesFit, FollowsNull
  <2>2. Allocated(m) = m + HDR
    <3>1. m + HDR \in 0..(Wrap - 1)
      BY <2>1
    <3>2. \A x \in 0..(Wrap - 1) : x % Wrap = x
      OBVIOUS
    <3>3. QED
      BY <3>1, <3>2 DEF Allocated
  <2>3. sends[q] \in Structures /\ sends[q].buffer_size \in Nat
    <3>1. sends[q] \in Structures
      BY <2>1 DEF SendInv, TypeOK
    <3>2. sends[q].buffer_size \in {0} \cup Sizes
      BY <3>1 DEF Structures
    <3>3. Sizes \subseteq Nat
      OBVIOUS
    <3>4. CASE sends[q].buffer_size = 0
      BY <3>1, <3>4
    <3>5. CASE sends[q].buffer_size \in Sizes
      BY <3>1, <3>3, <3>5
    <3>6. QED
      BY <3>2, <3>4, <3>5
  <2>4. /\ Copied(q, call[u]).bytes = Copied(q, call[u]).buffer_size + HDR
        /\ Copied(q, call[u]).frame.size <= Copied(q, call[u]).buffer_size
    <3>1. CASE sends[q].buffer_size < m
      <4>1. Copied(q, call[u]) = [sends[q] EXCEPT !.buffer_size = m,
                                    !.bytes = Allocated(m), !.frame = call[u]]
        BY <3>1 DEF Copied
      <4>2. /\ Copied(q, call[u]).bytes = m + HDR
            /\ Copied(q, call[u]).buffer_size = m
            /\ Copied(q, call[u]).frame = call[u]
        BY <2>2, <2>3, <4>1 DEF Structures
      <4>3. QED
        BY <2>1, <4>2
    <3>2. CASE ~(sends[q].buffer_size < m)
      <4>1. Copied(q, call[u]) = [sends[q] EXCEPT !.frame = call[u]]
        BY <3>2 DEF Copied
      <4>2. /\ Copied(q, call[u]).bytes = sends[q].bytes
            /\ Copied(q, call[u]).buffer_size = sends[q].buffer_size
            /\ Copied(q, call[u]).frame = call[u]
        BY <2>3, <4>1 DEF Structures
      <4>3. sends[q].bytes = sends[q].buffer_size + HDR
        BY <2>1, <2>3, <3>2 DEF BufferInv
      <4>4. QED
        BY <2>1, <2>3, <3>2, <4>2, <4>3
    <3>3. QED
      BY <3>1, <3>2
  <2>5. sends' = [sends EXCEPT ![q] = Copied(q, call[u])] /\ UNCHANGED call
    BY <1>4 DEF Copies
  <2>6. \A t \in Threads : Busy(t)' => Busy(t)
    BY <1>4 DEF Copies, Goes, Busy, SendInv, TypeOK
  <2> HIDE DEF q, m
  <2>7. \A s \in Slots : sends'[s] = IF s = q THEN Copied(q, call[u]) ELSE sends[s]
    BY <2>5 DEF SendInv, TypeOK
  <2>8. QED
    BY <2>4, <2>5, <2>6, <2>7 DEF BufferInv
<1>5. CASE Accept \/ (\E j \in Slots : Leave(j)) \/ UNCHANGED vars
  BY <1>1, <1>5 DEF Accept, Leave, BufferInv, Busy, vars
<1>6. ASSUME NEW u \in Threads, Sends(u) \/ SendFails(u) \/ Crashes(u) PROVE BufferInv'
  <2>1. UNCHANGED <<sends, call>> /\ \A t \in Threads : Busy(t)' => Busy(t)
    BY <1>6 DEF Sends, SendFails, Crashes, Goes, Busy, SendInv, TypeOK
  <2>2. QED
    BY <1>1, <2>1 DEF BufferInv
<1>7. QED
  BY <1>2, <1>3, <1>4, <1>5, <1>6 DEF Next

\* The buffer holds header and data of the frame in it (send.c:38-57), if no
\* size is so large that the sum with the header wraps: a call with no data ends
\* the process (Crashes) or finds a buffer that was made for data.
THEOREM BuffersFit == (Churn = "behind" /\ SizesFit) => (Spec => []FrameFits)
<1> SUFFICES ASSUME Churn = "behind", SizesFit PROVE Spec => []FrameFits
  OBVIOUS
<1>1. Init => BufferInv
  BY DEF Init, BufferInv, Busy
<1>2. SendInv /\ BufferInv /\ [Next]_vars => BufferInv'
  BY BufferStep
<1>3. SendInv /\ BufferInv => FrameFits
  <2> SUFFICES ASSUME SendInv, BufferInv, NEW s \in Slots, sends[s].frame # NoFrame
               PROVE  sends[s].frame.size + HDR <= sends[s].bytes
    BY DEF FrameFits
  <2>1. sends[s].frame.size \in Nat /\ sends[s].buffer_size \in {0} \cup Sizes
    <3>1. sends[s] \in Structures
      BY DEF SendInv, TypeOK
    <3>2. sends[s].frame \in Frames /\ sends[s].buffer_size \in {0} \cup Sizes
      BY <3>1 DEF Structures
    <3>3. QED
      BY <3>2, FrameSizes
  <2>2. sends[s].buffer_size \in Nat
    <3>1. Sizes \subseteq Nat
      BY SendPathAssumption
    <3>2. CASE sends[s].buffer_size = 0
      BY <3>2
    <3>3. CASE sends[s].buffer_size \in Sizes
      BY <3>1, <3>3
    <3>4. QED
      BY <2>1, <3>2, <3>3
  <2>3. HDR \in Nat
    BY SendPathAssumption
  <2>4. /\ sends[s].bytes = sends[s].buffer_size + HDR
        /\ sends[s].frame.size <= sends[s].buffer_size
    BY DEF BufferInv
  <2>5. QED
    BY <2>1, <2>2, <2>3, <2>4
<1>4. QED
  BY <1>1, <1>2, <1>3, SendInvariant, PTL DEF Spec
-----------------------------------------------------------------------------
\* A structure without a buffer holds no frame, and a process that ended runs no
\* thread.
CrashInv ==
  /\ \A s \in Slots : sends[s].buffer_size = 0 => sends[s].frame = NoFrame
  /\ Alive \/ \A t \in Threads : pc[t] = "dead"
  /\ OnlyFirstEmptyCallsCrash

\* A call under way has a send structure.
LEMMA CallsUsable ==
  ASSUME SendInv, NEW t \in Threads, Busy(t)
  PROVE  Usable(t)
  BY DEF SendInv, CallsAim, CellsFilled, Send, Usable

\* Every step preserves CrashInv.
LEMMA CrashInvStep ==
  ASSUME SendInv, CrashInv, [Next]_vars
  PROVE  CrashInv'
<1> USE SendPathAssumption
\* A step after which the process lives, and which frees no buffer.
<1>1. ASSUME Alive',
             \A s \in Slots : /\ sends'[s].buffer_size = sends[s].buffer_size
                              /\ sends'[s].frame = sends[s].frame
      PROVE  CrashInv'
  BY <1>1 DEF CrashInv, OnlyFirstEmptyCallsCrash
\* No other thread ends with a step of thread u.
<1>2. ASSUME NEW u \in Threads, NEW from, NEW to, Goes(u, from, to), from # "dead", to # "dead"
      PROVE  Alive'
  <2>1. Alive
    BY <1>2 DEF Goes, CrashInv
  <2>2. pc' = [pc EXCEPT ![u] = to] /\ pc \in [Threads -> {"idle", "lock", "copy", "send", "unlock", "dead"}]
    BY <1>2 DEF Goes, SendInv, TypeOK
  <2>3. QED
    BY <1>2, <2>1, <2>2 DEF Alive
<1>3. ASSUME NEW u \in Threads, SendBegins(u) \/ Sends(u) \/ SendFails(u)
      PROVE  CrashInv'
  <2>1. Alive'
    BY <1>2, <1>3 DEF SendBegins, Sends, SendFails
  <2>2. UNCHANGED sends
    BY <1>3 DEF SendBegins, Sends, SendFails
  <2>3. QED
    BY <1>1, <2>1, <2>2
<1>4. ASSUME NEW u \in Threads, Locks(u) \/ CopyFails(u) \/ Unlocks(u)
      PROVE  CrashInv'
  <2>1. Alive'
    BY <1>2, <1>4 DEF Locks, CopyFails, Unlocks
  <2>2. \A s \in Slots : /\ sends'[s].buffer_size = sends[s].buffer_size
                         /\ sends'[s].frame = sends[s].frame
    <3>1. sends \in [Slots -> Structures]
      BY DEF SendInv, TypeOK
    <3>2. CASE Locks(u)
      <4>1. sends' = [sends EXCEPT ![mutex[u]] = [sends[mutex[u]] EXCEPT !.owner = u]]
        BY <3>2 DEF Locks
      <4>2. QED
        BY <3>1, <4>1 DEF Structures
    <3>3. CASE CopyFails(u) \/ Unlocks(u)
      <4>1. sends' = [sends EXCEPT ![Send(u)] = [sends[Send(u)] EXCEPT !.owner = NoThread]]
        BY <3>3 DEF CopyFails, Unlocks, Unlock
      <4>2. QED
        BY <3>1, <4>1 DEF Structures
    <3>4. QED
      BY <1>4, <3>2, <3>3
  <2>3. QED
    BY <1>1, <2>1, <2>2
\* What is copied has a buffer: one of its size, or one that was there.
<1>5. ASSUME NEW u \in Threads, Copies(u) PROVE CrashInv'
  <2> DEFINE q == Send(u)
             m == call[u].size
  <2>1. Alive'
    BY <1>2, <1>5 DEF Copies
  <2>2. q \in Slots /\ ~(m = 0 /\ sends[q].buffer_size = 0)
    <3>1. pc[u] = "copy" /\ Inside(u) /\ ~FollowsNull(u)
      BY <1>5 DEF Copies, Goes, Inside
    <3>2. QED
      BY <3>1, NotNull DEF Usable, FollowsNull
  <2>3. sends[q] \in Structures /\ m \in Nat
    <3>1. call[u] \in Frames /\ sends[q] \in Structures
      BY <2>2 DEF SendInv, TypeOK
    <3>2. QED
      BY <3>1, FrameSizes
  <2>4. Copied(q, call[u]).buffer_size # 0
    <3>1. sends[q].buffer_size \in Nat
      <4>1. sends[q].buffer_size \in {0} \cup Sizes
        BY <2>3 DEF Structures
      <4>2. CASE sends[q].buffer_size = 0
        BY <4>2
      <4>3. CASE sends[q].buffer_size \in Sizes
        <5>1. Sizes \subseteq Nat
          OBVIOUS
        <5>2. QED
          BY <4>3, <5>1
      <4>4. QED
        BY <4>1, <4>2, <4>3
    <3>2. CASE sends[q].buffer_size < m
      <4>1. Copied(q, call[u]) = [sends[q] EXCEPT !.buffer_size = m,
                                    !.bytes = Allocated(m), !.frame = call[u]]
        BY <3>2 DEF Copied
      <4>2. Copied(q, call[u]).buffer_size = m
        BY <2>3, <4>1 DEF Structures
      <4>3. QED
        BY <2>3, <3>1, <3>2, <4>2
    <3>3. CASE ~(sends[q].buffer_size < m)
      <4>1. Copied(q, call[u]) = [sends[q] EXCEPT !.frame = call[u]]
        BY <3>3 DEF Copied
      <4>2. Copied(q, call[u]).buffer_size = sends[q].buffer_size
        BY <2>3, <4>1 DEF Structures
      <4>3. QED
        BY <2>2, <2>3, <3>1, <3>3, <4>2
    <3>4. QED
      BY <3>2, <3>3
  <2>5. sends' = [sends EXCEPT ![q] = Copied(q, call[u])]
    BY <1>5 DEF Copies
  <2> HIDE DEF q, m
  <2>6. \A s \in Slots : sends'[s] = IF s = q THEN Copied(q, call[u]) ELSE sends[s]
    BY <2>5 DEF SendInv, TypeOK
  <2>7. QED
    BY <2>1, <2>4, <2>6 DEF CrashInv, OnlyFirstEmptyCallsCrash
\* The crash itself: the call is inside, so its cell has a send structure, and
\* what it lacks is a buffer.
<1>6. ASSUME NEW u \in Threads, Crashes(u) PROVE CrashInv'
  <2>1. /\ pc' = [t \in Threads |-> "dead"]
        /\ UNCHANGED <<infos, sends, cell, call>>
    BY <1>6 DEF Crashes, table
  <2>2. FollowsNull(u) /\ Usable(u)
    <3>1. FollowsNull(u) /\ Inside(u)
      BY <1>6 DEF Crashes, FollowsNull
    <3>2. Busy(u)
      BY <3>1 DEF Inside, Busy
    <3>3. QED
      BY <3>1, <3>2, CallsUsable
  <2>3. call[u].size = 0 /\ sends[Send(u)].frame = NoFrame
    BY <2>2 DEF FollowsNull, Usable, CrashInv
  <2>4. OnlyFirstEmptyCallsCrash'
    BY <2>1, <2>2, <2>3 DEF OnlyFirstEmptyCallsCrash, Usable, Send
  <2>5. QED
    BY <2>1, <2>4 DEF CrashInv
<1>7. CASE Accept \/ \E j \in Slots : Leave(j)
  <2>1. Alive' /\ UNCHANGED sends
    BY <1>7 DEF Accept, Leave, Alive
  <2>2. QED
    BY <1>1, <2>1
<1>8. CASE UNCHANGED vars
  BY <1>8 DEF vars, table, CrashInv, OnlyFirstEmptyCallsCrash, Alive, Usable, Send
<1>9. QED
  BY <1>3, <1>4, <1>5, <1>6, <1>7, <1>8 DEF Next

\* A call ends the process only if it has no data and no frame was ever put into
\* its structure (send.c:38, 56), for all sizes, threads and clients: the cell it
\* points to always has a send structure, and a buffer once made stays.
THEOREM CrashesAreEmptyCalls == (Churn = "behind") => (Spec => []OnlyFirstEmptyCallsCrash)
<1> SUFFICES ASSUME Churn = "behind" PROVE Spec => []OnlyFirstEmptyCallsCrash
  OBVIOUS
<1>1. Init => CrashInv
  <2> SUFFICES ASSUME Init PROVE CrashInv
    OBVIOUS
  <2>1. Alive
    BY DEF Init, Alive
  <2>2. QED
    BY <2>1 DEF Init, CrashInv, OnlyFirstEmptyCallsCrash
<1>2. SendInv /\ CrashInv /\ [Next]_vars => CrashInv'
  BY CrashInvStep
<1>3. CrashInv => OnlyFirstEmptyCallsCrash
  BY DEF CrashInv
<1>4. QED
  BY <1>1, <1>2, <1>3, SendInvariant, PTL DEF Spec
=============================================================================
