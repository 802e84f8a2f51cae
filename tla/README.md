# UDTCP in TLA+

A verification project for the udtcp library (`udtcp/src`, `udtcp/include`): a
C library that gives an application a *server* or a *client* which talk over one
TCP connection and a pair of UDP sockets each, with callbacks for connection,
disconnection and reception.

## 1. Inventory

| Component | Source | State it keeps | Operations | Modelled in |
|---|---|---|---|---|
| Server poll loop and connection table | `server_poll.c` | `poll_fds[]`, `infos[]`, `poll_nfds`, `count_id`; the kernel's descriptors | `udtcp_server_poll`, `accept_client`, `disconnect`, compaction | `ServerPoll`, `Sessions` |
| Poll threads | `server_start_stop.c`, `client_start_stop.c` | `poll_loop`, `is_started`, `poll_thread` | start, stop, thread functions | `PollThread` (and its flags in `ServerPoll`) |
| Handshake | `connect_client.c`, `server_poll.c:35-195` | the bytes in flight, the listen queue, who has a cell | `udtcp_connect_client`, both `initialize_connection` | `Handshake` |
| Creation, deletion of endpoints | `create_server.c`, `delete_server.c`, `create_client.c`, `delete_client.c` | memory, mutexes, three sockets each | create, delete, with every error path | `Endpoints`; the table's part of delete in `ServerPoll` |
| A client's TCP socket | `connect_client.c`, `client_poll.c:245-270` | `client_infos->tcp_socket`, `poll_fds[0].fd` | connect, disconnect, reconnect | `Endpoints`; the exchange in `Handshake` |
| Client poll loop | `client_poll.c` | `poll_fds[2]` | `udtcp_client_poll`, `disconnect` | `PollThread` (control flow), `TcpReceive`, `UdpReceive`, `Endpoints` |
| TCP framing | `receive_tcp` of both sides | the byte stream, `buffer_data`, `errno` | receive | `TcpReceive`, `Delivery` |
| UDP reception | `receive_udp` of both sides, `udtcp_get_infos` | the datagram queue | receive | `UdpReceive` |
| Send path | `send.c` | `udtcp_send_s` with its mutex | `udtcp_send_tcp`, `udtcp_send_udp` | `SendPath` |
| Logging | macros of `udtcp.h` | `errno`, by way of `log_callback` | `UDTCP_LOG_ERROR` | the `errno` it leaves, in `TcpReceive` and `UdpReceive` |
| Names | `set_string_infos.c` | none | formatting | not modelled |

How they interact. The application creates an endpoint, sets callbacks, and
starts a poll thread. From then on two threads share the structure without a
lock: the application's thread writes `poll_loop`, reads `is_started` and sends
through pointers into `infos[]`; the poll thread runs every handler and every
callback. A client process and the server meet in the handshake: the server
sends its `udtcp_infos`, the client answers with its own, and each side calls
its `connect_callback`.

What is hard:

* **Order between threads.** The new thread may finish before
  `udtcp_start_server` returns; a signal may reach the thread when it is not in
  `poll()`; a send may run during a compaction.
* **Order between processes.** A timeout races a late establishment; early data
  arrives together with the handshake; the two `connect_callback`s are unordered.
* **Failure of one step of several.** A refused exchange, a peer that dies or
  stops in the middle, a stop in the middle of a scan.
* **Two parallel arrays that are compacted in place** while their indices and
  bound change.
* **A byte stream that comes in pieces**, read with calls that do not block, and
  an `errno` that outlives the call that set it.
* **Numbers that outlive what they name**: a descriptor that is closed and kept, a
  pointer to a cell that now holds another client, an address used again.
* **Waits without timeout** inside handlers that a single thread runs for all.

Every hazard is listed at its line in `PROJECT.json`, with the properties that
cover it; a note says where a property holds only under a condition, or why there
is none.

## 2. Modules

### `Sessions`: what the application is promised

One variable: what the callbacks have told of each id. Ids are announced in
increasing order, each once, withdrawn at most once, and at most
`UDTCP_MAX_CONNECTION` are connected at a time. `ServerPoll` implements it with
the identity on `session` (`ImplementsSessions`).

### `ServerPoll`: the connection table

The poll thread is the process. `pc` says where it is: `stopped`, `loop` (the
`while` of `thread_server_poll`), `poll`, `scan` (the `for` of
`udtcp_server_poll`), `accept`, `receive`, `compact`, `deleted`. The arrays are
functions over `0..TABLE_SIZE`; the index `TABLE_SIZE` stands for the bytes
behind the array, which the compaction reads and nothing may write.

| Action | Code |
|---|---|
| `udtcp_start_server`, `udtcp_stop_server`, `LoopGoesOn`, `ThreadEnds` | `server_start_stop.c` |
| `PollReady`, `PollTimeout` | `server_poll.c:447-462`; a free cell keeps its old `revents` |
| `ScanSkip`, `ScanReadable`, `ScanDone` | `server_poll.c:464-516` |
| `AcceptNone`, `AcceptRefused`, `AcceptOverrun`, `AcceptOk` | `accept_client` by outcome: no connection or full table; refused with the slot intact; refused after the peer's bytes overwrote `tcp_socket`; accepted |
| `ReceiveKeeps`, `ReceiveLost` | the receive loop by outcome; `disconnect` |
| `CompactStep`, `CompactSkip`, `CompactDone` | `server_poll.c:517-537` |
| `udtcp_delete_server` | `delete_server.c` |

Peers appear as the outcomes of `poll()`, `accept_client` and `receive_tcp`; each
is chosen from all it can return. `PeerFds` are the descriptor numbers a peer may
put into its bytes; `{}` means that no peer sends more than its `udtcp_infos`.
`MemcpyAscending` chooses between the two outcomes of the overlapping `memcpy`,
which C leaves undefined: the copy runs upwards (what the code relies on) or
downwards. `session` is a history variable: callbacks are taken to be installed.

### `PollThread`: start, stop and the thread

Servers and clients of one application, which calls start and stop from one
thread. The assignments around `pthread_create`, `pthread_kill` and
`pthread_join` are separate steps, since the poll thread runs between them. The
server sets `is_started` after `pthread_create`, the client before: that is the
only difference in their start. The handlers are reduced to the number of times
they wait for their peer with `poll(-1)`. `pthread_kill` interrupts a `poll()` the
thread is in, and has no effect elsewhere (the examples install an empty
handler for SIGTERM).

### `Handshake`: connecting

Each member of `Clients` is one call of `udtcp_connect_client` against one
server. Streams are sequences of blocks (`infos`, the refusal `nul`, `data`).
`recv()` asks for `sizeof(udtcp_infos) + 1` bytes, so it returns the right size
when the stream holds an `infos` and nothing behind it. A block is written and
delivered whole, being smaller than a segment. The client's action for its
answer (`ClientAnswers`) is separate from its return (`ClientReturns`), because
the server can announce the client in between, and the client can die in
between. `Disturbances` switches early data and signals on.

### `Delivery` and `TcpReceive`: messages over TCP

`Delivery` is what `receive_tcp_callback` promises: disjoint pieces of the stream
in stream order, nothing after the disconnection, and, if the stream is `whole`, the
messages that were sent with none but empty ones left out. `TcpReceive` is `receive_tcp` one `recv()` at a time, with
the loops of both poll functions around it; `ImplementsDelivery` is the
refinement. Bytes are known by their offset; what `HDR` bytes mean is known where
a message begins and arbitrary elsewhere, so a receiver that is out of step reads
any length. `errno` is kept as "is it `EWOULDBLOCK`", since that is all the caller
asks; callbacks leave any value in it. So may the `log_callback` that
`UDTCP_LOG_ERROR` calls on the failing paths (`Logged`, in scenes with `logs`): on
some of them (a failed `malloc`, the server's interrupted wait) it runs before the
caller tests `errno`, and one that leaves `EWOULDBLOCK` there keeps a connection that
is out of step. `Whole` is therefore: no piece ends in or right behind a length, and
faults and a `log_callback` do not come together. A length is an `int` when the server
returns it (`AsInt`), so one of 2^31 or more is negative. `Scenes` holds the
circumstances of an execution (side, where pieces may end, faults, peers), chosen
in `Init`, so that one run covers all of them.

### `UdpReceive`: datagrams

One call of `receive_udp` is one action, since nobody else reads the socket
between its peek and its read. Datagrams are lost (they never arrive), repeated
(one more is sent) and reordered. Their kind says how the size they claim relates
to the bytes they have: `good`, `nil` (right, and 0), `over`, `under`, `short`
(no room for a size), `empty`. Clients join and leave the table between calls.
The client calls `UDTCP_LOG_ERROR` between the return of `receive_udp` and the test
of `errno` (`client_poll.c:342-344`), at every normal end of its loop as well, so in
scenes with `logs` `ReturnsError` judges any `errno`.

### `SendPath`: sending

Threads of the application in `udtcp_send_tcp` or `udtcp_send_udp`, with one step
each for evaluating the mutex's address, the lock, `buffer_copy`, `send()` and the
unlock, since the poll thread changes the table between them. The call's pointer
is a cell number, and cell and send structure are looked up again at every use,
as the code does. `Churn = "behind"` keeps the clients at and before those being
sent to in place; `"any"` does not. A frame is known by the call it belongs to.
`Wrap` stands for 2^32 in `udtcp_new_buffer`'s parameter. A call that follows a
NULL pointer (`FollowsNull`) can only go on with `Crashes`, which ends the process with
all its threads: a call with no data to a structure that has no buffer yet, or (only
with `Churn = "any"`) a cell that was never filled. `Leave` is disconnection and
compaction in one step: both belong to one round of the poll thread, and a call
between them finds the cells as before and its receiver's socket closed, so that
`send()` fails as it does in `SendFails`.

### `Endpoints`: what is taken and given back

One endpoint at a time, created step by step (mutexes, three sockets, the rest),
each step failing or not; a client then connects, polls, loses its connection
and connects again in the order of `examples/simple_connection`, and is deleted.
Descriptor numbers are explicit and the lowest free one is handed out; the rest
of the process opens and closes files in between. `odd` records what the code
does not expect: a socket still open was `replaced`, another file was `opened` on
the number of a closed socket, or descriptors `moved` otherwise. The properties
say what holds when none of the events that matter has happened.

### Proof modules

`ServerPollProofs`, `PollThreadProofs`, `HandshakeProofs`, `TcpReceiveProofs`,
`UdpReceiveProofs`, `SendPathProofs` and `EndpointsProofs` extend the module they are
about. The `MC...` modules instantiate the modules for TLC; the
`.cfg` files give the constants.

## 3. Runs

| Run | Properties | Shows |
|---|---|---|
| `table` | `SlotsAligned`, `NoHoleAtRest`, `SlotsAreSessions`, `SendSlotsInitialised` | three cells, four connections, peers that may overrun the exchange: the two arrays stay aligned, every round leaves a compact table holding exactly the announced clients (2.6 million states) |
| `sockets` | `TypeOK`, `NoDescriptorLeak`, `AllClosedOnDelete`, `CallbacksPairedOnDelete`, `ImplementsSessions` | same table, more peers than cells, all of them keeping to the exchange: the table is never overrun, the callback contract is implemented, no descriptor leaks or is closed twice; deletion closes all and pairs all callbacks (1.8 million states) |
| `threads` | `TypeOK`, `RunningIsStarted`, `NoThreadAfterStop`, `ClientStartedIsRunning`, `StopReturns` | a server and a client of one application, started and stopped at any time (1,106 states) |
| `handshake` | `TypeOK`, `AnnouncedSucceeded`, `ClientReadsHandshakeOnly`, `ConnectReturns`, `SuccessIsAnnounced` | three clients, two cells, early data, signals, timeouts, crashes: only a client that answered is announced, every call returns, a success is announced unless the client's own early data cost it the connection (209,000 states) |
| `stream` | `TypeOK`, `ImplementsDelivery`, `KeptWhilePeerStays`, `EventuallyDelivered` | both sides, one peer with all faults and two without: `Delivery` is implemented; no connection is dropped without a reason, whatever `errno` callbacks leave; every message is delivered; with and without a `log_callback` (249,000 states) |
| `datagrams` | `TypeOK`, `AttributedToSender`, `HeardOnce`, `DatagramsKeepConnection`, `QueuedIsRead` | both sides, two ports of a host and a stranger on it, three clients over two cells, with and without a `log_callback`; good datagrams never cost a client without one its connection (515,000 states) |
| `sends` | `TypeOK`, `MutualExclusion`, `SentToReceiver`, `FrameFits`, `OnlyFirstEmptyCallsCrash`, `CallsReturn` | two threads, three clients over two cells, failing `malloc`, partial sends, calls with no data: also the structure that two clients share after a compaction is used by one call at a time, no frame is in a buffer too small for it, every call returns unless the process ends, which only a call with no data can cause, on a structure that never held a frame (87,000 states) |
| `endpoints` | `TypeOK`, `NothingLeft`, `PolledIsConnected`, `OthersKeepTheirFiles`, `ConnectionIsEnded` | creation with every failure, connects, disconnections and deletion among two files of the rest of the process (1.2 million states) |

Four runs show where the code and what is said of it part; each
checks one property and must find it violated:

| Run | Property | Finding |
|---|---|---|
| `started` | `StartedIsRunning` | a server's thread that ends at once leaves `is_started` at 1 |
| `desync` | `WholeMessages` | a piece of the stream that ends in or right behind a length puts the receiver out of step for good |
| `misdirected` | `SentToReceiver` | a send under way while its receiver, or a client before it, leaves goes to another client |
| `polled` | `PollsTheConnection` | a file opened between create and connect takes the number in `poll_fds[0]`; the client polls that file |

Other instances of the same modules are worth a look and are not kept as runs:
`PeerFds = {3}` in `sockets` (a peer that sends more than its infos makes
`accept_client` close the number it sent, `AllClosedOnDelete` fails),
`MemcpyAscending = FALSE` in `table` (`SlotsAreSessions` fails), `PeersAnswer = FALSE` in
`threads` (a lost signal and a silent peer: `StopReturns` fails), `Stalled = {c1}` in
`handshake` (one stalled client blocks the connect calls of all others:
`ConnectReturns` fails), a size of 7 in `sends` (`FrameFits` fails: the sum wraps).

Two defects of the code are inside passing runs and are what a property excepts:

* `client_poll.c:342` logs between the `recvfrom()` that found nothing and the test
  of `errno`. With a `log_callback` that changes `errno` the client drops its TCP
  connection after good datagrams, where `test/client_poll.cpp:1219` expects
  `UDTCP_POLL_SUCCESS`. `DatagramsKeepConnection` excepts scenes with `logs`; without
  `~scene.logs` TLC refutes it at the first `UdpNone` of a client.
* `send.c:56` copies the header to NULL when the first call for a send structure has
  no data (`send.c:38` allocates nothing for 0), though `udtcp.h:244` excepts no size.
  The run reaches `Crashes`; `OnlyFirstEmptyCallsCrash` says that this is the only
  way to it.

### Bounds, and why they are enough

* `MAX_CONNECTION = 3` in `ServerPoll`: the smallest table in which a hole can be
  first, middle or last, two holes can be adjacent or not, and a survivor can be
  between or behind them. `MaxId = 4`: one more client than cells, so that a
  cell is used again after a compaction. `Fds` has one number per cell in `table`, so
  that descriptor numbers are reused soon, and one more in `sockets`, so that a
  fourth client meets a full table. `PeerFds = {3, 6}`: the listening socket, and a
  client's descriptor. The theorems hold for every value of all of these.
* `MaxChunks = 2` in `PollThread`: a handler that does not wait, waits once, or
  waits again after the signal was spent.
* `Handshake`: three clients for two cells, so that one is refused or takes the
  place of one that left; `Backlog = 2` (the code asks for 10), so that the queue
  can be full. A client sends one message: an endless sender keeps the server
  in its receive loop (a listed hazard), which is not what this run is about.
* `TcpReceive`: `HDR = 2`, so that a length can be cut in the middle; lengths 0, 2 (a
  payload that can be cut) and 3 with `IntLimit = 3` (a "negative" one); two
  messages, so that one can follow another that was cut, and one of a second
  peer, so that it can wait.
* `UdpReceive`: two datagrams show every order and every pair of kinds; three
  clients over two cells let a cell and an address be used again.
* `SendPath`: two cells and three clients are the least with which a client that
  moved down and a new one share a structure; sizes 1 and 3 let a buffer grow and
  be reused, and 0 is the size for which nothing is allocated; one call per thread.
* `Endpoints`: six descriptors hold a client with its socket replaced and two
  other files, and can run out. `MAX_CONNECTION = 3` mutexes: the cleanup loop
  destroys some and misses one.
* `CHECK_DEADLOCK FALSE` where the system may stop: a deleted server, clients that
  have all returned. `PollThread` never stops, and its deadlock check is on.

### Fairness

* `PollThread`: weak fairness of a begun start or stop call and of the poll thread,
  which the scheduler gives; the loop's own `poll()` has a timeout
  (`UDTCP_POLL_LOOP_TIMEOUT`), so its return is fair; the `poll(-1)` inside a
  handler is not, unless `PeersAnswer` says that peers go on with what they
  began. No fairness makes the application call start or stop.
* `Handshake`: weak fairness of the server's thread and of every client call that
  is not `Stalled`. Nothing forces a client to send, leave or die.
* `TcpReceive`: weak fairness of the poll thread, and of the arrival of what was
  written, which is TCP's guarantee while the connection lasts. No peer has to
  send or to end, and no stop has to come.
* `UdpReceive`: weak fairness of the poll thread only; the network owes nothing.
* `SendPath`: weak fairness of each thread inside a call. A default mutex is not
  fair, so `CallsReturn` rests on the bound on calls: the others stop calling.
* `ServerPoll` and `Endpoints` state safety only and have no fairness.

## 4. Proofs

All seven proof modules are checked by TLAPS to the last leaf. The statements
hold for every value of the constants, under the assumptions named in the
modules (`ConstantsAssumption`, `PollThreadAssumption`, `HandshakeAssumption`,
`TcpReceiveAssumption`, `UdpReceiveAssumption`, `SendPathAssumption`,
`EndpointsAssumption`), which give the constants their types and say little more
(sizes fit 32 bits, a stranger's address is no client's). Every safety
property of the passing runs, and both refinements, are stated by a theorem. TLC
also finds no violation of the inductive invariants themselves with the constants
of the modules' runs (`table` for `TableInv`).

**`ServerPollProofs`**, under `MemcpyAscending`. None of the table's properties is
inductive alone. `TableInv` adds: what `pc` says of `i` (`Control`), where a hole
may be at each place of the code (`HolesWhere`: behind the scan while it runs,
in front of the compaction while that runs), that ids are ordered along the
table and tell announced from unannounced ones (`IdsOrdered`), and what the
first two cells hold (`FixedCells`). The interesting step is `CompactStep`: every
cell at or after the hole takes its successor's contents, so ordered ids stay
ordered, no live cell is lost (the overwritten one is a hole), and the holes that
remain are still in front of the index. From `TableInv`: `TypeCorrect`,
`ArraysAligned`, `TableCompacted`, `TableIsSessions`, `SendSlotsValid`,
`CallbacksPaired`. `DescriptorsAccounted` adds `PeerFds = {}` and proves
`NoDescriptorLeak` and `AllClosedOnDelete` from `TableInv`; `DeleteClosesAll` states the
latter alone. `SessionsImplemented` is the refinement of `Sessions`: `AcceptOk` is its
`Connect` (`ConnectedFit`: the connected ids are those of the live cells, of which
there are at most `MAX_CONNECTION`, so one more fits when a cell is free),
`ReceiveLost` its `Disconnect`, `udtcp_delete_server` its `Shutdown`, and every other
step leaves `session` alone.

**`PollThreadProofs`**. `LifeInv` says what each place of start and stop knows of
the thread and of the flags (`LifeInvariant`). It gives `ThreadTypeCorrect`,
`StopLeavesNoThread`, `RunningReported` and `ClientsStartedRun`.

**`HandshakeProofs`**. `ExchangeInv`: only a client that answered has bytes under
way to the server; a queued connection is queued once and nothing was written to
it by either side; the table holds announced clients only. It gives
`OnlySuccessAnnounced` and `HandshakeReadsOnlyInfos`, for any number of clients,
any table and backlog, with all disturbances. `HandshakeTypeCorrect` needs more,
since `TypeOK` bounds the table and the streams: `StreamInv` adds that the cell
`accept_client` found free is still free at the end of the exchange
(`CellStaysFree`), and that a client that has answered has read the server's infos
(`AnsweredReadInfos`), so that nothing but one message can be in its stream.

**`TcpReceiveProofs`**. What is delivered depends on where the reader is in the
stream, which `TypeOK` does not say. `TcpInv` adds: the messages of a peer follow
each other without gap or overlap (`LaidOut`); the local variables of `receive_tcp`
tell what it has read (`CallFits`); what was delivered lies before what is still to
be dealt with (`DeliveredBefore`); and, in a whole stream, the reader is at the
beginning of a message or inside one (`InStep`), has left none out but empty ones
(`NoneLeftOut`), and without faults meets positive lengths only
(`LengthsOrdinary`). `InStep` and `NoneLeftOut` are about connections from which more may be read (`Reads`): a
`log_callback` can keep one that was reset, or one whose message a stop interrupted,
and nothing is read from these any more. The argument is `PieceHoldsSize`: a whole piece that goes beyond
the beginning of a message holds its size and, if it has a payload, a byte of it.
Hence a short size cannot be read (`MessageBegins`), and a `recv()` of the payload
that finds nothing is one of an empty message (`PayloadFollows`): the two places
where the code forgets what it has read. It gives `TcpTypeCorrect`,
`ConnectionKept` and `DeliveryImplemented`, the refinement of `Delivery`, in which
the message under way is due because it is one of those sent (`InStep`), behind
all that were delivered (`DeliveredBefore`), with none missing (`NoneLeftOut`).

**`UdpReceiveProofs`**. `AttributedToSender` is about what was heard, and follows from
what is under way: `UdpInv` says that a cell has the address its id was given with
(`CellsKnown`), that no address was given twice unless addresses are used again,
nor one of a stranger (`IdsGiven`), and that a datagram on the wire or in the
queue comes from its sender's address (`UnderWayGenuine`). So the cell
`udtcp_get_infos` finds is the sender's (`FoundIsSender`), although the table was
compacted and refilled since the datagram was sent. `OnePlace` (a datagram is on
the wire, at one place of the queue, or heard) gives `DatagramsHeardOnce`;
`ConnectionSurvivesDatagrams` rests on the kinds in the queue, and on `Logged` leaving
`errno` alone when there is no `log_callback`; with one it is false. The table's
compaction is `RemoveAt` of the community modules (`RemoveAtProperties`).

**`EndpointsProofs`**. `EndpointInv` says which sockets are open at each step of a
creation, and under which numbers (`SocketsHeld`): once a client is created its TCP
number may be that of a closed socket, but is never one of its UDP sockets. From it:
no socket is open that `infos[]` does not know, unless one was replaced
(`NoneLost`, for `EverythingGivenBack`); a kept number belongs to another file only
if that was opened meanwhile (`KeptNumber`, for `FilesOfOthersKept`); a reported
connection is still open (`ReportedIsOpen`, for `EndIsReported`). `ConnectionIsPolled`
needs `SameNumber`: while nothing odd happened every number below
`poll_fds[0].fd` is taken, so the lowest free one, which `socket()` returns, is the
same again.

**`SendPathProofs`**, under `Churn = "behind"`. `MutualExclusion` and `SentToReceiver`
are not inductive: that two calls inside do not share a structure needs that each
owns the mutex of the structure it uses *now*, hence that the cell it points to
still is its receiver's. `SendInv` says that (`CallsAim`), and that between copy and
send the buffer holds the call's own frame (`FrameIsOwn`). The step that matters
is the lock: a free mutex means that no call inside uses that structure. It gives
`SendTypeCorrect`, `SendsExclude` and `SendsArrive`, for any number of threads,
cells and clients. `BuffersFit` adds `BufferInv` (a buffer was allocated for the
largest frame it held) and needs `SizesFit`: no size
wraps with the header. Size 0 is included: a call that would put it into no buffer
crashes instead (`FollowsNull`). `CrashesAreEmptyCalls` (`CrashInv`: a structure
without a buffer holds no frame) says that nothing else does, for all sizes.

Only model-checked: the liveness properties (`StopReturns`, `ConnectReturns`,
`SuccessIsAnnounced`, `EventuallyDelivered`, `QueuedIsRead`, `CallsReturn`), which rest
on fairness and are outside what the prover handles.

## 5. Not modelled

* Text formatting (`set_string_infos.c`, the lines given to `log_callback`) and
  prototypes: no property is about them. The unit tests mock the system calls; they were read for
  what they expect.
* The `errno` that `log_callback` leaves elsewhere than on the receive paths: nothing
  tests it there.
* Failure of `close()` and `shutdown()`, which the code only logs.
* `udtcp_server_poll` and `udtcp_client_poll` called by an application that never
  started a thread: with `poll_loop` at 0 both handle nothing.
* A client that is connected again while its poll thread runs: the example joins
  the thread first, and the code has no lock for it. `Endpoints` therefore runs
  the application's calls one after the other.
* A start after the stop that interrupted a message: `TcpReceive` and `UdpReceive` end
  with the stop, `PollThread` has the restart.
* The buffer of `receive_udp`: the size classes of a datagram stand for what the
  code compares (one listed hazard is about the buffer's size).
* Clients in the table at deletion are in `ServerPoll`; `Endpoints` deletes a server
  without clients.
* In `Handshake` a failed `gethostbyname` counts as closing the socket it leaks: no
  connection exists yet. `Endpoints` has the leak.
* A send to a client whose socket number was closed and handed out again:
  `SendPath` knows sockets by their client.

## 6. Plan

Done: all modules above, their runs, and the proofs of section 4. No safety
property of a passing run is left without a theorem. Left:

1. The buffer of `receive_udp` near 2^32, and the rest of a frame after a partial
   `send()`: two listed hazards without a property.
2. Shorter proofs: the steps of `EndpointsProofs` share their layout, and those that
   leave the sockets alone could share a lemma.
