----------------------------- MODULE PollThread -----------------------------
(***************************************************************************)
(* The life of a poll thread: udtcp_start_server, udtcp_stop_server and    *)
(* thread_server_poll (server_start_stop.c), and their client twins        *)
(* (client_start_stop.c), which differ in the order of is_started and      *)
(* pthread_create and in what a failed handler does to the loop.           *)
(*                                                                         *)
(* An application owns some servers and clients, its endpoints, and calls  *)
(* start and stop from one thread; every started endpoint has a poll       *)
(* thread.  The two read and write poll_loop and is_started without a      *)
(* lock.  pthread_kill wakes a poll thread only if it is blocked in a      *)
(* poll(); a signal that comes at another time runs the application's      *)
(* handler and leaves no trace.                                            *)
(***************************************************************************)
EXTENDS Integers

CONSTANTS
  Servers,       \* endpoints made by udtcp_create_server
  Clients,       \* endpoints made by udtcp_create_client
  PeersAnswer,   \* a peer that began a handshake or a message goes on with it
  MaxChunks      \* bound on the waits for the peer inside one handler

ASSUME PollThreadAssumption ==
  /\ Servers \cap Clients = {}
  /\ PeersAnswer \in BOOLEAN
  /\ MaxChunks \in Nat

Endpoints == Servers \cup Clients

VARIABLES        \* each one a function over Endpoints
  poll_loop,     \* the poll thread may go on
  is_started,    \* what the application reads to know that it does
  app,           \* where the application is in udtcp_start_* / udtcp_stop_*
  thread,        \* where the poll thread is
  left           \* waits for the peer the current handler will still make

vars == <<poll_loop, is_started, app, thread, left>>

Init ==
  /\ poll_loop = [e \in Endpoints |-> FALSE]
  /\ is_started = [e \in Endpoints |-> FALSE]
  /\ app = [e \in Endpoints |-> "idle"]
  /\ thread = [e \in Endpoints |-> "none"]
  /\ left = [e \in Endpoints |-> 0]
-----------------------------------------------------------------------------
\* The application.

\* Its thread is in no call of start or stop.
AppIdle == \A e \in Endpoints : app[e] = "idle"

\* is_started after the assignments that precede pthread_create: the client
\* sets it there, the server does not yet.
StartedBeforeCreateLate(e) == is_started[e]
StartedBeforeCreate(e) == IF e \in Clients THEN TRUE ELSE is_started[e]

StartBegins(e) ==
  /\ AppIdle
  /\ ~poll_loop[e]
  /\ poll_loop' = [poll_loop EXCEPT ![e] = TRUE]
  /\ is_started' = [is_started EXCEPT ![e] = StartedBeforeCreate(e)]
  /\ app' = [app EXCEPT ![e] = "creating"]
  /\ UNCHANGED <<thread, left>>

AfterCreateAlways(e) == "created"
AfterCreate(e) == IF e \in Clients THEN "idle" ELSE "created"

\* The new thread may run to its end before start_server's next line.
StartCreates(e) ==
  /\ app[e] = "creating"
  /\ thread' = [thread EXCEPT ![e] = "test"]
  /\ app' = [app EXCEPT ![e] = AfterCreate(e)]
  /\ UNCHANGED <<poll_loop, is_started, left>>

StartFails(e) ==
  /\ app[e] = "creating"
  /\ poll_loop' = [poll_loop EXCEPT ![e] = FALSE]
  /\ is_started' = [is_started EXCEPT ![e] = IF e \in Clients THEN FALSE ELSE is_started[e]]
  /\ app' = [app EXCEPT ![e] = "idle"]
  /\ UNCHANGED <<thread, left>>

StartedAfterCreateForgotten(e) == is_started[e]
StartedAfterCreate(e) == TRUE

\* udtcp_start_server only: is_started = 1 after pthread_create returned.
StartEnds(e) ==
  /\ app[e] = "created"
  /\ is_started' = [is_started EXCEPT ![e] = StartedAfterCreate(e)]
  /\ app' = [app EXCEPT ![e] = "idle"]
  /\ UNCHANGED <<poll_loop, thread, left>>

StopBegins(e) ==
  /\ AppIdle
  /\ poll_loop[e]
  /\ poll_loop' = [poll_loop EXCEPT ![e] = FALSE]
  /\ app' = [app EXCEPT ![e] = "killing"]
  /\ UNCHANGED <<is_started, thread, left>>

\* What becomes of the thread when a signal reaches it: poll() fails with
\* EINTR.  In udtcp_*_poll that ends the loop; inside a handler it fails the
\* handler; anywhere else nothing is interrupted.
Interrupted(e) ==
  CASE thread[e] = "poll"  -> "ending"
    [] thread[e] = "inner" -> "failed"
    [] OTHER               -> thread[e]

StopKills(e) ==
  /\ app[e] = "killing"
  /\ thread' = [thread EXCEPT ![e] = Interrupted(e)]
  /\ app' = [app EXCEPT ![e] = "joining"]
  /\ UNCHANGED <<poll_loop, is_started, left>>

JoinableAtOnce(e) == TRUE
Joinable(e) == thread[e] = "dead"

StopJoins(e) ==
  /\ app[e] = "joining"
  /\ Joinable(e)
  /\ thread' = [thread EXCEPT ![e] = IF thread[e] = "dead" THEN "none" ELSE thread[e]]
  /\ app' = [app EXCEPT ![e] = "idle"]
  /\ UNCHANGED <<poll_loop, is_started, left>>
-----------------------------------------------------------------------------
\* The poll thread.

\* while (poll_loop) udtcp_*_poll(..., UDTCP_POLL_LOOP_TIMEOUT)
TestLoop(e) ==
  /\ thread[e] = "test"
  /\ thread' = [thread EXCEPT ![e] = IF poll_loop[e] THEN "called" ELSE "ending"]
  /\ UNCHANGED <<poll_loop, is_started, app, left>>

\* udtcp_*_poll was called with poll_loop set and now blocks in poll(): a
\* signal that came in between is lost.
PollEnters(e) ==
  /\ thread[e] = "called"
  /\ thread' = [thread EXCEPT ![e] = "poll"]
  /\ UNCHANGED <<poll_loop, is_started, app, left>>

PollReady(e) ==
  /\ thread[e] = "poll"
  /\ thread' = [thread EXCEPT ![e] = "scan"]
  /\ UNCHANGED <<poll_loop, is_started, app, left>>

PollNeverTimesOut(e) == FALSE /\ UNCHANGED vars
PollTimesOut(e) ==
  /\ thread[e] = "poll"
  /\ thread' = [thread EXCEPT ![e] = "test"]
  /\ UNCHANGED <<poll_loop, is_started, app, left>>

\* poll() fails, or a signal meant for the process is handled by this thread.
PollFails(e) ==
  /\ thread[e] = "poll"
  /\ thread' = [thread EXCEPT ![e] = "ending"]
  /\ UNCHANGED <<poll_loop, is_started, app, left>>

\* A handler (accept_client, receive_tcp, receive_udp) is called while
\* poll_loop is set; it will wait for its peer some number of times.
HandlerCalled(e) ==
  /\ thread[e] = "scan"
  /\ poll_loop[e]
  /\ thread' = [thread EXCEPT ![e] = "handler"]
  /\ \E n \in 0..MaxChunks : left' = [left EXCEPT ![e] = n]
  /\ UNCHANGED <<poll_loop, is_started, app>>

StillWaitsOnceMore(e) == left[e] >= 0
StillWaits(e) == left[e] > 0

\* poll(&poll_fd, 1, -1) on the peer's socket; poll_loop is not looked at.
HandlerWaits(e) ==
  /\ thread[e] = "handler"
  /\ StillWaits(e)
  /\ left' = [left EXCEPT ![e] = left[e] - 1]
  /\ thread' = [thread EXCEPT ![e] = "inner"]
  /\ UNCHANGED <<poll_loop, is_started, app>>

PeerAnswered(e) ==
  /\ thread[e] = "inner"
  /\ thread' = [thread EXCEPT ![e] = "handler"]
  /\ UNCHANGED <<poll_loop, is_started, app, left>>

HandlerReturns(e) ==
  /\ thread[e] = "handler"
  /\ left[e] = 0
  /\ thread' = [thread EXCEPT ![e] = "scan"]
  /\ UNCHANGED <<poll_loop, is_started, app, left>>

\* The peer closed, the socket failed or the wait was interrupted: the server
\* drops that client and scans on, the client disconnects and its loop ends.
HandlerFails(e) ==
  /\ thread[e] \in {"handler", "inner", "failed"}
  /\ thread' = [thread EXCEPT ![e] = IF e \in Clients THEN "ending" ELSE "scan"]
  /\ left' = [left EXCEPT ![e] = 0]
  /\ UNCHANGED <<poll_loop, is_started, app>>

\* Every cell was visited, or poll_loop was cleared.
ScanEnds(e) ==
  /\ thread[e] = "scan"
  /\ thread' = [thread EXCEPT ![e] = "test"]
  /\ UNCHANGED <<poll_loop, is_started, app, left>>

\* An event other than POLLIN ends the client's loop (client_poll.c only).
ScanFails(e) ==
  /\ e \in Clients
  /\ thread[e] = "scan" /\ poll_loop[e]
  /\ thread' = [thread EXCEPT ![e] = "ending"]
  /\ UNCHANGED <<poll_loop, is_started, app, left>>

ThreadEnds(e) ==
  /\ thread[e] = "ending"
  /\ is_started' = [is_started EXCEPT ![e] = FALSE]
  /\ thread' = [thread EXCEPT ![e] = "dead"]
  /\ UNCHANGED <<poll_loop, app, left>>
-----------------------------------------------------------------------------
\* The rest of a call of start or stop that the application has begun.
AppInCall(e) ==
  StartCreates(e) \/ StartFails(e) \/ StartEnds(e) \/ StopKills(e) \/ StopJoins(e)

\* What the poll thread does by itself: no peer and no event is needed.
ThreadRuns(e) ==
  \/ TestLoop(e) \/ PollEnters(e) \/ PollTimesOut(e)
  \/ HandlerCalled(e) \/ HandlerWaits(e) \/ HandlerReturns(e)
  \/ thread[e] = "failed" /\ HandlerFails(e)
  \/ ScanEnds(e) \/ ThreadEnds(e)

Next == \E e \in Endpoints :
  \/ StartBegins(e) \/ StartCreates(e) \/ StartFails(e) \/ StartEnds(e)
  \/ StopBegins(e) \/ StopKills(e) \/ StopJoins(e)
  \/ TestLoop(e) \/ PollEnters(e) \/ PollReady(e) \/ PollTimesOut(e) \/ PollFails(e)
  \/ HandlerCalled(e) \/ HandlerWaits(e) \/ PeerAnswered(e)
  \/ HandlerReturns(e) \/ HandlerFails(e)
  \/ ScanEnds(e) \/ ScanFails(e) \/ ThreadEnds(e)

\* A call of start or stop goes on, a poll thread is scheduled, and the loop's
\* poll() ends after UDTCP_POLL_LOOP_TIMEOUT at the latest.  The wait inside a
\* handler has no timeout: it ends if the peer answers.
Fairness == \A e \in Endpoints :
  /\ WF_vars(AppInCall(e))
  /\ WF_vars(ThreadRuns(e))
  /\ PeersAnswer => WF_vars(PeerAnswered(e))

Spec == Init /\ [][Next]_vars /\ Fairness
-----------------------------------------------------------------------------
\* Correctness.

Running == {"test", "called", "poll", "scan", "handler", "inner", "failed", "ending"}

\* Every variable has its type; a handler that has used up its waits does
\* not wait again.
TypeOK ==
  /\ poll_loop \in [Endpoints -> BOOLEAN]
  /\ is_started \in [Endpoints -> BOOLEAN]
  /\ app \in [Endpoints -> {"idle", "creating", "created", "killing", "joining"}]
  /\ thread \in [Endpoints -> Running \cup {"none", "dead"}]
  /\ left \in [Endpoints -> 0..MaxChunks]

\* The flag the application polls (while (g_is_run && is_started)) is set
\* whenever the thread runs: it never gives up on a thread that works.
RunningIsStarted ==
  \A e \in Endpoints : app[e] = "idle" /\ thread[e] \in Running => is_started[e]

\* And it is set only then: a thread that ended by error or by a signal, at
\* any moment of start or stop, is never reported as started.
StartedRuns(e) == app[e] = "idle" /\ is_started[e] => thread[e] \in Running
StartedIsRunning == \A e \in Endpoints : StartedRuns(e)

\* That much for clients, which set is_started before pthread_create.
ClientStartedIsRunning == \A e \in Clients : StartedRuns(e)

\* When stop has returned, or start was never called, no thread is left that
\* could touch the structure the application is about to delete, and the next
\* start does not make a second one.
NoThreadAfterStop ==
  \A e \in Endpoints : app[e] = "idle" /\ ~poll_loop[e] => thread[e] = "none"

\* The inductive invariant of the proofs: what each place of the application
\* knows of the thread and of the two flags.
LifeInv ==
  /\ TypeOK
  /\ \A e \in Endpoints :
       /\ app[e] \in {"creating", "created"} => poll_loop[e]
       /\ app[e] \in {"killing", "joining"} => ~poll_loop[e]
       /\ app[e] = "created" => e \in Servers
       /\ thread[e] = "none" <=> app[e] = "creating" \/ (app[e] = "idle" /\ ~poll_loop[e])
       /\ e \in Clients =>
            (is_started[e] <=> app[e] = "creating" \/ thread[e] \in Running)
  /\ RunningIsStarted

\* udtcp_stop_* returns, even when its signal comes while the thread is
\* between two poll() calls and is lost.
StopReturns ==
  \A e \in Endpoints : app[e] = "killing" ~> app[e] = "idle"
=============================================================================
