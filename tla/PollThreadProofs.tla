-------------------------- MODULE PollThreadProofs --------------------------
(***************************************************************************)
(* Proofs about PollThread, for any number of servers and clients in one   *)
(* application.                                                            *)
(***************************************************************************)
EXTENDS PollThread, TLAPS

\* Nothing is started in the initial state.
LEMMA LifeInit == Init => LifeInv
BY PollThreadAssumption
   DEF Init, LifeInv, TypeOK, RunningIsStarted, Running, Endpoints

\* Each step of the application or of a poll thread, on any endpoint, keeps
\* the invariant.
LEMMA LifeStep == LifeInv /\ [Next]_vars => LifeInv'
<1> SUFFICES ASSUME LifeInv, [Next]_vars PROVE LifeInv'
  OBVIOUS
<1> USE PollThreadAssumption DEF LifeInv, TypeOK, RunningIsStarted, Running, Endpoints
<1>0. CASE UNCHANGED vars
  BY <1>0 DEF vars
<1>1. ASSUME NEW e \in Endpoints, StartBegins(e) PROVE LifeInv'
  <2>1. StartedBeforeCreate(e) \in BOOLEAN /\ (e \in Clients => StartedBeforeCreate(e))
    BY DEF StartedBeforeCreate
  <2> QED
    BY <1>1, <2>1 DEF StartBegins, AppIdle
<1>2. ASSUME NEW e \in Endpoints, StartCreates(e) PROVE LifeInv'
  BY <1>2 DEF StartCreates, AfterCreate
<1>3. ASSUME NEW e \in Endpoints, StartFails(e) PROVE LifeInv'
  BY <1>3 DEF StartFails
<1>4. ASSUME NEW e \in Endpoints, StartEnds(e) PROVE LifeInv'
  BY <1>4 DEF StartEnds, StartedAfterCreate
<1>5. ASSUME NEW e \in Endpoints, StopBegins(e) PROVE LifeInv'
  BY <1>5 DEF StopBegins, AppIdle
<1>6. ASSUME NEW e \in Endpoints, StopKills(e) PROVE LifeInv'
  BY <1>6 DEF StopKills, Interrupted
<1>7. ASSUME NEW e \in Endpoints, StopJoins(e) PROVE LifeInv'
  BY <1>7 DEF StopJoins, Joinable
<1>8. ASSUME NEW e \in Endpoints, TestLoop(e) PROVE LifeInv'
  BY <1>8 DEF TestLoop
<1>9. ASSUME NEW e \in Endpoints, PollReady(e) PROVE LifeInv'
  BY <1>9 DEF PollReady
<1>10. ASSUME NEW e \in Endpoints, PollTimesOut(e) PROVE LifeInv'
  BY <1>10 DEF PollTimesOut
<1>11. ASSUME NEW e \in Endpoints, PollFails(e) PROVE LifeInv'
  BY <1>11 DEF PollFails
<1>12. ASSUME NEW e \in Endpoints, HandlerCalled(e) PROVE LifeInv'
  BY <1>12 DEF HandlerCalled
<1>13. ASSUME NEW e \in Endpoints, HandlerWaits(e) PROVE LifeInv'
  BY <1>13 DEF HandlerWaits, StillWaits
<1>14. ASSUME NEW e \in Endpoints, PeerAnswered(e) PROVE LifeInv'
  BY <1>14 DEF PeerAnswered
<1>15. ASSUME NEW e \in Endpoints, HandlerReturns(e) PROVE LifeInv'
  BY <1>15 DEF HandlerReturns
<1>16. ASSUME NEW e \in Endpoints, HandlerFails(e) PROVE LifeInv'
  BY <1>16 DEF HandlerFails
<1>17. ASSUME NEW e \in Endpoints, ScanEnds(e) PROVE LifeInv'
  BY <1>17 DEF ScanEnds
<1>18. ASSUME NEW e \in Endpoints, ScanFails(e) PROVE LifeInv'
  BY <1>18 DEF ScanFails
<1>19. ASSUME NEW e \in Endpoints, ThreadEnds(e) PROVE LifeInv'
  BY <1>19 DEF ThreadEnds
<1>20. ASSUME NEW e \in Endpoints, PollEnters(e) PROVE LifeInv'
  BY <1>20 DEF PollEnters
<1> QED
  BY <1>0, <1>1, <1>2, <1>3, <1>4, <1>5, <1>6, <1>7, <1>8, <1>9,
     <1>10, <1>11, <1>12, <1>13, <1>14, <1>15, <1>16, <1>17, <1>18, <1>19,
     <1>20 DEF Next

\* What the application's place says of the thread and of the flags holds in
\* every reachable state.
THEOREM LifeInvariant == Spec => []LifeInv
<1>1. Init => LifeInv
  BY LifeInit
<1>2. LifeInv /\ [Next]_vars => LifeInv'
  BY LifeStep
<1> QED
  BY <1>1, <1>2, PTL DEF Spec

\* The flags, the places and the count of waits keep their types.
THEOREM ThreadTypeCorrect == Spec => []TypeOK
<1>1. LifeInv => TypeOK
  BY DEF LifeInv
<1> QED
  BY <1>1, LifeInvariant, PTL

\* After udtcp_stop_* has returned no thread of that endpoint is left, for
\* every interleaving of stop with the loop, its polls and its handlers.
THEOREM StopLeavesNoThread == Spec => []NoThreadAfterStop
<1>1. LifeInv => NoThreadAfterStop
  BY DEF LifeInv, NoThreadAfterStop
<1> QED
  BY <1>1, LifeInvariant, PTL

\* A running thread is reported as started once start has returned.
THEOREM RunningReported == Spec => []RunningIsStarted
<1>1. LifeInv => RunningIsStarted
  BY DEF LifeInv
<1> QED
  BY <1>1, LifeInvariant, PTL

\* With the client's order of is_started and pthread_create, a client
\* reported as started has a running thread.
THEOREM ClientsStartedRun == Spec => []ClientStartedIsRunning
<1>1. LifeInv => ClientStartedIsRunning
  BY DEF LifeInv, ClientStartedIsRunning, StartedRuns, Endpoints
<1> QED
  BY <1>1, LifeInvariant, PTL
=============================================================================
