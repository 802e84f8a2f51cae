------------------------------ MODULE Sessions ------------------------------
(***************************************************************************)
(* What a udtcp server promises to the application that installs           *)
(* connect_callback and disconnect_callback: every client it reports gets  *)
(* a fresh id, ids are handed out in increasing order without gaps, each   *)
(* id is announced once and withdrawn at most once, and at most            *)
(* UDTCP_MAX_CONNECTION ids are connected at a time.  Nothing is said of   *)
(* sockets, poll tables or slots: ServerPoll implements this module.       *)
(***************************************************************************)
EXTENDS Integers, FiniteSets

CONSTANTS MAX_CONNECTION,   \* UDTCP_MAX_CONNECTION
          MaxId             \* bound on the ids that are handed out

VARIABLE session            \* what the callbacks have told of each id

Ids == 1..MaxId

Connected == {k \in Ids : session[k] = "connected"}

Init == session = [k \in Ids |-> "none"]

\* connect_callback is called for the next id.
Connect(k) ==
  /\ session[k] = "none"
  /\ \A l \in 1..(k - 1) : session[l] # "none"
  /\ Cardinality(Connected) < MAX_CONNECTION
  /\ session' = [session EXCEPT ![k] = "connected"]

\* disconnect_callback is called for a connected id.
Disconnect(k) ==
  /\ session[k] = "connected"
  /\ session' = [session EXCEPT ![k] = "closed"]

\* The server is deleted: disconnect_callback for every id still connected.
Shutdown ==
  session' = [k \in Ids |-> IF session[k] = "connected" THEN "closed"
                                                        ELSE session[k]]

Next == \/ \E k \in Ids : Connect(k) \/ Disconnect(k)
        \/ Shutdown

Spec == Init /\ [][Next]_session
=============================================================================
