--------------------------- MODULE HandshakeProofs ---------------------------
(***************************************************************************)
(* Proofs about Handshake, for any number of clients, any table size, any  *)
(* backlog, with early data, signals, stalled and dying clients.           *)
(***************************************************************************)
EXTENDS Handshake, FiniteSetTheorems, TLAPS

\* Nothing was written before the first attempt.
LEMMA ExchangeInit == Init => ExchangeInv
BY HandshakeAssumption
   DEF Init, ExchangeInv, AnnouncedSucceeded, Answered, ClientReadsHandshakeOnly

\* Taking the head off the queue leaves a queue of distinct clients, all of
\* them different from the head.
LEMMA TailOfQueue ==
  ASSUME queue \in Seq(Clients), queue # <<>>,
         \A j, k \in DOMAIN queue : queue[j] = queue[k] => j = k
  PROVE  /\ Head(queue) \in Clients
         /\ 1 \in DOMAIN queue /\ Head(queue) = queue[1]
         /\ Tail(queue) \in Seq(Clients)
         /\ \A k \in DOMAIN Tail(queue) :
              k + 1 \in DOMAIN queue /\ Tail(queue)[k] = queue[k + 1]
                /\ Tail(queue)[k] # Head(queue)
         /\ \A j, k \in DOMAIN Tail(queue) : Tail(queue)[j] = Tail(queue)[k] => j = k
<1>1. Len(queue) \in Nat /\ Len(queue) >= 1 /\ DOMAIN queue = 1..Len(queue)
  OBVIOUS
<1>2. DOMAIN Tail(queue) = 1..(Len(queue) - 1)
      /\ \A k \in 1..(Len(queue) - 1) : Tail(queue)[k] = queue[k + 1]
  BY <1>1
<1>3. Head(queue) = queue[1] /\ queue[1] \in Clients /\ Tail(queue) \in Seq(Clients)
  BY <1>1
<1> QED
  BY <1>1, <1>2, <1>3

\* Nothing was written yet to the client at the head of the queue.
LEMMA HeadIsEmpty ==
  ASSUME ExchangeInv, queue # <<>>
  PROVE  Head(queue) \in Clients /\ toClient[Head(queue)] = <<>>
         /\ attempt[Head(queue)] \notin {"none", "connecting"}
BY TailOfQueue DEF ExchangeInv

\* Writing the first block to the client at the head of the queue, and taking
\* it off, keeps the invariant.
LEMMA DequeueStep ==
  ASSUME ExchangeInv, queue # <<>>, queue' = Tail(queue),
         NEW block \in {<<"infos">>, <<"nul">>},
         block \in Seq({"infos", "nul", "data"}),
         toClient' = [toClient EXCEPT ![Head(queue)] = block],
         exchange' \in Clients \cup {NoClient},
         UNCHANGED <<attempt, result, toServer, slots, announced>>
  PROVE  ExchangeInv'
<1> DEFINE h == Head(queue)
<1>1. h \in Clients /\ attempt[h] \notin {"none", "connecting"}
  BY HeadIsEmpty
<1>2. /\ queue' \in Seq(Clients)
      /\ \A k \in DOMAIN queue' :
           k + 1 \in DOMAIN queue /\ queue'[k] = queue[k + 1] /\ queue'[k] # h
      /\ \A j, k \in DOMAIN queue' : queue'[j] = queue'[k] => j = k
  BY TailOfQueue DEF ExchangeInv
<1>3. toClient' \in [Clients -> Seq({"infos", "nul", "data"})]
  BY <1>1 DEF ExchangeInv
<1>4. \A c \in Clients : toClient'[c] = IF c = h THEN block ELSE toClient[c]
  BY <1>1 DEF ExchangeInv
<1> HIDE DEF h
<1>5. \A k \in DOMAIN queue' : queue'[k] \in Clients
  BY <1>2
<1>6. \A k \in DOMAIN queue' :
        /\ toClient'[queue'[k]] = <<>> /\ toServer[queue'[k]] = <<>>
        /\ attempt[queue'[k]] \notin {"none", "connecting", "answered"}
        /\ result[queue'[k]] # "SUCCESS"
        /\ queue'[k] \notin announced
  <2> SUFFICES ASSUME NEW k \in DOMAIN queue'
               PROVE  /\ toClient'[queue'[k]] = <<>> /\ toServer[queue'[k]] = <<>>
                      /\ attempt[queue'[k]] \notin {"none", "connecting", "answered"}
                      /\ result[queue'[k]] # "SUCCESS"
                      /\ queue'[k] \notin announced
    OBVIOUS
  <2>1. k + 1 \in DOMAIN queue /\ queue'[k] = queue[k + 1] /\ queue'[k] # h
    BY <1>2
  <2>2. toClient'[queue'[k]] = toClient[queue[k + 1]]
    BY <2>1, <1>4, <1>5
  <2> QED
    BY <2>1, <2>2 DEF ExchangeInv
<1>7. ClientReadsHandshakeOnly'
  BY <1>4 DEF ExchangeInv, ClientReadsHandshakeOnly
<1>8. \A c \in Clients : attempt[c] \in {"none", "connecting"} => toClient'[c] = <<>>
  BY <1>1, <1>4 DEF ExchangeInv
<1> QED
  BY <1>2, <1>3, <1>6, <1>7, <1>8 DEF ExchangeInv, AnnouncedSucceeded, Answered

\* Each step of a client or of the server's thread keeps the invariant.
LEMMA ExchangeStep == ExchangeInv /\ [Next]_vars => ExchangeInv'
<1> SUFFICES ASSUME ExchangeInv, [Next]_vars PROVE ExchangeInv'
  OBVIOUS
<1> USE HandshakeAssumption DEF ExchangeInv, AnnouncedSucceeded, Answered,
        ClientReadsHandshakeOnly, client, server
<1>0. CASE UNCHANGED vars
  BY <1>0 DEF vars
<1>1. ASSUME NEW c \in Clients, ConnectBegins(c) PROVE ExchangeInv'
  BY <1>1 DEF ConnectBegins
<1>2. ASSUME NEW c \in Clients, Established(c) PROVE ExchangeInv'
  <2>1. attempt[c] = "connecting" /\ queue' = Append(queue, c) /\ toClient[c] = <<>>
        /\ toServer[c] = <<>> /\ c \notin announced
        /\ result[c] # "SUCCESS" /\ \A k \in DOMAIN queue : queue[k] # c
    BY <1>2 DEF Established
  <2>2. /\ queue' \in Seq(Clients)
        /\ Len(queue) \in Nat /\ DOMAIN queue = 1..Len(queue)
        /\ DOMAIN queue' = 1..(Len(queue) + 1)
        /\ \A k \in DOMAIN queue : queue'[k] = queue[k]
        /\ queue'[Len(queue) + 1] = c
    BY <2>1
  <2>3. /\ \A k \in DOMAIN queue' : k \in DOMAIN queue \/ k = Len(queue) + 1
        /\ \A j, k \in DOMAIN queue' : queue'[j] = queue'[k] => j = k
    BY <2>1, <2>2
  <2>4. /\ attempt' = [attempt EXCEPT ![c] = "established"]
        /\ UNCHANGED <<result, toServer, toClient, exchange, slots, announced>>
    BY <1>2 DEF Established
  <2>5. \A k \in DOMAIN queue' :
          /\ toClient'[queue'[k]] = <<>> /\ toServer'[queue'[k]] = <<>>
          /\ attempt'[queue'[k]] \notin {"none", "connecting", "answered"}
          /\ result'[queue'[k]] # "SUCCESS"
          /\ queue'[k] \notin announced'
    BY <2>1, <2>2, <2>3, <2>4
  <2> QED
    BY <2>1, <2>2, <2>3, <2>4, <2>5
<1>3. ASSUME NEW c \in Clients, Connected(c) PROVE ExchangeInv'
  BY <1>3 DEF Connected
<1>4. ASSUME NEW c \in Clients, ConnectTimesOut(c) PROVE ExchangeInv'
  BY <1>4 DEF ConnectTimesOut, GivesUp
<1>5. ASSUME NEW c \in Clients, ConnectRefused(c) PROVE ExchangeInv'
  BY <1>5 DEF ConnectRefused, GivesUp
<1>6. ASSUME NEW c \in Clients, ClientAnswers(c) PROVE ExchangeInv'
  BY <1>6 DEF ClientAnswers, GotInfos
<1>7. ASSUME NEW c \in Clients, ClientFails(c) PROVE ExchangeInv'
  BY <1>7 DEF ClientFails, GivesUp, GotInfos
<1>8. ASSUME NEW c \in Clients, ClientDies(c) PROVE ExchangeInv'
  BY <1>8 DEF ClientDies
<1>9. ASSUME NEW c \in Clients, ClientSends(c) PROVE ExchangeInv'
  BY <1>9 DEF ClientSends
<1>10. ASSUME NEW c \in Clients, ClientLeaves(c) PROVE ExchangeInv'
  BY <1>10 DEF ClientLeaves
<1>11. ASSUME NEW c \in Clients, ServerReads(c) PROVE ExchangeInv'
  BY <1>11 DEF ServerReads
<1>12. ASSUME NEW c \in Clients, ServerDrops(c) PROVE ExchangeInv'
  BY <1>12 DEF ServerDrops
<1>13. ASSUME NEW c \in Clients, ServerSends(c) PROVE ExchangeInv'
  <2>1. attempt[c] \notin {"none", "connecting", "established", "waiting"}
        /\ \A k \in DOMAIN queue : queue[k] # c
    BY <1>13 DEF ServerSends
  <2>2. Append(toClient[c], "data") \in Seq({"infos", "nul", "data"})
    OBVIOUS
  <2> QED
    BY <1>13, <2>1, <2>2 DEF ServerSends
<1>14. ASSUME AcceptFull PROVE ExchangeInv'
  <2>1. queue # <<>> /\ queue' = Tail(queue)
    BY <1>14 DEF AcceptFull
  <2>2. toClient' = [toClient EXCEPT ![Head(queue)] = Append(toClient[Head(queue)], "nul")]
    BY <1>14 DEF AcceptFull, Refuses
  <2>3. Append(<<>>, "nul") = <<"nul">> /\ <<"nul">> \in Seq({"infos", "nul", "data"})
    OBVIOUS
  <2>4. toClient' = [toClient EXCEPT ![Head(queue)] = <<"nul">>]
    BY <2>1, <2>2, <2>3, HeadIsEmpty
  <2> HIDE DEF ExchangeInv
  <2> QED
    BY <1>14, <2>1, <2>3, <2>4, DequeueStep DEF AcceptFull, Refuses
<1>15. ASSUME AcceptBegins PROVE ExchangeInv'
  <2>1. queue # <<>> /\ queue' = Tail(queue)
    BY <1>15 DEF AcceptBegins
  <2>2. toClient' = [toClient EXCEPT ![Head(queue)] = Append(toClient[Head(queue)], "infos")]
    BY <1>15 DEF AcceptBegins
  <2>3. Append(<<>>, "infos") = <<"infos">> /\ <<"infos">> \in Seq({"infos", "nul", "data"})
    OBVIOUS
  <2>4. toClient' = [toClient EXCEPT ![Head(queue)] = <<"infos">>]
    BY <2>1, <2>2, <2>3, HeadIsEmpty
  <2>5. exchange' \in Clients \cup {NoClient}
    BY <1>15, <2>1, HeadIsEmpty DEF AcceptBegins
  <2> HIDE DEF ExchangeInv
  <2> QED
    BY <1>15, <2>1, <2>3, <2>4, <2>5, DequeueStep DEF AcceptBegins
<1>16. ASSUME ExchangeClosed PROVE ExchangeInv'
  BY <1>16 DEF ExchangeClosed, ExchangeRefused
<1>17. ASSUME ExchangeInterrupted PROVE ExchangeInv'
  BY <1>17 DEF ExchangeInterrupted, ExchangeRefused
<1>18. ASSUME ExchangeDone PROVE ExchangeInv'
  <2>1. exchange \in Clients /\ toServer[exchange] # <<>>
    BY <1>18 DEF ExchangeDone, HeardInfos
  <2>2. Answered(exchange) /\ \A k \in DOMAIN queue : queue[k] # exchange
    BY <2>1
  <2> QED
    BY <1>18, <2>1, <2>2 DEF ExchangeDone
<1>19. ASSUME ExchangeTooLong PROVE ExchangeInv'
  BY <1>19 DEF ExchangeTooLong
<1>20. ASSUME NEW c \in Clients, ConnectFails(c) PROVE ExchangeInv'
  BY <1>20 DEF ConnectFails, GivesUp
<1>21. ASSUME NEW c \in Clients, ConnectInterrupted(c) PROVE ExchangeInv'
  BY <1>21 DEF ConnectInterrupted, GivesUp
<1>22. ASSUME NEW c \in Clients, ClientReturns(c) PROVE ExchangeInv'
  BY <1>22 DEF ClientReturns
<1> QED
  BY <1>0, <1>1, <1>2, <1>3, <1>4, <1>5, <1>6, <1>7, <1>8, <1>9,
     <1>10, <1>11, <1>12, <1>13, <1>14, <1>15, <1>16, <1>17, <1>18, <1>19,
     <1>20, <1>21, <1>22 DEF Next

\* What each side may have written to the other, and when, holds in every
\* reachable state.
THEOREM ExchangeInvariant == Spec => []ExchangeInv
<1>1. Init => ExchangeInv
  BY ExchangeInit
<1>2. ExchangeInv /\ [Next]_vars => ExchangeInv'
  BY ExchangeStep
<1> QED
  BY <1>1, <1>2, PTL DEF Spec

\* The server's connect_callback is called only for clients that have sent
\* their infos, whose udtcp_connect_client can then only return SUCCESS.
THEOREM OnlySuccessAnnounced == Spec => []AnnouncedSucceeded
<1>1. ExchangeInv => AnnouncedSucceeded
  BY DEF ExchangeInv
<1> QED
  BY <1>1, ExchangeInvariant, PTL

\* The client's recv() of sizeof(udtcp_infos) + 1 bytes never swallows a byte
\* of the server's first message.
THEOREM HandshakeReadsOnlyInfos == Spec => []ClientReadsHandshakeOnly
<1>1. ExchangeInv => ClientReadsHandshakeOnly
  BY DEF ExchangeInv
<1> QED
  BY <1>1, ExchangeInvariant, PTL
-----------------------------------------------------------------------------
\* What was written to a client that has sent its infos: nothing, or the one
\* message of the server's application, since the server's infos were read.
AnsweredReadInfos ==
  \A c \in Clients :
    c \in announced \/ attempt[c] = "answered" \/ result[c] = "SUCCESS" \/ toServer[c] # <<>>
      => toClient[c] \in {<<>>, <<"data">>}

\* The cell that accept_client found free stays free during the exchange.
CellStaysFree ==
  /\ IsFiniteSet(slots)
  /\ exchange # NoClient => Cardinality(slots) < MAX_CONNECTION

StreamInv == TypeOK /\ AnsweredReadInfos /\ CellStaysFree

\* Before the first connect both streams are empty and no cell is used.
LEMMA StreamInit == Init => StreamInv
<1> SUFFICES ASSUME Init PROVE StreamInv
  OBVIOUS
<1>1. IsFiniteSet({}) /\ Cardinality({}) = 0
  BY FS_EmptySet
<1>2. <<>> \in Seq({"infos", "data"}) /\ <<>> \in Seq({"infos", "nul", "data"})
      /\ Len(<<>>) = 0 /\ <<>> \in Seq(Clients)
  OBVIOUS
<1> QED
  BY <1>1, <1>2, HandshakeAssumption
     DEF Init, StreamInv, TypeOK, AnsweredReadInfos, CellStaysFree, Results

\* A step that leaves streams, table and listening socket alone.
LEMMA ClientOnlyStep ==
  ASSUME StreamInv,
         attempt' \in [Clients -> {"none", "connecting", "established", "waiting",
                                   "answered", "returned", "dead"}],
         result' \in [Clients -> Results],
         clientClosed' \in [Clients -> BOOLEAN],
         queue' \in Seq(Clients),
         \A c \in Clients : attempt'[c] = "answered" => attempt[c] = "answered",
         \A c \in Clients : result'[c] = "SUCCESS" =>
            result[c] = "SUCCESS" \/ attempt[c] = "answered",
         UNCHANGED <<toServer, toClient, sent, serverClosed, listening, exchange,
                     slots, announced>>
  PROVE  StreamInv'
<1>1. TypeOK'
  BY DEF StreamInv, TypeOK
<1>2. AnsweredReadInfos' /\ CellStaysFree'
  BY DEF StreamInv, AnsweredReadInfos, CellStaysFree
<1> QED
  BY <1>1, <1>2 DEF StreamInv

\* Both streams of every client hold what TypeOK lets them hold.
StreamsTyped ==
  \A c \in Clients :
    /\ toServer[c] \in Seq({"infos", "data"}) /\ Len(toServer[c]) <= 2
    /\ toClient[c] \in Seq({"infos", "nul", "data"}) /\ Len(toClient[c]) <= 2

\* A step that changes the streams of one client to blocks that TypeOK allows.
LEMMA OneClientsStreams ==
  ASSUME StreamsTyped, DOMAIN toServer = Clients, DOMAIN toClient = Clients,
         NEW c \in Clients, NEW up, NEW down,
         up \in Seq({"infos", "data"}) /\ Len(up) <= 2,
         down \in Seq({"infos", "nul", "data"}) /\ Len(down) <= 2,
         toServer' = [toServer EXCEPT ![c] = up] \/ toServer' = toServer,
         toClient' = [toClient EXCEPT ![c] = down] \/ toClient' = toClient
  PROVE  StreamsTyped'
<1> SUFFICES ASSUME NEW d \in Clients
             PROVE  /\ toServer'[d] \in Seq({"infos", "data"}) /\ Len(toServer'[d]) <= 2
                    /\ toClient'[d] \in Seq({"infos", "nul", "data"}) /\ Len(toClient'[d]) <= 2
  BY DEF StreamsTyped
<1>1. toServer'[d] = toServer[d] \/ toServer'[d] = up
  OBVIOUS
<1>2. toClient'[d] = toClient[d] \/ toClient'[d] = down
  OBVIOUS
<1>3. toServer'[d] \in Seq({"infos", "data"}) /\ Len(toServer'[d]) <= 2
  BY <1>1 DEF StreamsTyped
<1>4. toClient'[d] \in Seq({"infos", "nul", "data"}) /\ Len(toClient'[d]) <= 2
  BY <1>2 DEF StreamsTyped
<1> QED
  BY <1>3, <1>4

\* Steps of a client that reads or writes.
LEMMA ClientStreamSteps ==
  ASSUME ExchangeInv, StreamInv, NEW c \in Clients,
         ClientAnswers(c) \/ ClientFails(c) \/ ClientSends(c)
  PROVE  StreamInv'
<1>t. TypeOK /\ AnsweredReadInfos /\ CellStaysFree
  BY DEF StreamInv
<1>d. /\ DOMAIN toServer = Clients /\ DOMAIN toClient = Clients
      /\ toClient \in [Clients -> Seq({"infos", "nul", "data"})]
  BY DEF ExchangeInv
<1>e. <<>> \in Seq({"infos", "data"}) /\ <<>> \in Seq({"infos", "nul", "data"}) /\ Len(<<>>) <= 2
      /\ Append(<<>>, "infos") \in Seq({"infos", "data"}) /\ Len(Append(<<>>, "infos")) <= 2
      /\ Append(<<>>, "data") \in Seq({"infos", "data"}) /\ Len(Append(<<>>, "data")) <= 2
      /\ Append(<<"infos">>, "data") \in Seq({"infos", "data"})
      /\ Len(Append(<<"infos">>, "data")) <= 2
  OBVIOUS
<1>1. CASE ClientAnswers(c)
  <2>1. toServer[c] = <<>>
    BY <1>1 DEF ClientAnswers, ExchangeInv, Answered
  <2>2. /\ toServer' = [toServer EXCEPT ![c] = Append(<<>>, "infos")]
        /\ toClient' = [toClient EXCEPT ![c] = <<>>]
        /\ attempt' = [attempt EXCEPT ![c] = "answered"]
        /\ UNCHANGED <<result, sent, clientClosed, serverClosed, server>>
    BY <1>1, <2>1 DEF ClientAnswers
  <2>3. TypeOK'
    <3>1. StreamsTyped
      BY <1>t DEF TypeOK, StreamsTyped
    <3>2. StreamsTyped'
      BY <3>1, <1>d, <1>e, <2>2, OneClientsStreams
    <3> QED
      BY <3>2, <1>t, <2>2 DEF TypeOK, StreamsTyped, server
  <2>4. AnsweredReadInfos' /\ CellStaysFree'
    BY <1>t, <1>d, <2>2 DEF AnsweredReadInfos, CellStaysFree, TypeOK, server
  <2> QED
    BY <2>3, <2>4 DEF StreamInv
<1>2. CASE ClientFails(c)
  <2>1. TypeOK'
    BY <1>2, <1>t, <1>d, <1>e DEF ClientFails, GivesUp, TypeOK, Results, server
  <2>2. AnsweredReadInfos' /\ CellStaysFree'
    BY <1>2, <1>t, <1>d DEF ClientFails, GivesUp, AnsweredReadInfos, CellStaysFree, TypeOK, server
  <2> QED
    BY <2>1, <2>2 DEF StreamInv
<1>3. CASE ClientSends(c)
  <2>1. toServer[c] \in {<<"infos">>, <<>>}
    BY <1>3 DEF ClientSends
  <2>2. Append(toServer[c], "data") \in Seq({"infos", "data"})
        /\ Len(Append(toServer[c], "data")) <= 2
    <3>1. CASE toServer[c] = <<"infos">>
      BY <3>1, <1>e
    <3>2. CASE toServer[c] = <<>>
      BY <3>2, <1>e
    <3> QED
      BY <2>1, <3>1, <3>2
  <2>3. TypeOK'
    BY <1>3, <1>t, <1>d, <2>2 DEF ClientSends, TypeOK, server
  <2>4. AnsweredReadInfos' /\ CellStaysFree'
    BY <1>3, <1>t, <1>d DEF ClientSends, AnsweredReadInfos, CellStaysFree, TypeOK, server
  <2> QED
    BY <2>3, <2>4 DEF StreamInv
<1> QED
  BY <1>1, <1>2, <1>3

\* The server's thread takes a connection off the queue: nothing was written to
\* that client, which has not answered.
LEMMA AcceptSteps ==
  ASSUME ExchangeInv, StreamInv, AcceptFull \/ AcceptBegins
  PROVE  StreamInv'
<1> DEFINE h == Head(queue)
<1>t. TypeOK /\ AnsweredReadInfos /\ CellStaysFree
  BY DEF StreamInv
<1>d. DOMAIN toServer = Clients /\ DOMAIN toClient = Clients
  BY DEF ExchangeInv
<1>e. <<>> \in Seq({"infos", "data"}) /\ Len(<<>>) <= 2
  OBVIOUS
<1>q. queue # <<>> /\ queue' = Tail(queue)
  BY DEF AcceptFull, AcceptBegins
<1>1. /\ h \in Clients /\ toClient[h] = <<>> /\ toServer[h] = <<>> /\ h \notin announced
      /\ attempt[h] # "answered" /\ result[h] # "SUCCESS" /\ queue' \in Seq(Clients)
  <2>1. h \in Clients /\ 1 \in DOMAIN queue /\ h = queue[1] /\ queue' \in Seq(Clients)
    BY <1>q, TailOfQueue DEF ExchangeInv
  <2> QED
    BY <2>1 DEF ExchangeInv
<1> HIDE DEF h
<1>2. Append(<<>>, "nul") \in Seq({"infos", "nul", "data"}) /\ Len(Append(<<>>, "nul")) <= 2
      /\ Append(<<>>, "infos") \in Seq({"infos", "nul", "data"})
      /\ Len(Append(<<>>, "infos")) <= 2
  OBVIOUS
<1>3. CASE AcceptFull
  <2>1. /\ toClient' = [toClient EXCEPT ![h] = Append(<<>>, "nul")]
        /\ serverClosed' = [serverClosed EXCEPT ![h] = TRUE]
        /\ UNCHANGED <<client, toServer, listening, exchange, slots, announced>>
    BY <1>1, <1>3 DEF AcceptFull, Refuses, h
  <2>2. TypeOK'
    <3>1. StreamsTyped
      BY <1>t DEF TypeOK, StreamsTyped
    <3>2. StreamsTyped'
      BY <3>1, <1>d, <1>1, <1>2, <1>e, <2>1, OneClientsStreams
    <3> QED
      BY <3>2, <1>t, <1>1, <2>1 DEF TypeOK, StreamsTyped, client
  <2>3. AnsweredReadInfos' /\ CellStaysFree'
    BY <1>t, <1>1, <2>1 DEF AnsweredReadInfos, CellStaysFree, ExchangeInv, client
  <2> QED
    BY <2>2, <2>3 DEF StreamInv
<1>4. CASE AcceptBegins
  <2>1. /\ toClient' = [toClient EXCEPT ![h] = Append(<<>>, "infos")]
        /\ exchange' = h
        /\ Cardinality(slots) < MAX_CONNECTION
        /\ UNCHANGED <<client, toServer, serverClosed, listening, slots, announced>>
    BY <1>1, <1>4 DEF AcceptBegins, HasSlot, h
  <2>2. TypeOK'
    <3>1. StreamsTyped
      BY <1>t DEF TypeOK, StreamsTyped
    <3>2. StreamsTyped'
      BY <3>1, <1>d, <1>1, <1>2, <1>e, <2>1, OneClientsStreams
    <3> QED
      BY <3>2, <1>t, <1>1, <2>1 DEF TypeOK, StreamsTyped, client
  <2>3. AnsweredReadInfos' /\ CellStaysFree'
    BY <1>t, <1>1, <2>1 DEF AnsweredReadInfos, CellStaysFree, ExchangeInv, client
  <2> QED
    BY <2>2, <2>3 DEF StreamInv
<1> QED
  BY <1>3, <1>4

\* The exchange ends: a client is announced only once it has read the infos,
\* and there was room for it.
LEMMA ExchangeSteps ==
  ASSUME ExchangeInv, StreamInv,
         ExchangeClosed \/ ExchangeInterrupted \/ ExchangeDone \/ ExchangeTooLong
  PROVE  StreamInv'
<1> USE HandshakeAssumption
<1>t. TypeOK /\ AnsweredReadInfos /\ CellStaysFree /\ exchange \in Clients
  BY DEF StreamInv, TypeOK, ExchangeClosed, ExchangeInterrupted, ExchangeDone, ExchangeTooLong
<1>d. DOMAIN toServer = Clients /\ DOMAIN toClient = Clients
  BY DEF ExchangeInv
<1>e. <<>> \in Seq({"infos", "data"}) /\ Len(<<>>) <= 2 /\ <<>> \in Seq(Clients)
      /\ <<>> \in Seq({"infos", "nul", "data"})
  OBVIOUS
<1>1. CASE ExchangeRefused
  <2>1. TypeOK'
    BY <1>1, <1>t DEF ExchangeRefused, TypeOK, client
  <2>2. AnsweredReadInfos' /\ CellStaysFree'
    BY <1>1, <1>t DEF ExchangeRefused, AnsweredReadInfos, CellStaysFree, client
  <2> QED
    BY <2>1, <2>2 DEF StreamInv
<1>2. CASE ExchangeDone
  <2>1. toServer[exchange] # <<>>
    BY <1>2 DEF ExchangeDone, HeardInfos
  <2>2. /\ IsFiniteSet(slots \cup {exchange})
        /\ Cardinality(slots \cup {exchange}) <= MAX_CONNECTION
    <3>1. /\ IsFiniteSet(slots \cup {exchange})
          /\ Cardinality(slots \cup {exchange}) =
               IF exchange \in slots THEN Cardinality(slots) ELSE Cardinality(slots) + 1
      BY <1>t, FS_AddElement DEF CellStaysFree
    <3>2. Cardinality(slots) \in Nat /\ Cardinality(slots) < MAX_CONNECTION
      BY <1>t, <1>2, FS_CardinalityType DEF CellStaysFree, ExchangeDone
    <3> QED
      BY <3>1, <3>2
  <2>3. TypeOK'
    BY <1>2, <1>t, <1>d, <1>e, <2>2 DEF ExchangeDone, TypeOK, client
  <2>4. AnsweredReadInfos'
    BY <1>2, <1>t, <1>d, <2>1 DEF ExchangeDone, AnsweredReadInfos, client
  <2>5. CellStaysFree'
    BY <1>2, <2>2 DEF ExchangeDone, CellStaysFree
  <2> QED
    BY <2>3, <2>4, <2>5 DEF StreamInv
<1>3. CASE ExchangeTooLong
  <2>1. toServer' = [toServer EXCEPT ![exchange] = <<>>] /\ exchange' = NoClient
        /\ UNCHANGED <<client, toClient, slots, announced>>
    BY <1>3 DEF ExchangeTooLong
  <2>2. /\ serverClosed' \in [Clients -> BOOLEAN]
        /\ listening' \in BOOLEAN
        /\ queue' \in Seq(Clients)
    BY <1>3, <1>t, <1>e DEF ExchangeTooLong, TypeOK
  <2>3. TypeOK'
    <3>1. StreamsTyped
      BY <1>t DEF TypeOK, StreamsTyped
    <3>2. StreamsTyped'
      BY <3>1, <1>t, <1>d, <1>e, <2>1, OneClientsStreams
    <3> QED
      BY <3>2, <1>t, <2>1, <2>2 DEF TypeOK, StreamsTyped, client
  <2>4. AnsweredReadInfos' /\ CellStaysFree'
    BY <1>t, <1>d, <2>1 DEF AnsweredReadInfos, CellStaysFree, client
  <2> QED
    BY <2>3, <2>4 DEF StreamInv
<1> QED
  BY <1>1, <1>2, <1>3 DEF ExchangeClosed, ExchangeInterrupted

\* Steps of the server's thread and application for a client of the table.
LEMMA TableSteps ==
  ASSUME ExchangeInv, StreamInv, NEW c \in Clients,
         ServerReads(c) \/ ServerDrops(c) \/ ServerSends(c)
  PROVE  StreamInv'
<1>t. TypeOK /\ AnsweredReadInfos /\ CellStaysFree
  BY DEF StreamInv
<1>d. /\ DOMAIN toServer = Clients /\ DOMAIN toClient = Clients
      /\ toClient \in [Clients -> Seq({"infos", "nul", "data"})]
  BY DEF ExchangeInv
<1>e. <<>> \in Seq({"infos", "data"}) /\ Len(<<>>) <= 2
      /\ Append(<<>>, "data") = <<"data">> /\ <<"data">> \in Seq({"infos", "nul", "data"})
      /\ Len(<<"data">>) <= 2
  OBVIOUS
<1>1. CASE ServerReads(c)
  <2>1. TypeOK'
    BY <1>1, <1>t, <1>d, <1>e DEF ServerReads, TypeOK, client, server
  <2>2. AnsweredReadInfos' /\ CellStaysFree'
    BY <1>1, <1>t, <1>d DEF ServerReads, AnsweredReadInfos, CellStaysFree, client, server
  <2> QED
    BY <2>1, <2>2 DEF StreamInv
<1>2. CASE ServerDrops(c)
  <2>1. /\ IsFiniteSet(slots \ {c})
        /\ Cardinality(slots \ {c}) <= MAX_CONNECTION
    <3>1. /\ IsFiniteSet(slots \ {c})
          /\ Cardinality(slots \ {c}) =
               IF c \in slots THEN Cardinality(slots) - 1 ELSE Cardinality(slots)
      BY <1>t, FS_RemoveElement DEF CellStaysFree
    <3>2. Cardinality(slots) \in Nat /\ Cardinality(slots) <= MAX_CONNECTION
      BY <1>t, FS_CardinalityType DEF CellStaysFree, TypeOK
    <3> QED
      BY <3>1, <3>2, HandshakeAssumption
  <2>2. TypeOK'
    BY <1>2, <1>t, <2>1 DEF ServerDrops, TypeOK, client
  <2>3. AnsweredReadInfos' /\ CellStaysFree'
    BY <1>2, <1>t, <2>1 DEF ServerDrops, AnsweredReadInfos, CellStaysFree, client
  <2> QED
    BY <2>2, <2>3 DEF StreamInv
<1>3. CASE ServerSends(c)
  <2>1. toClient[c] \in {<<>>, <<"data">>}
    BY <1>3, <1>t DEF ServerSends, AnsweredReadInfos, ExchangeInv
  <2>2. toClient[c] # <<"data">>
    <3>1. "data" \in Range(<<"data">>)
      BY DEF Range
    <3> QED
      BY <1>3, <3>1 DEF ServerSends
  <2>3. toClient' = [toClient EXCEPT ![c] = <<"data">>]
        /\ UNCHANGED <<client, toServer, serverClosed, server>>
    BY <1>3, <1>e, <2>1, <2>2 DEF ServerSends
  <2>4. TypeOK'
    <3>1. StreamsTyped
      BY <1>t DEF TypeOK, StreamsTyped
    <3>2. StreamsTyped'
      BY <3>1, <1>d, <1>e, <2>3, OneClientsStreams DEF client
    <3> QED
      BY <3>2, <1>t, <2>3 DEF TypeOK, StreamsTyped, client, server
  <2>5. AnsweredReadInfos' /\ CellStaysFree'
    BY <1>t, <1>d, <2>3 DEF AnsweredReadInfos, CellStaysFree, client, server
  <2> QED
    BY <2>4, <2>5 DEF StreamInv
<1> QED
  BY <1>1, <1>2, <1>3

\* The remaining steps of a client, which only change where it is.
LEMMA ClientQuietSteps ==
  ASSUME ExchangeInv, StreamInv, NEW c \in Clients,
         \/ ConnectBegins(c) \/ ConnectFails(c) \/ Established(c) \/ Connected(c)
         \/ ConnectTimesOut(c) \/ ConnectRefused(c) \/ ConnectInterrupted(c)
         \/ ClientReturns(c) \/ ClientDies(c) \/ ClientLeaves(c)
  PROVE  StreamInv'
<1>t. TypeOK
  BY DEF StreamInv
<1> USE DEF TypeOK, Results, server
<1>1. CASE ConnectBegins(c)
  BY <1>1, <1>t, ClientOnlyStep DEF ConnectBegins
<1>2. CASE ConnectFails(c) \/ ConnectTimesOut(c) \/ ConnectRefused(c) \/ ConnectInterrupted(c)
  <2>1. PICK r \in {"ERROR", "TIMEOUT"} : GivesUp(c, r)
    BY <1>2 DEF ConnectFails, ConnectTimesOut, ConnectRefused, ConnectInterrupted
  <2>2. UNCHANGED <<toServer, toClient, serverClosed, server>>
    BY <1>2 DEF ConnectFails, ConnectTimesOut, ConnectRefused, ConnectInterrupted
  <2> QED
    BY <2>1, <2>2, <1>t, ClientOnlyStep DEF GivesUp
<1>3. CASE Established(c)
  <2>1. Append(queue, c) \in Seq(Clients)
    BY <1>t
  <2> QED
    BY <1>3, <2>1, <1>t, ClientOnlyStep DEF Established
<1>4. CASE Connected(c)
  BY <1>4, <1>t, ClientOnlyStep DEF Connected
<1>5. CASE ClientReturns(c)
  BY <1>5, <1>t, ClientOnlyStep DEF ClientReturns
<1>6. CASE ClientDies(c)
  BY <1>6, <1>t, ClientOnlyStep DEF ClientDies
<1>7. CASE ClientLeaves(c)
  BY <1>7, <1>t, ClientOnlyStep DEF ClientLeaves
<1> QED
  BY <1>1, <1>2, <1>3, <1>4, <1>5, <1>6, <1>7

\* Every step of either side preserves StreamInv.
LEMMA StreamStep == ExchangeInv /\ StreamInv /\ [Next]_vars => StreamInv'
<1> SUFFICES ASSUME ExchangeInv, StreamInv, [Next]_vars PROVE StreamInv'
  OBVIOUS
<1>1. CASE UNCHANGED vars
  BY <1>1 DEF vars, StreamInv, TypeOK, AnsweredReadInfos, CellStaysFree
<1>2. CASE Next
  BY <1>2, ClientStreamSteps, AcceptSteps, ExchangeSteps, TableSteps, ClientQuietSteps DEF Next
<1> QED
  BY <1>1, <1>2

\* Every variable of Handshake keeps its type; in particular the server never
\* has more clients than cells, although the room is checked before the
\* exchange and used after it, and no stream ever holds more than an infos and
\* one message.
THEOREM HandshakeTypeCorrect == Spec => []TypeOK
<1>1. Init => StreamInv
  BY StreamInit
<1>2. ExchangeInv /\ StreamInv /\ [Next]_vars => StreamInv'
  BY StreamStep
<1>3. StreamInv => TypeOK
  BY DEF StreamInv
<1> QED
  BY <1>1, <1>2, <1>3, ExchangeInvariant, PTL DEF Spec
=============================================================================
