------------------------------ MODULE Handshake ------------------------------
(***************************************************************************)
(* Making a connection: udtcp_connect_client and its initialize_connection *)
(* (connect_client.c) against accept_client and its initialize_connection  *)
(* (server_poll.c).  The server sends its udtcp_infos, the client answers  *)
(* with its own, and each side then calls its connect_callback.            *)
(*                                                                         *)
(* Each member of Clients makes one attempt.  A connection is a pair of    *)
(* byte streams, kept as sequences of the blocks that were written; a      *)
(* block is delivered whole (a udtcp_infos is smaller than a TCP segment). *)
(* recv() asks for sizeof(udtcp_infos) + 1 bytes: it returns the right     *)
(* size when the stream holds one infos block and nothing behind it.       *)
(***************************************************************************)
EXTENDS Integers, Sequences, FiniteSets, Functions

CONSTANTS
  Clients,          \* the attempts to connect
  NoClient,         \* "none of them"
  MAX_CONNECTION,   \* UDTCP_MAX_CONNECTION
  Backlog,          \* length of the queue listen() asks for
  Stalled,          \* clients that may stop answering without closing
  Disturbances      \* subset of {"pipeline", "interrupt"}: clients send data
                    \* as soon as they are connected; signals end a poll()

ASSUME HandshakeAssumption ==
  /\ NoClient \notin Clients
  /\ MAX_CONNECTION \in Nat \ {0}
  /\ Backlog \in Nat \ {0}
  /\ Stalled \subseteq Clients
  /\ Disturbances \subseteq {"pipeline", "interrupt"}

VARIABLES
  attempt,          \* where each client is in udtcp_connect_client
  result,           \* what udtcp_connect_client returned
  toServer,         \* blocks the client wrote and the server did not read
  toClient,         \* blocks the server wrote and the client did not read
  sent,             \* clients that have sent their one message
  clientClosed,     \* the client's end of the connection is closed
  serverClosed,     \* the server's end is closed
  listening,        \* the listening socket is open
  queue,            \* established connections, not yet accepted
  exchange,         \* the client accept_client waits for, or NoClient
  slots,            \* clients in the server's table
  announced         \* clients the server's connect_callback was called for

vars == <<attempt, result, toServer, toClient, sent, clientClosed, serverClosed,
          listening, queue, exchange, slots, announced>>
client == <<attempt, result, sent, clientClosed>>
server == <<listening, queue, exchange, slots, announced>>

Init ==
  /\ attempt = [c \in Clients |-> "none"]
  /\ result = [c \in Clients |-> "none"]
  /\ toServer = [c \in Clients |-> <<>>]
  /\ toClient = [c \in Clients |-> <<>>]
  /\ sent = {}
  /\ clientClosed = [c \in Clients |-> FALSE]
  /\ serverClosed = [c \in Clients |-> FALSE]
  /\ listening = TRUE
  /\ queue = <<>>
  /\ exchange = NoClient
  /\ slots = {}
  /\ announced = {}
-----------------------------------------------------------------------------
\* The client.

\* close_tcp_socket, and udtcp_connect_client returns r.
GivesUp(c, r) ==
  /\ attempt' = [attempt EXCEPT ![c] = "returned"]
  /\ result' = [result EXCEPT ![c] = r]
  /\ clientClosed' = [clientClosed EXCEPT ![c] = TRUE]
  /\ UNCHANGED sent

\* create_tcp_socket and connect(): the answer is EINPROGRESS.
ConnectBegins(c) ==
  /\ attempt[c] = "none"
  /\ attempt' = [attempt EXCEPT ![c] = "connecting"]
  /\ UNCHANGED <<result, sent, clientClosed, toServer, toClient, serverClosed, server>>

\* create_tcp_socket, gethostbyname or connect() fails at once.
ConnectFails(c) ==
  /\ attempt[c] = "none"
  /\ GivesUp(c, "ERROR")
  /\ UNCHANGED <<toServer, toClient, serverClosed, server>>

\* The connection is established at the server's kernel, if its queue has room.
Established(c) ==
  /\ attempt[c] = "connecting"
  /\ listening
  /\ Len(queue) < Backlog
  /\ queue' = Append(queue, c)
  /\ attempt' = [attempt EXCEPT ![c] = "established"]
  /\ UNCHANGED <<result, sent, clientClosed, toServer, toClient, serverClosed,
                 listening, exchange, slots, announced>>

\* poll(timeout) reports the connection: initialize_connection begins.
Connected(c) ==
  /\ attempt[c] = "established"
  /\ attempt' = [attempt EXCEPT ![c] = "waiting"]
  /\ UNCHANGED <<result, sent, clientClosed, toServer, toClient, serverClosed, server>>

\* poll(timeout) returned 0, maybe an instant before the connection it waits
\* for was established.
ConnectTimesOut(c) ==
  /\ attempt[c] \in {"connecting", "established"}
  /\ GivesUp(c, "TIMEOUT")
  /\ UNCHANGED <<toServer, toClient, serverClosed, server>>

ConnectRefused(c) ==
  /\ attempt[c] = "connecting"
  /\ ~listening
  /\ GivesUp(c, "ERROR")
  /\ UNCHANGED <<toServer, toClient, serverClosed, server>>

\* A signal ends one of the two poll() calls of udtcp_connect_client.
ConnectInterrupted(c) ==
  /\ "interrupt" \in Disturbances
  /\ attempt[c] \in {"connecting", "established", "waiting"}
  /\ GivesUp(c, "ERROR")
  /\ UNCHANGED <<toServer, toClient, serverClosed, server>>

\* recv() in initialize_connection returned sizeof(udtcp_infos).
GotInfos(c) == toClient[c] = <<"infos">>

\* The answer is sent: initialize_connection returns UDTCP_CONNECT_SUCCESS.
ClientAnswers(c) ==
  /\ attempt[c] = "waiting"
  /\ GotInfos(c)
  /\ toClient' = [toClient EXCEPT ![c] = <<>>]
  /\ toServer' = [toServer EXCEPT ![c] = Append(@, "infos")]
  /\ attempt' = [attempt EXCEPT ![c] = "answered"]
  /\ UNCHANGED <<result, sent, clientClosed, serverClosed, server>>

\* server_infos is completed, connect_callback is called, the call succeeds.
\* The server may be ahead of it by now.
ClientReturns(c) ==
  /\ attempt[c] = "answered"
  /\ attempt' = [attempt EXCEPT ![c] = "returned"]
  /\ result' = [result EXCEPT ![c] = "SUCCESS"]
  /\ UNCHANGED <<sent, clientClosed, toServer, toClient, serverClosed, server>>

\* recv() returned anything else, or the answer could not be sent because the
\* server closed first.
ClientFails(c) ==
  /\ attempt[c] = "waiting"
  /\ toClient[c] # <<>> \/ serverClosed[c]
  /\ GotInfos(c) => serverClosed[c]
  /\ GivesUp(c, IF toClient[c] = <<"nul">> THEN "TOO_MANY" ELSE "ERROR")
  /\ toClient' = [toClient EXCEPT ![c] = <<>>]
  /\ UNCHANGED <<toServer, serverClosed, server>>

\* The client's process is killed in the middle of the call.
ClientDies(c) ==
  /\ attempt[c] \in {"connecting", "established", "waiting", "answered"}
  /\ attempt' = [attempt EXCEPT ![c] = "dead"]
  /\ clientClosed' = [clientClosed EXCEPT ![c] = TRUE]
  /\ UNCHANGED <<result, sent, toServer, toClient, serverClosed, server>>

\* A connected client calls udtcp_send_tcp.  A client sends one message: one
\* that never pauses would keep the server in its receive loop for ever.
ClientSends(c) ==
  /\ result[c] = "SUCCESS" /\ ~clientClosed[c] /\ c \notin sent
  /\ sent' = sent \cup {c}
  /\ toServer[c] \in IF "pipeline" \in Disturbances THEN {<<"infos">>, <<>>} ELSE {<<>>}
  /\ toServer' = [toServer EXCEPT ![c] = Append(@, "data")]
  /\ UNCHANGED <<attempt, result, clientClosed, toClient, serverClosed, server>>

\* A connected client leaves: udtcp_delete_client.
ClientLeaves(c) ==
  /\ result[c] = "SUCCESS" /\ ~clientClosed[c]
  /\ clientClosed' = [clientClosed EXCEPT ![c] = TRUE]
  /\ UNCHANGED <<attempt, result, sent, toServer, toClient, serverClosed, server>>
-----------------------------------------------------------------------------
\* The server: one thread, which does nothing else while it is in an exchange.

HasSlotMutant == Cardinality(slots) <= MAX_CONNECTION
HasSlot == Cardinality(slots) < MAX_CONNECTION

\* send(tmp_sock, "", 1, 0) and close(tmp_sock).
RefusesSilently(c) == UNCHANGED <<toClient, serverClosed>>
Refuses(c) ==
  /\ toClient' = [toClient EXCEPT ![c] = Append(@, "nul")]
  /\ serverClosed' = [serverClosed EXCEPT ![c] = TRUE]

\* accept_client on a full table.
AcceptFull ==
  /\ exchange = NoClient /\ queue # <<>> /\ ~HasSlot
  /\ Refuses(Head(queue))
  /\ queue' = Tail(queue)
  /\ UNCHANGED <<client, toServer, listening, exchange, slots, announced>>

\* accept(), then initialize_connection sends server_infos and polls (-1).
AcceptBegins ==
  /\ exchange = NoClient /\ queue # <<>> /\ HasSlot
  /\ toClient' = [toClient EXCEPT ![Head(queue)] = Append(@, "infos")]
  /\ exchange' = Head(queue)
  /\ queue' = Tail(queue)
  /\ UNCHANGED <<client, toServer, serverClosed, listening, slots, announced>>

\* The accepted socket is closed and accept_client returns -1.
ExchangeRefused ==
  /\ serverClosed' = [serverClosed EXCEPT ![exchange] = TRUE]
  /\ exchange' = NoClient
  /\ UNCHANGED <<client, toServer, toClient, listening, queue, slots, announced>>

\* The client closed: recv() = 0, or the send failed before.
ExchangeClosed ==
  /\ exchange # NoClient
  /\ clientClosed[exchange] /\ toServer[exchange] = <<>>
  /\ ExchangeRefused

\* A signal ended the poll().
ExchangeInterrupted ==
  /\ exchange # NoClient
  /\ "interrupt" \in Disturbances
  /\ ExchangeRefused

\* recv() in the server's initialize_connection returned sizeof(udtcp_infos).
HeardInfosOrClose(c) == toServer[c] = <<"infos">> \/ clientClosed[c]
HeardNothingYet(c) == Len(toServer[c]) <= 1
HeardInfosAndOpen(c) == toServer[c] = <<"infos">> /\ ~clientClosed[c]
HeardInfos(c) == toServer[c] = <<"infos">>

\* The client is announced and takes a cell of the table.
ExchangeDone ==
  /\ exchange # NoClient
  /\ HeardInfos(exchange)
  /\ toServer' = [toServer EXCEPT ![exchange] = <<>>]
  /\ slots' = slots \cup {exchange}
  /\ announced' = announced \cup {exchange}
  /\ exchange' = NoClient
  /\ UNCHANGED <<client, toClient, serverClosed, listening, queue>>

\* recv() found more than one udtcp_infos: the size is wrong, and tcp_socket
\* has become the number the client's socket has in the client's process.
\* close() takes that number for one of the server's: its own listening
\* socket, the socket of some client, or none.
ExchangeTooLong ==
  /\ exchange # NoClient
  /\ Len(toServer[exchange]) > 1
  /\ toServer' = [toServer EXCEPT ![exchange] = <<>>]
  /\ exchange' = NoClient
  /\ \/ UNCHANGED <<listening, queue, serverClosed>>
     \/ /\ listening' = FALSE
        /\ queue' = <<>>
        /\ serverClosed' = [c \in Clients |->
             serverClosed[c] \/ c \in Range(queue)]
     \/ /\ \E c \in slots \cup {exchange} :
             serverClosed' = [serverClosed EXCEPT ![c] = TRUE]
        /\ UNCHANGED <<listening, queue>>
  /\ UNCHANGED <<client, toClient, slots, announced>>

\* receive_tcp on a client of the table.
ServerReads(c) ==
  /\ exchange = NoClient /\ c \in slots /\ ~serverClosed[c]
  /\ toServer[c] # <<>>
  /\ toServer' = [toServer EXCEPT ![c] = <<>>]
  /\ UNCHANGED <<client, toClient, serverClosed, server>>

\* receive_tcp returned 0: disconnect(), and the cell is free again.
ServerDrops(c) ==
  /\ exchange = NoClient /\ c \in slots /\ ~serverClosed[c]
  /\ toServer[c] = <<>> /\ clientClosed[c]
  /\ serverClosed' = [serverClosed EXCEPT ![c] = TRUE]
  /\ slots' = slots \ {c}
  /\ UNCHANGED <<client, toServer, toClient, listening, queue, exchange, announced>>

\* The server's application answers a client of the table, from its
\* connect_callback at the earliest.
ServerSends(c) ==
  /\ c \in slots /\ ~serverClosed[c]
  /\ "data" \notin Range(toClient[c]) /\ ~clientClosed[c]
  /\ toClient' = [toClient EXCEPT ![c] = Append(@, "data")]
  /\ UNCHANGED <<client, toServer, serverClosed, server>>
-----------------------------------------------------------------------------
ClientCall(c) ==
  \/ Established(c) \/ Connected(c) \/ ConnectTimesOut(c) \/ ConnectRefused(c)
  \/ ClientAnswers(c) \/ ClientReturns(c) \/ ClientFails(c)

ServerThread ==
  \/ AcceptFull \/ AcceptBegins \/ ExchangeClosed \/ ExchangeDone \/ ExchangeTooLong
  \/ \E c \in Clients : ServerReads(c) \/ ServerDrops(c)

Next ==
  \/ \E c \in Clients :
       \/ ConnectBegins(c) \/ ConnectFails(c) \/ Established(c) \/ Connected(c)
       \/ ConnectTimesOut(c) \/ ConnectRefused(c) \/ ConnectInterrupted(c)
       \/ ClientAnswers(c) \/ ClientReturns(c) \/ ClientFails(c) \/ ClientDies(c)
       \/ ClientSends(c) \/ ClientLeaves(c)
       \/ ServerReads(c) \/ ServerDrops(c) \/ ServerSends(c)
  \/ AcceptFull \/ AcceptBegins
  \/ ExchangeClosed \/ ExchangeInterrupted \/ ExchangeDone \/ ExchangeTooLong

\* The server's thread is scheduled, and so is every client that is not
\* stalled; a connection attempt ends at its timeout at the latest.
Fairness ==
  /\ WF_vars(ServerThread)
  /\ \A c \in Clients \ Stalled : WF_vars(ClientCall(c))

Spec == Init /\ [][Next]_vars /\ Fairness
-----------------------------------------------------------------------------
\* Correctness.

Results == {"none", "SUCCESS", "ERROR", "TIMEOUT", "TOO_MANY"}

\* Every variable has its type, a stream never holds more than an infos and
\* one message, and the server never has more clients than cells.
TypeOK ==
  /\ attempt \in [Clients -> {"none", "connecting", "established", "waiting",
                              "answered", "returned", "dead"}]
  /\ result \in [Clients -> Results]
  /\ \A c \in Clients :
       /\ toServer[c] \in Seq({"infos", "data"}) /\ Len(toServer[c]) <= 2
       /\ toClient[c] \in Seq({"infos", "nul", "data"}) /\ Len(toClient[c]) <= 2
  /\ sent \subseteq Clients
  /\ clientClosed \in [Clients -> BOOLEAN]
  /\ serverClosed \in [Clients -> BOOLEAN]
  /\ listening \in BOOLEAN
  /\ queue \in Seq(Clients)
  /\ exchange \in Clients \cup {NoClient}
  /\ slots \subseteq Clients /\ Cardinality(slots) <= MAX_CONNECTION
  /\ announced \subseteq Clients

\* Client c sent its infos before it returned or died.
Answered(c) ==
  /\ attempt[c] \in {"answered", "returned", "dead"}
  /\ result[c] = IF attempt[c] = "returned" THEN "SUCCESS" ELSE "none"

\* The server announces a client only once that client has answered, and then
\* its call can only return SUCCESS: one that timed out, failed, was
\* interrupted or was told "too many" is never announced, however late its
\* connection is accepted.
AnnouncedSucceeded == \A c \in announced : Answered(c)

\* The client's first recv() never finds application data: the server sends
\* some only to a client whose infos it has.
ClientReadsHandshakeOnly ==
  \A c \in Clients : attempt[c] \in {"established", "waiting"} =>
    toClient[c] \in {<<>>, <<"infos">>, <<"nul">>}

\* Every call of udtcp_connect_client by a client that is scheduled returns,
\* unless its process dies.
ConnectReturns ==
  \A c \in Clients \ Stalled :
    attempt[c] = "connecting" ~> attempt[c] \in {"returned", "dead"}

\* A client that was told SUCCESS is announced by the server.  With early data
\* or signals the server may refuse it instead, after it has sent or by
\* closing the connection; it is never left waiting.
SuccessIsAnnounced ==
  \A c \in Clients :
    result[c] = "SUCCESS" ~>
      \/ c \in announced
      \/ Disturbances # {} /\ (c \in sent \/ serverClosed[c])

\* The inductive invariant of the proofs: only a client that answered has
\* written to the server, a queued connection is queued once and nothing was
\* written to it by either side, and the table holds announced clients only.
ExchangeInv ==
  /\ attempt \in [Clients -> {"none", "connecting", "established", "waiting",
                              "answered", "returned", "dead"}]
  /\ DOMAIN result = Clients /\ DOMAIN toServer = Clients
  /\ toClient \in [Clients -> Seq({"infos", "nul", "data"})]
  /\ queue \in Seq(Clients)
  /\ exchange \in Clients \cup {NoClient}
  /\ announced \subseteq Clients
  /\ slots \subseteq announced
  /\ \A c \in Clients : result[c] # "none" => attempt[c] = "returned"
  /\ \A c \in Clients : toServer[c] # <<>> => Answered(c)
  /\ AnnouncedSucceeded
  /\ \A c \in Clients : attempt[c] \in {"none", "connecting"} => toClient[c] = <<>>
  /\ \A k \in DOMAIN queue :
       /\ toClient[queue[k]] = <<>> /\ toServer[queue[k]] = <<>>
       /\ attempt[queue[k]] \notin {"none", "connecting", "answered"}
       /\ result[queue[k]] # "SUCCESS"
       /\ queue[k] \notin announced
  /\ \A j, k \in DOMAIN queue : queue[j] = queue[k] => j = k
  /\ ClientReadsHandshakeOnly
=============================================================================
