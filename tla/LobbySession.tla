---------------------------- MODULE LobbySession ----------------------------
(***************************************************************************)
(* The session a game has with the emulated lobby: a ticket from the       *)
(* authentication server (auth3_server.cpp), the handshake that turns the  *)
(* hashed packets of both sides into keys (lobby_server.cpp, keys.cpp),    *)
(* and the encrypted tasks and replies (service.hpp, reply.cpp).           *)
(*                                                                         *)
(* The servers keep their state for the life of the process: the packets   *)
(* to hash, the keys, both counters and the queues of the TCP servers      *)
(* survive a connection.  The game is not part of the repository; Client   *)
(* models what the servers rely on: it waits for an answer in each step of *)
(* the handshake, hashes the packets of its own connection, accepts the    *)
(* response only if its own keys give the same, and may close and connect  *)
(* again at any moment.  Several tasks can be under way at once.           *)
(*                                                                         *)
(* Cryptography is symbolic: keys are the session key and the sequence of  *)
(* hashed packets they are derived from.                                   *)
(***************************************************************************)
EXTENDS Naturals, Sequences, FiniteSets, LobbyServices

CONSTANTS
    Requests,     \* pairs <<service, task>> the game asks for
    MaxSessions,  \* bound: connections of the game
    MaxTasks,     \* bound: tasks of one connection
    NoKey         \* a key nobody has derived

ASSUME LobbyAssumption ==
    /\ Requests \subseteq Nat \X Nat
    /\ MaxSessions \in Nat \ {0}
    /\ MaxTasks \in Nat

VARIABLES
    authIn,        \* in_queue_ of the authentication server
    authOut,       \* its out_queue_
    lobbyIn,       \* in_queue_ of the lobby
    lobbyOut,      \* its out_queue_, message by message
    packetBuffer,  \* packet_buffer
    data,          \* data: the session key, and what the other keys derive from
    taskId,        \* task_id_ of each service
    msgCount,      \* msg_count of encrypted_reply::data
    transaction,   \* id of service_reply::send
    client,        \* the game
    helloes,       \* history: the connections that began a handshake
    thrown         \* history: <<connection, task>> whose handler threw

queues == <<authIn, authOut, lobbyIn, lobbyOut>>
crypto == <<packetBuffer, data>>
vars   == <<queues, crypto, taskId, msgCount, transaction, client, helloes, thrown>>

SESSION_KEY == "session_key"   \* the constant the authentication server hands out

\* derive_keys_iw8
Derive(key, packets) == [key |-> key, packets |-> packets]

\* The packets that are hashed: two of the game's, one of the lobby's.
Packet == {"hello", "auth"} \X (1 .. MaxSessions)
Ack    == <<"ack", 0>>
Keys   == [key : {NoKey, SESSION_KEY}, packets : Seq(Packet \cup {Ack})]

Fresh(n) ==
    [session |-> n, step |-> "idle", ticket |-> NoKey, packets |-> <<>>, keys |-> NoKey,
     asked |-> <<>>, answers |-> <<>>]

Init ==
    /\ authIn = <<>> /\ authOut = <<>> /\ lobbyIn = <<>> /\ lobbyOut = <<>>
    /\ packetBuffer = <<>>
    /\ data = [m_session_key |-> NoKey, keys |-> NoKey]
    /\ taskId = [s \in DOMAIN Services |-> 0]
    /\ msgCount = 0
    /\ transaction = 0
    /\ client = Fresh(1)
    /\ helloes = {}
    /\ thrown = {}

-----------------------------------------------------------------------------
(* The authentication server *)

\* auth3_server::handle: the header of the request is not answered.
HandlePost ==
    /\ authIn # <<>>
    /\ Head(authIn) = "post"
    /\ authIn' = Tail(authIn)
    /\ UNCHANGED <<authOut, lobbyIn, lobbyOut, crypto, taskId, msgCount, transaction,
                   client, helloes, thrown>>

\* Mutant: the other keys of data are zeroed with it.
set_session_key_Fresh(key) == [m_session_key |-> key, keys |-> NoKey]

set_session_key(key) == [data EXCEPT !.m_session_key = key]

\* Its body is, with a ticket that holds the session key.
HandleTicketRequest ==
    /\ authIn # <<>>
    /\ Head(authIn) = "body"
    /\ authIn' = Tail(authIn)
    /\ data' = set_session_key(SESSION_KEY)
    /\ authOut' = Append(authOut, SESSION_KEY)
    /\ UNCHANGED <<lobbyIn, lobbyOut, packetBuffer, taskId, msgCount, transaction,
                   client, helloes, thrown>>

-----------------------------------------------------------------------------
(* The lobby.  One message per packet: every path of handle returns. *)

TakesFromLobby(type) ==
    /\ lobbyIn # <<>>
    /\ Head(lobbyIn).type = type
    /\ lobbyIn' = Tail(lobbyIn)
    /\ UNCHANGED <<authIn, authOut, client, helloes>>

\* size <= 0: a keep-alive, answered with four zero bytes.
HandleZero ==
    /\ TakesFromLobby("zero")
    /\ lobbyOut' = Append(lobbyOut, [type |-> "zero"])
    /\ UNCHANGED <<packetBuffer, data, taskId, msgCount, transaction, thrown>>

\* Mutant: a handshake forgets the packets of the one before.
HashedWith_Cleared(hello) == <<hello, Ack>>

\* queue_packet_to_hash, for the packet and for its answer
HashedWith(hello) == packetBuffer \o <<hello, Ack>>

\* Mutant: only the first handshake is answered.
AckReply_Once == IF packetBuffer = <<>> THEN <<[type |-> "ack"]>> ELSE <<>>

AckReply == <<[type |-> "ack"]>>

\* client_header_ack
HandleHeaderAck ==
    /\ TakesFromLobby("hello")
    /\ packetBuffer' = HashedWith(Head(lobbyIn).packet)
    /\ lobbyOut' = lobbyOut \o AckReply
    /\ UNCHANGED <<data, taskId, msgCount, transaction, thrown>>

\* client_auth is hashed; the response proves the keys.
HandleClientAuth ==
    /\ TakesFromLobby("auth")
    /\ packetBuffer' = Append(packetBuffer, Head(lobbyIn).packet)
    /\ data' = [data EXCEPT !.keys = Derive(data.m_session_key, packetBuffer')]
    /\ lobbyOut' = Append(lobbyOut, [type |-> "done", response |-> data'.keys])
    /\ UNCHANGED <<taskId, msgCount, transaction, thrown>>

\* What decrypting a task gives: with other keys it could be any task.
Decrypted(p) == IF p.keys = data.keys THEN {p.request} ELSE Requests

\* Mutant: the id is read into a variable of exec_task.
TaskIdAfter_Local(r) == taskId

\* exec_task keeps the id of the task it executes.
TaskIdAfter(r) ==
    IF r[1] \in DOMAIN Services THEN [taskId EXCEPT ![r[1]] = r[2]] ELSE taskId

\* The id a reply carries: task_id() of the service, or the id that
\* call_service read for a service that is missing.
RepliedId(r, ids) == IF r[1] \in DOMAIN Services THEN ids[r[1]] ELSE r[2]

\* create_reply and create_structed_reply ... send
SendReply(p, r, outcome) ==
    /\ transaction' = transaction + 1
    /\ msgCount' = msgCount + 1
    /\ lobbyOut' = Append(lobbyOut, [type |-> "reply", keys |-> data.keys, count |-> msgCount',
                                     transaction |-> transaction', outcome |-> outcome,
                                     task |-> RepliedId(r, taskId'), for |-> p.for])

\* create_message ... send
SendMessage(p) ==
    /\ msgCount' = msgCount + 1
    /\ lobbyOut' = Append(lobbyOut, [type |-> "message", keys |-> data.keys, count |-> msgCount',
                                     for |-> p.for])
    /\ UNCHANGED transaction

\* A handler that throws is caught in handle; nothing is sent.
SendNothing(p) ==
    /\ thrown' = thrown \cup {p.for}
    /\ UNCHANGED <<lobbyOut, msgCount, transaction>>

HandleTask ==
    /\ TakesFromLobby("task")
    /\ UNCHANGED <<packetBuffer, data>>
    /\ LET p == Head(lobbyIn)
       IN \E r \in Decrypted(p) : \E outcome \in Outcomes(r[1], r[2]) :
            /\ taskId' = TaskIdAfter(r)
            /\ CASE outcome = "none"    -> SendNothing(p)
                 [] outcome = "message" -> SendMessage(p) /\ UNCHANGED thrown
                 [] OTHER               -> SendReply(p, r, outcome) /\ UNCHANGED thrown

-----------------------------------------------------------------------------
(* The game *)

\* It closes its sockets and starts again.  Neither server is told: what is
\* in their queues stays there.
Reconnect ==
    /\ client.session < MaxSessions
    /\ client' = Fresh(client.session + 1)
    /\ UNCHANGED <<queues, crypto, taskId, msgCount, transaction, helloes, thrown>>

AskTicket ==
    /\ client.step = "idle"
    /\ authIn' = authIn \o <<"post", "body">>
    /\ client' = [client EXCEPT !.step = "asked"]
    /\ UNCHANGED <<authOut, lobbyIn, lobbyOut, crypto, taskId, msgCount, transaction,
                   helloes, thrown>>

ReadTicket ==
    /\ client.step = "asked"
    /\ authOut # <<>>
    /\ authOut' = Tail(authOut)
    /\ client' = [client EXCEPT !.step = "ticketed", !.ticket = Head(authOut)]
    /\ UNCHANGED <<authIn, lobbyIn, lobbyOut, crypto, taskId, msgCount, transaction,
                   helloes, thrown>>

SendHello ==
    /\ client.step = "ticketed"
    /\ LET hello == <<"hello", client.session>>
       IN /\ lobbyIn' = Append(lobbyIn, [type |-> "hello", packet |-> hello])
          /\ client' = [client EXCEPT !.step = "hello", !.packets = <<hello>>]
    /\ helloes' = helloes \cup {client.session}
    /\ UNCHANGED <<authIn, authOut, lobbyOut, crypto, taskId, msgCount, transaction, thrown>>

ReadsFromLobby ==
    /\ lobbyOut # <<>>
    /\ lobbyOut' = Tail(lobbyOut)
    /\ UNCHANGED <<authIn, authOut, crypto, taskId, msgCount, transaction, helloes, thrown>>

\* Keep-alives are no part of the handshake.
SkipZero ==
    /\ client.step \in {"hello", "proving"}
    /\ ReadsFromLobby
    /\ Head(lobbyOut).type = "zero"
    /\ UNCHANGED <<lobbyIn, client>>

ReadAck ==
    /\ client.step = "hello"
    /\ ReadsFromLobby
    /\ Head(lobbyOut).type = "ack"
    /\ LET auth == <<"auth", client.session>>
       IN /\ lobbyIn' = Append(lobbyIn, [type |-> "auth", packet |-> auth])
          /\ client' = [client EXCEPT !.step = "proving", !.packets = @ \o <<Ack, auth>>]

ReadDone ==
    /\ client.step = "proving"
    /\ ReadsFromLobby
    /\ Head(lobbyOut).type = "done"
    /\ Head(lobbyOut).response = Derive(client.ticket, client.packets)
    /\ client' = [client EXCEPT !.step = "in", !.keys = Head(lobbyOut).response]
    /\ UNCHANGED lobbyIn

\* An answer that is not the one the handshake waits for.
Expected ==
    LET m == Head(lobbyOut)
    IN \/ m.type = "zero"
       \/ client.step = "hello" /\ m.type = "ack"
       \/ /\ client.step = "proving" /\ m.type = "done"
          /\ m.response = Derive(client.ticket, client.packets)

HandshakeFails ==
    /\ client.step \in {"hello", "proving"}
    /\ ReadsFromLobby
    /\ ~Expected
    /\ client' = [client EXCEPT !.step = "failed"]
    /\ UNCHANGED lobbyIn

SendTask(r) ==
    /\ client.step = "in"
    /\ Len(client.asked) < MaxTasks
    /\ client' = [client EXCEPT !.asked = Append(@, r)]
    /\ lobbyIn' = Append(lobbyIn, [type |-> "task", keys |-> client.keys, request |-> r,
                                   for |-> <<client.session, Len(client.asked) + 1>>])
    /\ UNCHANGED <<authIn, authOut, lobbyOut, crypto, taskId, msgCount, transaction,
                   helloes, thrown>>

\* While it waits for a task.
KeepAlive ==
    /\ client.step = "in"
    /\ \A i \in DOMAIN lobbyIn : lobbyIn[i].type # "zero"
    /\ \A i \in DOMAIN lobbyOut : lobbyOut[i].type # "zero"
    /\ lobbyIn' = Append(lobbyIn, [type |-> "zero"])
    /\ UNCHANGED <<authIn, authOut, lobbyOut, crypto, taskId, msgCount, transaction,
                   client, helloes, thrown>>

ReadAnswer ==
    /\ client.step = "in"
    /\ ReadsFromLobby
    /\ client' = IF Head(lobbyOut).type = "zero" THEN client
                 ELSE [client EXCEPT !.answers = Append(@, Head(lobbyOut))]
    /\ UNCHANGED lobbyIn

-----------------------------------------------------------------------------

Server == HandlePost \/ HandleTicketRequest \/ HandleZero \/ HandleHeaderAck
          \/ HandleClientAuth \/ HandleTask

\* The steps in which the game reads what it waits for, or answers it.
Advance == AskTicket \/ ReadTicket \/ SendHello \/ SkipZero \/ ReadAck \/ ReadDone
           \/ HandshakeFails \/ ReadAnswer

Next == Server \/ Advance \/ Reconnect \/ KeepAlive \/ \E r \in Requests : SendTask(r)

\* The server thread visits every server again and again, and the game reads
\* what it has asked for; it need not send tasks or connect again.
Fairness == WF_vars(Server) /\ WF_vars(Advance)

Spec == Init /\ [][Next]_vars /\ Fairness

-----------------------------------------------------------------------------
(* Properties *)

LobbyPacket ==
    [type : {"hello", "auth"}, packet : Packet]
    \cup [type : {"zero"}]
    \cup [type : {"task"}, keys : Keys, request : Requests, for : Nat \X Nat]

LobbyMessage ==
    [type : {"zero", "ack"}]
    \cup [type : {"done"}, response : Keys]
    \cup [type : {"reply"}, keys : Keys \cup {NoKey}, count : Nat, transaction : Nat,
          outcome : Outcome, task : Nat, for : Nat \X Nat]
    \cup [type : {"message"}, keys : Keys \cup {NoKey}, count : Nat, for : Nat \X Nat]

Step == {"idle", "asked", "ticketed", "hello", "proving", "in", "failed"}

\* Every variable keeps its type.
TypeOK ==
    /\ authIn \in Seq({"post", "body"})
    /\ authOut \in Seq({SESSION_KEY})
    /\ lobbyIn \in Seq(LobbyPacket)
    /\ lobbyOut \in Seq(LobbyMessage)
    /\ packetBuffer \in Seq(Packet \cup {Ack})
    /\ data \in [m_session_key : {NoKey, SESSION_KEY}, keys : Keys \cup {NoKey}]
    /\ taskId \in [DOMAIN Services -> Nat]
    /\ msgCount \in Nat /\ transaction \in Nat
    /\ client \in [session : Nat, step : Step, ticket : {NoKey, SESSION_KEY},
                   packets : Seq(Packet \cup {Ack}), keys : Keys \cup {NoKey},
                   asked : Seq(Requests), answers : Seq(LobbyMessage)]
    /\ helloes \subseteq 1 .. MaxSessions
    /\ thrown \subseteq Nat \X Nat

\* lobby_server::handle decrypts with whatever keys are in force when it gets
\* to a packet.  They are those the task was encrypted with, also when the
\* game has left and a new handshake is queued behind its last tasks; and
\* while the game is in a session the lobby has its keys.
TasksDecrypt ==
    /\ \A i \in DOMAIN lobbyIn : lobbyIn[i].type = "task" =>
         /\ lobbyIn[i].keys = data.keys
         /\ \A j \in 1 .. i - 1 : lobbyIn[j].type # "auth"
    /\ client.step = "in" => client.keys = data.keys

\* packet_buffer is never emptied: derive_keys_iw8 hashes the packets of
\* every handshake since the process started, so only the first one
\* can succeed, and it does whatever the game has queued or left unread.
FirstHandshakeOnly ==
    /\ client.step = "in" => helloes = {client.session}
    /\ client.step = "failed" => Cardinality(helloes) > 1

\* The replies and messages that wait in the queue, by position.
Unread == {i \in DOMAIN lobbyOut : lobbyOut[i].type \in {"reply", "message"}}

\* What the lobby has answered to this connection, read or not.
Told == {client.answers[i] : i \in DOMAIN client.answers} \cup {lobbyOut[i] : i \in Unread}

\* Replies carry the id of the task they answer although it is kept in the
\* service between the request and the reply, come in the order of the
\* requests, are numbered without a gap in the order in which they are read,
\* and are under the game's own keys; only a task whose handler threw is
\* passed over.
AnswersMatch ==
    client.step = "in" =>
        /\ \A m \in Told :
             /\ m.for[1] = client.session
             /\ m.keys = client.keys
             /\ m.type = "reply" => m.task = client.asked[m.for[2]][2]
             /\ \A c \in 1 .. m.count : \E l \in Told : l.count = c
             /\ \A l \in Told : l.count < m.count => l.for[2] < m.for[2]
             /\ \A k \in 1 .. m.for[2] - 1 :
                  \/ <<client.session, k>> \in thrown
                  \/ \E l \in Told : l.count < m.count /\ l.for[2] = k
        /\ \A i \in DOMAIN client.answers : client.answers[i].count = i
        /\ \A i \in Unread :
             /\ Len(client.answers) < lobbyOut[i].count
             /\ \A j \in Unread : i < j => lobbyOut[i].count < lobbyOut[j].count

\* Still waiting in the n-th connection; for the k-th task when k > 0.
WaitsIn(n, k) ==
    /\ client.session = n
    /\ IF k = 0 THEN client.step \in {"asked", "hello", "proving"}
       ELSE /\ Len(client.asked) >= k
            /\ <<n, k>> \notin thrown
            /\ \A i \in DOMAIN client.answers : client.answers[i].for # <<n, k>>

\* A game that waits for a ticket, a handshake or a task gets its answer
\* unless it leaves, or the handler of the task throws.
EveryoneAnswered ==
    \A n \in 1 .. MaxSessions : \A k \in 0 .. MaxTasks : WaitsIn(n, k) ~> ~WaitsIn(n, k)
=============================================================================
