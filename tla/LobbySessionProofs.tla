--------------------------- MODULE LobbySessionProofs ---------------------------
(***************************************************************************)
(* LobbySession, for any requests and any number of connections and tasks: *)
(* tasks are decrypted with the keys they were encrypted with, only the    *)
(* first handshake of a process succeeds, and answers match their          *)
(* requests.                                                               *)
(*                                                                         *)
(* The argument: the packets to hash begin with the hello of the first     *)
(* connection that began a handshake (TranscriptInv), so a response that   *)
(* the game accepts comes from a handshake that nobody else began.  Of     *)
(* such a handshake the queues hold exactly what its step says (SoloInv).  *)
(* From there on the queues hold tasks and answers only, a later handshake *)
(* is queued behind them (TaskInv), and the answers are a numbered prefix  *)
(* of the tasks (AnswerInv).                                               *)
(***************************************************************************)
EXTENDS LobbySession, SequenceFacts, FiniteSetTheorems, TLAPS

Hello(n) == <<"hello", n>>
Auth(n)  == <<"auth", n>>

(* A connection has the ticket, and is in helloes from its hello on; the    *)
(* packets it hashes are its own.                                          *)
SessionInv ==
    /\ client.session \in 1 .. MaxSessions
    /\ helloes \subseteq 1 .. client.session
    /\ client.step \in {"idle", "asked", "ticketed"} <=> client.session \notin helloes
    /\ client.step = "hello" => client.packets = <<Hello(client.session)>>
    /\ client.step = "proving" =>
         client.packets = <<Hello(client.session), Ack, Auth(client.session)>>
    /\ client.step \in {"ticketed", "hello", "proving"} => client.ticket = SESSION_KEY
    /\ client.step = "in" => client.keys \in Keys
    /\ client.step # "in" => client.asked = <<>> /\ client.answers = <<>>
    /\ authOut # <<>> \/ client.ticket = SESSION_KEY => data.m_session_key = SESSION_KEY

(* packetBuffer begins with the hello of the first handshake, or that is    *)
(* the first packet of the lobby's queue; every response was derived from   *)
(* packets that begin like it.                                              *)
TranscriptInv ==
    /\ helloes = {} => lobbyIn = <<>> /\ packetBuffer = <<>>
    /\ packetBuffer = <<>> =>
         /\ lobbyOut = <<>> /\ msgCount = 0
         /\ client.step # "in"
         /\ \A i \in DOMAIN lobbyIn : lobbyIn[i].type = "hello"
         /\ helloes # {} => lobbyIn # <<>>
         /\ lobbyIn # <<>> =>
              \E n \in helloes : lobbyIn[1].packet = Hello(n) /\ \A h \in helloes : n <= h
    /\ packetBuffer # <<>> =>
         \E n \in helloes : packetBuffer[1] = Hello(n) /\ \A h \in helloes : n <= h
    /\ \A i \in DOMAIN lobbyOut : lobbyOut[i].type = "done" =>
         lobbyOut[i].response.packets # <<>> /\ lobbyOut[i].response.packets[1] = packetBuffer[1]

Quiet ==
    /\ \A i \in DOMAIN lobbyIn : lobbyIn[i].type \in {"task", "zero"}
    /\ \A i \in DOMAIN lobbyOut : lobbyOut[i].type \in {"reply", "message", "zero"}

(* The stages of a handshake that nobody else began: the hello is queued,   *)
(* it is answered, client_auth is queued, it is answered, and the game has  *)
(* the lobby's keys.                                                        *)
HelloQueued ==
    /\ client.step = "hello"
    /\ packetBuffer = <<>>
    /\ Len(lobbyIn) = 1 /\ lobbyIn[1] = [type |-> "hello", packet |-> Hello(client.session)]
    /\ lobbyOut = <<>>

HelloAnswered ==
    /\ client.step = "hello"
    /\ packetBuffer = <<Hello(client.session), Ack>>
    /\ lobbyIn = <<>>
    /\ Len(lobbyOut) = 1 /\ lobbyOut[1].type = "ack"

AuthQueued ==
    /\ client.step = "proving"
    /\ packetBuffer = <<Hello(client.session), Ack>>
    /\ Len(lobbyIn) = 1 /\ lobbyIn[1] = [type |-> "auth", packet |-> Auth(client.session)]
    /\ lobbyOut = <<>>

AuthAnswered ==
    /\ client.step = "proving"
    /\ data.keys = Derive(client.ticket, client.packets)
    /\ lobbyIn = <<>>
    /\ Len(lobbyOut) = 1 /\ lobbyOut[1].type = "done" /\ lobbyOut[1].response = data.keys

HasKeys == client.step = "in" /\ client.keys = data.keys /\ Quiet

Handshaking == HelloQueued \/ HelloAnswered \/ AuthQueued \/ AuthAnswered

SoloInv ==
    /\ helloes = {client.session} => (Handshaking /\ msgCount = 0) \/ HasKeys
    /\ client.step = "in" => helloes = {client.session}
    /\ client.step = "failed" => helloes # {client.session}

(* Tasks are encrypted with the keys in force, no handshake is before them, *)
(* and none can go on before they are handled.                              *)
TaskInv ==
    \A i \in DOMAIN lobbyIn : lobbyIn[i].type = "task" =>
        /\ lobbyIn[i].keys = data.keys
        /\ \A j \in DOMAIN lobbyIn :
             lobbyIn[j].type # "auth" /\ (j < i => lobbyIn[j].type # "hello")
        /\ \A j \in DOMAIN lobbyOut : lobbyOut[j].type # "ack"

(* What is asked waits in the queue, was answered, or was thrown: answers   *)
(* and waiting tasks are in the order of asking.                           *)
IsTask(i) == i \in DOMAIN lobbyIn /\ lobbyIn[i].type = "task"

WaitingInv ==
    /\ \A i \in DOMAIN lobbyIn : IsTask(i) =>
         /\ lobbyIn[i].for[1] = client.session
         /\ lobbyIn[i].for[2] \in 1 .. Len(client.asked)
         /\ lobbyIn[i].request = client.asked[lobbyIn[i].for[2]]
         /\ \A j \in DOMAIN lobbyIn : IsTask(j) /\ i < j => lobbyIn[i].for[2] < lobbyIn[j].for[2]
         /\ \A m \in Told : m.for[2] < lobbyIn[i].for[2]
    /\ \A k \in 1 .. Len(client.asked) :
         \/ <<client.session, k>> \in thrown
         \/ \E m \in Told : m.for[2] = k
         \/ \E i \in DOMAIN lobbyIn : IsTask(i) /\ lobbyIn[i].for[2] = k

(* The answers match the tasks, and are numbered like them.                *)
ToldInv ==
    /\ \A m \in Told :
         /\ m.for[1] = client.session /\ m.for[2] \in 1 .. Len(client.asked)
         /\ m.keys = client.keys
         /\ m.type = "reply" => m.task = client.asked[m.for[2]][2]
         /\ m.count \in 1 .. msgCount
         /\ \A l \in Told : l.count < m.count <=> l.for[2] < m.for[2]
    /\ \A c \in 1 .. msgCount : \E l \in Told : l.count = c

(* The game has read the first of them, in order.                          *)
ReadInv ==
    /\ \A i \in DOMAIN client.answers : client.answers[i].count = i
    /\ \A i \in Unread :
         /\ Len(client.answers) < lobbyOut[i].count
         /\ \A j \in Unread : i < j => lobbyOut[i].count < lobbyOut[j].count

AnswerInv == client.step = "in" => WaitingInv /\ ToldInv /\ ReadInv

IInv == TypeOK /\ SessionInv /\ TranscriptInv /\ SoloInv /\ TaskInv /\ AnswerInv
------------------------------------------------------------------------------
(* Types                                                                   *)

(* What a service can answer, task by task. *)
OnlyOutcomes(service) == \A t \in DOMAIN service : service[t] \subseteq Outcome

LEMMA PlainIsOutcome == ASSUME NEW tasks PROVE OnlyOutcomes(AllPlain(tasks))
  BY DEF OnlyOutcomes, AllPlain, Outcome

LEMMA ServicesAnswerOutcomes == \A s \in DOMAIN Services : OnlyOutcomes(Services[s])
<1>1. /\ OnlyOutcomes(bdStats) /\ OnlyOutcomes(bdKeyArchive) /\ OnlyOutcomes(bdCounter)
      /\ OnlyOutcomes(bdGroup) /\ OnlyOutcomes(bdAnticheat) /\ OnlyOutcomes(bdEventLog)
      /\ OnlyOutcomes(bdRichPresence) /\ OnlyOutcomes(bdPublisherVariables)
      /\ OnlyOutcomes(bdMarketingComms)
  BY PlainIsOutcome DEF bdStats, bdKeyArchive, bdCounter, bdGroup, bdAnticheat, bdEventLog,
        bdRichPresence, bdPublisherVariables, bdMarketingComms
<1>2. OnlyOutcomes(bdProfiles)
  BY DEF OnlyOutcomes, Outcome, bdProfiles
<1>3. OnlyOutcomes(bdTitleUtilities)
  BY DEF OnlyOutcomes, Outcome, bdTitleUtilities
<1>4. OnlyOutcomes(bdTags)
  BY DEF OnlyOutcomes, Outcome, bdTags
<1>5. OnlyOutcomes(bdPooledStorage)
  BY DEF OnlyOutcomes, Outcome, bdPooledStorage
<1>6. OnlyOutcomes(bdObjectStore)
  BY DEF OnlyOutcomes, Outcome, bdObjectStore
<1>7. OnlyOutcomes(bdMarketplace)
  BY DEF OnlyOutcomes, Outcome, bdMarketplace
<1>8. OnlyOutcomes(bdDML) /\ OnlyOutcomes(bdUNK125) /\ OnlyOutcomes(bdLootGeneration)
  BY DEF OnlyOutcomes, Outcome, bdDML, bdUNK125, bdLootGeneration
<1> QED BY <1>1, <1>2, <1>3, <1>4, <1>5, <1>6, <1>7, <1>8 DEF Services

(* What the handlers of the services can answer is an outcome. *)
LEMMA OutcomesAreOutcomes ==
    ASSUME NEW r \in Nat \X Nat PROVE Outcomes(r[1], r[2]) \subseteq Outcome
<1>1. CASE r[1] = BandwidthTest
  BY <1>1 DEF Outcomes, Outcome
<1>2. CASE r[1] # BandwidthTest /\ ~Registers(r[1], r[2])
  BY <1>2 DEF Outcomes, Outcome
<1>3. CASE r[1] # BandwidthTest /\ Registers(r[1], r[2])
  <2>1. r[1] \in DOMAIN Services /\ r[2] \in DOMAIN Services[r[1]]
        /\ Outcomes(r[1], r[2]) = Services[r[1]][r[2]]
    BY <1>3 DEF Registers, Outcomes
  <2>2. \A s \in DOMAIN Services : \A t \in DOMAIN Services[s] : Services[s][t] \subseteq Outcome
    BY ServicesAnswerOutcomes DEF OnlyOutcomes
  <2> QED BY <2>1, <2>2
<1> QED BY <1>1, <1>2, <1>3

(* What the lobby's packets and messages hold. *)
LEMMA PacketFacts ==
    ASSUME NEW p \in LobbyPacket
    PROVE  /\ p.type \in {"hello", "auth", "zero", "task"}
           /\ p.type \in {"hello", "auth"} => p.packet \in Packet
           /\ p.type = "task" => p.keys \in Keys /\ p.request \in Requests /\ p.for \in Nat \X Nat
  BY DEF LobbyPacket

LEMMA MessageFacts ==
    ASSUME NEW m \in LobbyMessage
    PROVE  /\ m.type \in {"zero", "ack", "done", "reply", "message"}
           /\ m.type = "done" => m.response \in Keys
           /\ m.type \in {"reply", "message"} => m.count \in Nat /\ m.for \in Nat \X Nat
  BY DEF LobbyMessage

(* Nothing is queued and nobody is connected at first. *)
LEMMA TypeInit == Init => TypeOK
  BY LobbyAssumption DEF Init, TypeOK, Fresh, Step, LobbyAssumption

(* Every step keeps the types: each handler of the servers and each step    *)
(* of the game.                                                            *)
LEMMA TypeStep == TypeOK /\ SessionInv /\ [Next]_vars => TypeOK'
<1> SUFFICES ASSUME TypeOK, SessionInv, [Next]_vars PROVE TypeOK'
  OBVIOUS
<1> USE LobbyAssumption DEF TypeOK, LobbyAssumption
<1>a. client.session \in 1 .. MaxSessions
  BY DEF SessionInv
<1>b. ASSUME lobbyIn # <<>>
      PROVE  /\ Tail(lobbyIn) \in Seq(LobbyPacket) /\ Head(lobbyIn) \in LobbyPacket
  BY <1>b, TailFacts
<1>c. ASSUME lobbyOut # <<>>
      PROVE  Tail(lobbyOut) \in Seq(LobbyMessage) /\ Head(lobbyOut) \in LobbyMessage
  BY <1>c, TailFacts
<1>d. \A e \in LobbyMessage : Append(lobbyOut, e) \in Seq(LobbyMessage)
  BY AppendFacts
<1>e. \A e \in LobbyPacket : Append(lobbyIn, e) \in Seq(LobbyPacket)
  BY AppendFacts
<1>1. CASE HandlePost
  <2>1. authIn' \in Seq({"post", "body"})
    BY <1>1, TailFacts DEF HandlePost
  <2> QED BY <1>1, <2>1 DEF HandlePost, crypto
<1>2. CASE HandleTicketRequest
  <2>1. authIn' \in Seq({"post", "body"}) /\ authOut' \in Seq({SESSION_KEY})
    BY <1>2, TailFacts, AppendFacts DEF HandleTicketRequest
  <2>2. data' \in [m_session_key : {NoKey, SESSION_KEY}, keys : Keys \cup {NoKey}]
    BY <1>2 DEF HandleTicketRequest, set_session_key
  <2> QED BY <1>2, <2>1, <2>2 DEF HandleTicketRequest
<1>3. CASE HandleZero
  <2>1. [type |-> "zero"] \in LobbyMessage
    BY DEF LobbyMessage
  <2> QED BY <1>3, <2>1, <1>b, <1>d DEF HandleZero, TakesFromLobby
<1>4. CASE HandleHeaderAck
  <2>1. Head(lobbyIn).packet \in Packet
    BY <1>4, <1>b, PacketFacts DEF HandleHeaderAck, TakesFromLobby
  <2>2. /\ <<Head(lobbyIn).packet, Ack>> \in Seq(Packet \cup {Ack})
        /\ AckReply \in Seq(LobbyMessage)
    BY <2>1 DEF AckReply, LobbyMessage
  <2>3. packetBuffer' \in Seq(Packet \cup {Ack}) /\ lobbyOut' \in Seq(LobbyMessage)
    BY <1>4, <2>2, ConcatFacts DEF HandleHeaderAck, HashedWith
  <2> QED BY <1>4, <2>3, <1>b DEF HandleHeaderAck, TakesFromLobby
<1>5. CASE HandleClientAuth
  <2>1. Head(lobbyIn).packet \in Packet
    BY <1>5, <1>b, PacketFacts DEF HandleClientAuth, TakesFromLobby
  <2>2. packetBuffer' \in Seq(Packet \cup {Ack})
    BY <1>5, <2>1, AppendFacts DEF HandleClientAuth
  <2>3. Derive(data.m_session_key, packetBuffer') \in Keys
    BY <2>2 DEF Derive, Keys
  <2>4. data' \in [m_session_key : {NoKey, SESSION_KEY}, keys : Keys \cup {NoKey}]
        /\ data'.keys \in Keys
    BY <1>5, <2>3 DEF HandleClientAuth
  <2>5. [type |-> "done", response |-> data'.keys] \in LobbyMessage
    BY <2>4 DEF LobbyMessage
  <2> QED BY <1>5, <2>2, <2>4, <2>5, <1>b, <1>d DEF HandleClientAuth, TakesFromLobby
<1>6. CASE HandleTask
  <2> DEFINE p == Head(lobbyIn)
  <2>1. lobbyIn # <<>> /\ p \in LobbyPacket /\ p.type = "task"
    BY <1>6, <1>b DEF HandleTask, TakesFromLobby
  <2>2. p.request \in Requests /\ p.for \in Nat \X Nat
    BY <2>1, PacketFacts
  <2>3. PICK r \in Decrypted(p) : \E outcome \in Outcomes(r[1], r[2]) :
          /\ taskId' = TaskIdAfter(r)
          /\ CASE outcome = "none"    -> SendNothing(p)
               [] outcome = "message" -> SendMessage(p) /\ UNCHANGED thrown
               [] OTHER               -> SendReply(p, r, outcome) /\ UNCHANGED thrown
    BY <1>6 DEF HandleTask
  <2>0. PICK outcome \in Outcomes(r[1], r[2]) :
          /\ taskId' = TaskIdAfter(r)
          /\ CASE outcome = "none"    -> SendNothing(p)
               [] outcome = "message" -> SendMessage(p) /\ UNCHANGED thrown
               [] OTHER               -> SendReply(p, r, outcome) /\ UNCHANGED thrown
    BY <2>3
  <2>4. r \in Nat \X Nat /\ outcome \in Outcome
    BY <2>2, <2>0, <2>3, OutcomesAreOutcomes DEF Decrypted
  <2>5. taskId' \in [DOMAIN Services -> Nat]
    BY <2>0, <2>4 DEF TaskIdAfter
  <2> HIDE DEF p
  <2>6. /\ lobbyOut' \in Seq(LobbyMessage)
        /\ msgCount' \in Nat /\ transaction' \in Nat /\ thrown' \subseteq Nat \X Nat
    <3>1. CASE outcome = "none"
      BY <2>0, <2>2, <3>1 DEF SendNothing
    <3>2. CASE outcome = "message"
      <4>1. SendMessage(p) /\ UNCHANGED thrown
        BY <2>0, <3>2
      <4>2. [type |-> "message", keys |-> data.keys, count |-> msgCount', for |-> p.for]
              \in LobbyMessage /\ msgCount' \in Nat
        BY <2>2, <4>1 DEF SendMessage, LobbyMessage
      <4> QED BY <4>1, <4>2, <1>d DEF SendMessage
    <3>3. CASE outcome # "none" /\ outcome # "message"
      <4>1. SendReply(p, r, outcome) /\ UNCHANGED thrown
        BY <2>0, <3>3
      <4>2. RepliedId(r, taskId') \in Nat /\ msgCount' \in Nat /\ transaction' \in Nat
        <5>1. RepliedId(r, taskId') \in Nat
          BY <2>4, <2>5 DEF RepliedId
        <5>2. msgCount' \in Nat /\ transaction' \in Nat
          BY <4>1 DEF SendReply
        <5> QED BY <5>1, <5>2
      <4>3. [type |-> "reply", keys |-> data.keys, count |-> msgCount',
             transaction |-> transaction', outcome |-> outcome,
             task |-> RepliedId(r, taskId'), for |-> p.for] \in LobbyMessage
        BY <2>2, <2>4, <4>2 DEF LobbyMessage
      <4> QED BY <4>1, <4>2, <4>3, <1>d DEF SendReply
    <3> QED BY <3>1, <3>2, <3>3
  <2> QED BY <1>6, <2>5, <2>6, <1>b DEF HandleTask, TakesFromLobby
<1>7. CASE AskTicket
  <2>1. authIn' \in Seq({"post", "body"})
    <3>1. <<"post", "body">> \in Seq({"post", "body"})
      OBVIOUS
    <3> QED BY <1>7, <3>1, ConcatFacts DEF AskTicket
  <2> QED BY <1>7, <2>1 DEF AskTicket, crypto, Step
<1>8. CASE ReadTicket
  <2>1. authOut' \in Seq({SESSION_KEY}) /\ Head(authOut) = SESSION_KEY
    BY <1>8, TailFacts DEF ReadTicket
  <2> QED BY <1>8, <2>1 DEF ReadTicket, crypto, Step
<1>9. CASE SendHello
  <2>1. <<"hello", client.session>> \in Packet
    BY <1>a DEF Packet
  <2>2. [type |-> "hello", packet |-> <<"hello", client.session>>] \in LobbyPacket
    BY <2>1 DEF LobbyPacket
  <2>3. helloes' \subseteq 1 .. MaxSessions
    BY <1>9, <1>a DEF SendHello
  <2>4. <<<<"hello", client.session>>>> \in Seq(Packet \cup {Ack})
    BY <2>1
  <2> QED BY <1>9, <2>2, <2>3, <2>4, <1>e DEF SendHello, crypto, Step
<1>10. CASE SkipZero
  BY <1>10, <1>c DEF SkipZero, ReadsFromLobby, crypto
<1>11. CASE ReadAck
  <2>1. <<"auth", client.session>> \in Packet
    BY <1>a DEF Packet
  <2>2. [type |-> "auth", packet |-> <<"auth", client.session>>] \in LobbyPacket
    BY <2>1 DEF LobbyPacket
  <2>3. client.packets \o <<Ack, <<"auth", client.session>>>> \in Seq(Packet \cup {Ack})
    <3>1. <<Ack, <<"auth", client.session>>>> \in Seq(Packet \cup {Ack})
      BY <2>1
    <3> QED BY <3>1, ConcatFacts
  <2>4. client' \in [session : Nat, step : Step, ticket : {NoKey, SESSION_KEY},
                     packets : Seq(Packet \cup {Ack}), keys : Keys \cup {NoKey},
                     asked : Seq(Requests), answers : Seq(LobbyMessage)]
    BY <1>11, <2>3 DEF ReadAck, Step
  <2> QED BY <1>11, <2>2, <2>4, <1>c, <1>e DEF ReadAck, ReadsFromLobby, crypto
<1>12. CASE ReadDone
  <2>1. Head(lobbyOut).response \in Keys
    BY <1>12, <1>c, MessageFacts DEF ReadDone, ReadsFromLobby
  <2> QED BY <1>12, <2>1, <1>c DEF ReadDone, ReadsFromLobby, crypto, Step
<1>13. CASE HandshakeFails
  BY <1>13, <1>c DEF HandshakeFails, ReadsFromLobby, crypto, Step
<1>14. CASE ReadAnswer
  <2>1. Append(client.answers, Head(lobbyOut)) \in Seq(LobbyMessage)
    BY <1>14, <1>c, AppendFacts DEF ReadAnswer, ReadsFromLobby
  <2> QED BY <1>14, <2>1, <1>c DEF ReadAnswer, ReadsFromLobby, crypto
<1>15. CASE Reconnect
  <2>1. client' \in [session : Nat, step : Step, ticket : {NoKey, SESSION_KEY},
                     packets : Seq(Packet \cup {Ack}), keys : Keys \cup {NoKey},
                     asked : Seq(Requests), answers : Seq(LobbyMessage)]
    BY <1>15 DEF Reconnect, Fresh, Step
  <2> QED BY <1>15, <2>1 DEF Reconnect, queues, crypto
<1>16. CASE KeepAlive
  <2>1. [type |-> "zero"] \in LobbyPacket
    BY DEF LobbyPacket
  <2> QED BY <1>16, <2>1, <1>e DEF KeepAlive, crypto
<1>17. ASSUME NEW r \in Requests, SendTask(r) PROVE TypeOK'
  <2> DEFINE p == [type |-> "task", keys |-> client.keys, request |-> r,
                   for |-> <<client.session, Len(client.asked) + 1>>]
  <2>1. client.keys \in Keys
    BY <1>17 DEF SendTask, SessionInv
  <2>2. /\ Append(client.asked, r) \in Seq(Requests)
        /\ <<client.session, Len(client.asked) + 1>> \in Nat \X Nat
    BY <1>17, AppendFacts
  <2>3. p \in LobbyPacket
    BY <2>1, <2>2 DEF LobbyPacket
  <2> QED BY <1>17, <2>2, <2>3, <1>e DEF SendTask, crypto
<1>18. CASE UNCHANGED vars
  BY <1>18 DEF vars, queues, crypto
<1> QED BY <1>1, <1>2, <1>3, <1>4, <1>5, <1>6, <1>7, <1>8, <1>9, <1>10, <1>11, <1>12, <1>13,
           <1>14, <1>15, <1>16, <1>17, <1>18 DEF Next, Server, Advance

------------------------------------------------------------------------------
(* The connection and its ticket                                           *)

LEMMA SessionInit == Init => SessionInv
  BY LobbyAssumption DEF Init, SessionInv, Fresh, LobbyAssumption

(* The connection that is open can be added to those that said hello. *)
LEMMA LastSession ==
    ASSUME client.session \in 1 .. MaxSessions, helloes \subseteq 1 .. client.session
    PROVE  /\ helloes \cup {client.session} \subseteq 1 .. client.session
           /\ client.session \in helloes \cup {client.session}
<1> DEFINE n == client.session
<1>1. n \in Nat \ {0}
  BY LobbyAssumption DEF LobbyAssumption
<1> HIDE DEF n
<1>2. n \in 1 .. n
  BY <1>1
<1> QED BY <1>2, Zenon DEF n

(* The session key is given out with the ticket, and a connection is in      *)
(* helloes from SendHello until the game connects again.                   *)
LEMMA SessionStep == TypeOK /\ SessionInv /\ [Next]_vars => SessionInv'
<1> SUFFICES ASSUME TypeOK, SessionInv, [Next]_vars PROVE SessionInv'
  OBVIOUS
<1> USE LobbyAssumption DEF TypeOK, LobbyAssumption, SessionInv, Step
<1>1. CASE HandlePost
  BY <1>1 DEF HandlePost, crypto
<1>2. CASE HandleTicketRequest
  BY <1>2 DEF HandleTicketRequest, set_session_key
<1>3. CASE HandleZero
  BY <1>3 DEF HandleZero, TakesFromLobby
<1>4. CASE HandleHeaderAck
  BY <1>4 DEF HandleHeaderAck, TakesFromLobby
<1>5. CASE HandleClientAuth
  <2>1. data'.m_session_key = data.m_session_key
    BY <1>5 DEF HandleClientAuth
  <2> QED BY <1>5, <2>1 DEF HandleClientAuth, TakesFromLobby
<1>6. CASE HandleTask
  BY <1>6 DEF HandleTask, TakesFromLobby
<1>7. CASE AskTicket
  BY <1>7 DEF AskTicket, crypto
<1>8. CASE ReadTicket
  <2>1. Head(authOut) = SESSION_KEY
    BY <1>8, TailFacts DEF ReadTicket
  <2> QED BY <1>8, <2>1 DEF ReadTicket, crypto
<1>9. CASE SendHello
  <2>1. /\ client.step = "ticketed" /\ client'.step = "hello"
        /\ client'.session = client.session /\ client'.ticket = client.ticket
        /\ client'.packets = <<Hello(client.session)>>
        /\ client'.asked = client.asked /\ client'.answers = client.answers
        /\ helloes' = helloes \cup {client.session}
        /\ UNCHANGED <<authOut, data>>
    BY <1>9 DEF SendHello, crypto, Hello
  <2>2. helloes' \subseteq 1 .. client'.session /\ client'.session \in helloes'
    <3>1. client.session \in 1 .. MaxSessions /\ helloes \subseteq 1 .. client.session
      BY Zenon
    <3>2. helloes \cup {client.session} \subseteq 1 .. client.session
          /\ client.session \in helloes \cup {client.session}
      BY <3>1, LastSession
    <3> QED BY <2>1, <3>2, Zenon
  <2>3. client'.ticket = SESSION_KEY /\ data'.m_session_key = SESSION_KEY
    BY <2>1
  <2>4. client'.asked = <<>> /\ client'.answers = <<>>
    BY <2>1
  <2>5. client'.packets = <<Hello(client'.session)>> /\ client'.session \in 1 .. MaxSessions
    BY <2>1
  <2> QED BY <2>1, <2>2, <2>3, <2>4, <2>5
<1>10. CASE SkipZero
  BY <1>10 DEF SkipZero, ReadsFromLobby, crypto
<1>11. CASE ReadAck
  <2>1. client'.packets = <<Hello(client.session), Ack, Auth(client.session)>>
    <3>1. client'.packets = <<Hello(client.session)>> \o <<Ack, Auth(client.session)>>
      BY <1>11 DEF ReadAck, Auth
    <3> QED BY <3>1, ThreeElements
  <2>2. /\ client'.step = "proving" /\ client'.session = client.session
        /\ client'.ticket = client.ticket /\ client.step = "hello"
        /\ client'.asked = client.asked /\ client'.answers = client.answers
        /\ UNCHANGED <<authOut, data, helloes>>
    BY <1>11 DEF ReadAck, ReadsFromLobby, crypto
  <2> QED BY <2>1, <2>2
<1>12. CASE ReadDone
  <2>1. lobbyOut # <<>> /\ Head(lobbyOut) \in LobbyMessage /\ Head(lobbyOut).type = "done"
    BY <1>12, TailFacts DEF ReadDone, ReadsFromLobby
  <2>2. Head(lobbyOut).response \in Keys
    BY <2>1, MessageFacts
  <2> QED BY <1>12, <2>2 DEF ReadDone, ReadsFromLobby, crypto
<1>13. CASE HandshakeFails
  BY <1>13 DEF HandshakeFails, ReadsFromLobby, crypto
<1>14. CASE ReadAnswer
  <2>1. /\ client'.step = "in" /\ client.step = "in" /\ client'.session = client.session
        /\ client'.ticket = client.ticket /\ client'.keys = client.keys
        /\ UNCHANGED <<authOut, data, helloes>>
    BY <1>14 DEF ReadAnswer, ReadsFromLobby, crypto
  <2> QED BY <2>1
<1>15. CASE Reconnect
  <2>1. /\ client.session < MaxSessions /\ client'.session = client.session + 1
        /\ client'.step = "idle" /\ client'.ticket = NoKey
        /\ client'.asked = <<>> /\ client'.answers = <<>>
        /\ UNCHANGED <<authOut, data, helloes>>
    BY <1>15 DEF Reconnect, Fresh, queues, crypto
  <2>2. /\ client'.session \in 1 .. MaxSessions
        /\ helloes \subseteq 1 .. client'.session
        /\ client'.session \notin helloes
    <3> DEFINE n == client.session
    <3>1. /\ n \in Nat /\ n < MaxSessions /\ MaxSessions \in Nat /\ helloes \subseteq 1 .. n
          /\ client'.session = n + 1
      BY <2>1
    <3> HIDE DEF n
    <3>2. 1 .. n \subseteq 1 .. (n + 1) /\ n + 1 \in 1 .. MaxSessions /\ n + 1 \notin 1 .. n
      BY <3>1
    <3> QED BY <3>1, <3>2
  <2>3. authOut' # <<>> \/ client'.ticket = SESSION_KEY => data'.m_session_key = SESSION_KEY
    BY <2>1
  <2> QED BY <2>1, <2>2, <2>3
<1>16. CASE KeepAlive
  BY <1>16 DEF KeepAlive, crypto
<1>17. ASSUME NEW r \in Requests, SendTask(r) PROVE SessionInv'
  BY <1>17 DEF SendTask, crypto
<1>18. CASE UNCHANGED vars
  BY <1>18 DEF vars, queues, crypto
<1> QED BY <1>1, <1>2, <1>3, <1>4, <1>5, <1>6, <1>7, <1>8, <1>9, <1>10, <1>11, <1>12, <1>13,
           <1>14, <1>15, <1>16, <1>17, <1>18 DEF Next, Server, Advance

------------------------------------------------------------------------------
(* The queues of the lobby                                                 *)

(* What a step does to the lobby's queue: it takes the first packet, adds   *)
(* one at the end, or leaves it alone.                                     *)
LEMMA InTaken ==
    ASSUME TypeOK, TypeOK', lobbyIn # <<>>, lobbyIn' = Tail(lobbyIn)
    PROVE  /\ Len(lobbyIn) \in Nat /\ Len(lobbyIn) >= 1
           /\ DOMAIN lobbyIn = 1 .. Len(lobbyIn) /\ DOMAIN lobbyIn' = 1 .. Len(lobbyIn) - 1
           /\ Len(lobbyIn') = Len(lobbyIn) - 1
           /\ Head(lobbyIn) = lobbyIn[1] /\ lobbyIn[1] \in LobbyPacket
           /\ \A j \in 1 .. Len(lobbyIn) - 1 : lobbyIn'[j] = lobbyIn[j + 1]
           /\ \A j \in 1 .. Len(lobbyIn) : lobbyIn[j] \in LobbyPacket
<1>1. \A j \in 1 .. Len(lobbyIn) : lobbyIn[j] \in LobbyPacket
  BY ElementOfSeq DEF TypeOK
<1> QED BY <1>1, TailFacts DEF TypeOK

LEMMA InAdded ==
    ASSUME TypeOK, NEW e \in LobbyPacket, lobbyIn' = Append(lobbyIn, e)
    PROVE  /\ Len(lobbyIn) \in Nat
           /\ DOMAIN lobbyIn = 1 .. Len(lobbyIn) /\ DOMAIN lobbyIn' = 1 .. Len(lobbyIn) + 1
           /\ Len(lobbyIn') = Len(lobbyIn) + 1
           /\ \A j \in 1 .. Len(lobbyIn) : lobbyIn'[j] = lobbyIn[j]
           /\ lobbyIn'[Len(lobbyIn) + 1] = e
<1>1. lobbyIn \in Seq(LobbyPacket)
  BY DEF TypeOK
<1>2. Len(lobbyIn) \in Nat /\ DOMAIN lobbyIn = 1 .. Len(lobbyIn)
  BY <1>1, DomainOfSeq
<1>3. lobbyIn' \in Seq(LobbyPacket) /\ Len(lobbyIn') = Len(lobbyIn) + 1
      /\ \A j \in 1 .. Len(lobbyIn) : lobbyIn'[j] = lobbyIn[j]
      /\ lobbyIn'[Len(lobbyIn) + 1] = e
  BY <1>1, AppendFacts
<1>4. DOMAIN lobbyIn' = 1 .. Len(lobbyIn')
  BY <1>3, DomainOfSeq
<1> QED BY <1>2, <1>3, <1>4

(* The same of the queue of its messages. *)
LEMMA OutTaken ==
    ASSUME TypeOK, lobbyOut # <<>>, lobbyOut' = Tail(lobbyOut)
    PROVE  /\ Len(lobbyOut) \in Nat /\ Len(lobbyOut) >= 1
           /\ DOMAIN lobbyOut = 1 .. Len(lobbyOut) /\ DOMAIN lobbyOut' = 1 .. Len(lobbyOut) - 1
           /\ Len(lobbyOut') = Len(lobbyOut) - 1
           /\ Head(lobbyOut) = lobbyOut[1] /\ lobbyOut[1] \in LobbyMessage
           /\ \A j \in 1 .. Len(lobbyOut) - 1 : lobbyOut'[j] = lobbyOut[j + 1]
           /\ \A j \in 1 .. Len(lobbyOut) : lobbyOut[j] \in LobbyMessage
<1>1. \A j \in 1 .. Len(lobbyOut) : lobbyOut[j] \in LobbyMessage
  BY ElementOfSeq DEF TypeOK
<1> QED BY <1>1, TailFacts DEF TypeOK

LEMMA OutAdded ==
    ASSUME TypeOK, NEW e \in LobbyMessage, lobbyOut' = Append(lobbyOut, e)
    PROVE  /\ Len(lobbyOut) \in Nat
           /\ DOMAIN lobbyOut = 1 .. Len(lobbyOut) /\ DOMAIN lobbyOut' = 1 .. Len(lobbyOut) + 1
           /\ Len(lobbyOut') = Len(lobbyOut) + 1
           /\ \A j \in 1 .. Len(lobbyOut) : lobbyOut'[j] = lobbyOut[j]
           /\ lobbyOut'[Len(lobbyOut) + 1] = e
<1>1. lobbyOut \in Seq(LobbyMessage)
  BY DEF TypeOK
<1>2. Len(lobbyOut) \in Nat /\ DOMAIN lobbyOut = 1 .. Len(lobbyOut)
  BY <1>1, DomainOfSeq
<1>3. lobbyOut' \in Seq(LobbyMessage) /\ Len(lobbyOut') = Len(lobbyOut) + 1
      /\ \A j \in 1 .. Len(lobbyOut) : lobbyOut'[j] = lobbyOut[j]
      /\ lobbyOut'[Len(lobbyOut) + 1] = e
  BY <1>1, AppendFacts
<1>4. DOMAIN lobbyOut' = 1 .. Len(lobbyOut')
  BY <1>3, DomainOfSeq
<1> QED BY <1>2, <1>3, <1>4

(* A task is answered by one message or its handler throws; the answer is   *)
(* numbered, and carries the id of the task it answers.                    *)
LEMMA TaskFacts ==
    ASSUME TypeOK, HandleTask
    PROVE  /\ lobbyIn # <<>> /\ lobbyIn' = Tail(lobbyIn) /\ Head(lobbyIn) \in LobbyPacket
           /\ Head(lobbyIn).type = "task"
           /\ UNCHANGED <<packetBuffer, data, client, helloes>>
           /\ \/ /\ thrown' = thrown \cup {Head(lobbyIn).for}
                 /\ UNCHANGED <<lobbyOut, msgCount>>
              \/ \E m \in LobbyMessage :
                   /\ lobbyOut' = Append(lobbyOut, m)
                   /\ msgCount' = msgCount + 1 /\ thrown' = thrown
                   /\ m.type \in {"reply", "message"}
                   /\ m.count = msgCount + 1 /\ m.keys = data.keys
                   /\ m.for = Head(lobbyIn).for
                   /\ Head(lobbyIn).keys = data.keys /\ m.type = "reply" =>
                        m.task = Head(lobbyIn).request[2]
<1> USE DEF TypeOK
<1> DEFINE p == Head(lobbyIn)
<1>1. lobbyIn # <<>> /\ lobbyIn' = Tail(lobbyIn) /\ p.type = "task"
      /\ UNCHANGED <<packetBuffer, data, client, helloes>>
  BY DEF HandleTask, TakesFromLobby
<1>2. p \in LobbyPacket
  BY <1>1, TailFacts
<1>3. p.request \in Requests /\ p.for \in Nat \X Nat
  BY <1>1, <1>2, PacketFacts
<1>4. PICK r \in Decrypted(p) : \E outcome \in Outcomes(r[1], r[2]) :
        /\ taskId' = TaskIdAfter(r)
        /\ CASE outcome = "none"    -> SendNothing(p)
             [] outcome = "message" -> SendMessage(p) /\ UNCHANGED thrown
             [] OTHER               -> SendReply(p, r, outcome) /\ UNCHANGED thrown
  BY DEF HandleTask
<1>5. PICK outcome \in Outcomes(r[1], r[2]) :
        /\ taskId' = TaskIdAfter(r)
        /\ CASE outcome = "none"    -> SendNothing(p)
             [] outcome = "message" -> SendMessage(p) /\ UNCHANGED thrown
             [] OTHER               -> SendReply(p, r, outcome) /\ UNCHANGED thrown
  BY <1>4
<1>6. r \in Nat \X Nat /\ outcome \in Outcome
  BY <1>3, <1>4, <1>5, LobbyAssumption, OutcomesAreOutcomes DEF Decrypted, LobbyAssumption
<1>7. taskId' \in [DOMAIN Services -> Nat] /\ RepliedId(r, taskId') = r[2]
  BY <1>5, <1>6 DEF TaskIdAfter, RepliedId
<1>8. p.keys = data.keys => r = p.request
  BY <1>4 DEF Decrypted
<1> HIDE DEF p
<1>9. CASE outcome = "none"
  <2>1. thrown' = thrown \cup {p.for} /\ UNCHANGED <<lobbyOut, msgCount>>
    BY <1>5, <1>9 DEF SendNothing
  <2> QED BY <1>1, <1>2, <2>1 DEF p
<1>10. CASE outcome = "message"
  <2> DEFINE m == [type |-> "message", keys |-> data.keys, count |-> msgCount', for |-> p.for]
  <2>1. SendMessage(p) /\ UNCHANGED thrown
    BY <1>5, <1>10
  <2>2. m \in LobbyMessage /\ lobbyOut' = Append(lobbyOut, m) /\ msgCount' = msgCount + 1
    BY <1>3, <2>1 DEF SendMessage, LobbyMessage
  <2>3. m.type = "message" /\ m.count = msgCount + 1 /\ m.keys = data.keys /\ m.for = p.for
    BY <2>2
  <2> HIDE DEF m
  <2> QED BY <1>1, <1>2, <2>1, <2>2, <2>3 DEF p
<1>11. CASE outcome # "none" /\ outcome # "message"
  <2> DEFINE m == [type |-> "reply", keys |-> data.keys, count |-> msgCount',
                   transaction |-> transaction', outcome |-> outcome,
                   task |-> RepliedId(r, taskId'), for |-> p.for]
  <2>1. SendReply(p, r, outcome) /\ UNCHANGED thrown
    BY <1>5, <1>11
  <2>2. msgCount' = msgCount + 1 /\ transaction' \in Nat /\ RepliedId(r, taskId') \in Nat
    BY <1>6, <1>7, <2>1 DEF SendReply
  <2>3. m \in LobbyMessage /\ lobbyOut' = Append(lobbyOut, m)
    BY <1>3, <1>6, <2>1, <2>2 DEF SendReply, LobbyMessage
  <2>4. m.type = "reply" /\ m.count = msgCount + 1 /\ m.keys = data.keys /\ m.for = p.for
        /\ m.task = r[2]
    BY <1>7, <2>2
  <2> HIDE DEF m
  <2> QED BY <1>1, <1>2, <1>8, <2>1, <2>2, <2>3, <2>4 DEF p
<1> QED BY <1>9, <1>10, <1>11

(* A hello is answered, and both are hashed. *)
LEMMA HeaderAckFacts ==
    ASSUME TypeOK, HandleHeaderAck
    PROVE  /\ lobbyIn # <<>> /\ lobbyIn' = Tail(lobbyIn) /\ Head(lobbyIn) \in LobbyPacket
           /\ Head(lobbyIn).type = "hello"
           /\ UNCHANGED <<data, client, helloes, msgCount>>
           /\ [type |-> "ack"] \in LobbyMessage
           /\ lobbyOut' = Append(lobbyOut, [type |-> "ack"])
           /\ packetBuffer = <<>> => packetBuffer' = <<Head(lobbyIn).packet, Ack>>
           /\ packetBuffer # <<>> => packetBuffer'[1] = packetBuffer[1]
           /\ packetBuffer' # <<>>
<1>0. /\ packetBuffer \in Seq(Packet \cup {Ack})
      /\ lobbyIn \in Seq(LobbyPacket) /\ lobbyOut \in Seq(LobbyMessage)
  BY DEF TypeOK
<1> DEFINE pair == <<Head(lobbyIn).packet, Ack>>
<1>1. /\ lobbyIn # <<>> /\ lobbyIn' = Tail(lobbyIn) /\ Head(lobbyIn).type = "hello"
      /\ packetBuffer' = packetBuffer \o pair
      /\ lobbyOut' = lobbyOut \o <<[type |-> "ack"]>>
      /\ UNCHANGED <<data, client, helloes, msgCount>>
  BY DEF HandleHeaderAck, TakesFromLobby, HashedWith, AckReply
<1>2. Head(lobbyIn) \in LobbyPacket /\ Head(lobbyIn).packet \in Packet
  BY <1>0, <1>1, TailFacts, PacketFacts
<1>3. [type |-> "ack"] \in LobbyMessage
  BY DEF LobbyMessage
<1>4. lobbyOut' = Append(lobbyOut, [type |-> "ack"])
  BY <1>0, <1>1, <1>3, AppendIsConcat
<1>5. pair \in Seq(Packet \cup {Ack}) /\ Len(pair) = 2
  BY <1>2
<1> HIDE DEF pair
<1>6. packetBuffer = <<>> => packetBuffer' = pair
  BY <1>0, <1>1, <1>5, ConcatEmptySeq
<1>7. pair # <<>>
  BY <1>5
<1>8. packetBuffer' # <<>>
  BY <1>0, <1>1, <1>5, <1>7, FrontKept
<1>9. packetBuffer # <<>> => packetBuffer'[1] = packetBuffer[1]
  BY <1>0, <1>1, <1>5, <1>7, FrontKept
<1> QED BY <1>1, <1>2, <1>3, <1>4, <1>6, <1>8, <1>9 DEF pair

(* client_auth is hashed, and the keys derive from all that was. *)
LEMMA ClientAuthFacts ==
    ASSUME TypeOK, HandleClientAuth
    PROVE  /\ lobbyIn # <<>> /\ lobbyIn' = Tail(lobbyIn) /\ Head(lobbyIn) \in LobbyPacket
           /\ Head(lobbyIn).type = "auth"
           /\ UNCHANGED <<client, helloes, msgCount>>
           /\ packetBuffer' = Append(packetBuffer, Head(lobbyIn).packet)
           /\ packetBuffer # <<>> => packetBuffer'[1] = packetBuffer[1]
           /\ packetBuffer' # <<>>
           /\ data'.keys = Derive(data.m_session_key, packetBuffer') /\ data'.keys \in Keys
           /\ [type |-> "done", response |-> data'.keys] \in LobbyMessage
           /\ lobbyOut' = Append(lobbyOut, [type |-> "done", response |-> data'.keys])
<1> USE DEF TypeOK
<1>1. /\ lobbyIn # <<>> /\ lobbyIn' = Tail(lobbyIn) /\ Head(lobbyIn).type = "auth"
      /\ packetBuffer' = Append(packetBuffer, Head(lobbyIn).packet)
      /\ data'.keys = Derive(data.m_session_key, packetBuffer')
      /\ lobbyOut' = Append(lobbyOut, [type |-> "done", response |-> data'.keys])
      /\ UNCHANGED <<client, helloes, msgCount>>
  BY DEF HandleClientAuth, TakesFromLobby
<1>2. Head(lobbyIn) \in LobbyPacket /\ Head(lobbyIn).packet \in Packet
  BY <1>1, TailFacts, PacketFacts
<1>3. /\ packetBuffer' \in Seq(Packet \cup {Ack})
      /\ Len(packetBuffer') = Len(packetBuffer) + 1
      /\ \A j \in 1 .. Len(packetBuffer) : packetBuffer'[j] = packetBuffer[j]
  BY <1>1, <1>2, AppendFacts
<1>4. packetBuffer' # <<>> /\ (packetBuffer # <<>> => packetBuffer'[1] = packetBuffer[1])
  BY <1>3, TailFacts
<1>5. data'.keys \in Keys
  BY <1>1, <1>3 DEF Derive, Keys
<1>6. [type |-> "done", response |-> data'.keys] \in LobbyMessage
  BY <1>5 DEF LobbyMessage
<1> QED BY <1>1, <1>2, <1>4, <1>5, <1>6

(* What the game asks is encrypted with its keys. *)
LEMMA TaskAdded ==
    ASSUME TypeOK, SessionInv, NEW r \in Requests, SendTask(r)
    PROVE  \E p \in LobbyPacket :
             /\ p.type = "task" /\ p.keys = client.keys /\ p.request = r
             /\ p.for = <<client.session, Len(client.asked) + 1>>
             /\ lobbyIn' = Append(lobbyIn, p)
<1> DEFINE p == [type |-> "task", keys |-> client.keys, request |-> r,
                 for |-> <<client.session, Len(client.asked) + 1>>]
<1>1. client.step = "in" /\ lobbyIn' = Append(lobbyIn, p)
  BY DEF SendTask
<1>2. client.keys \in Keys /\ client.session \in Nat /\ client.asked \in Seq(Requests)
  BY <1>1 DEF SessionInv, TypeOK
<1>3. <<client.session, Len(client.asked) + 1>> \in Nat \X Nat
  BY <1>2, DomainOfSeq
<1>4. p \in LobbyPacket
  BY <1>2, <1>3 DEF LobbyPacket
<1>5. p.type = "task" /\ p.keys = client.keys /\ p.request = r
      /\ p.for = <<client.session, Len(client.asked) + 1>>
  OBVIOUS
<1> HIDE DEF p
<1> QED BY <1>1, <1>4, <1>5

(* What the game reads was the first message of the queue. *)
LEMMA ReadFacts ==
    ASSUME TypeOK, ReadsFromLobby
    PROVE  /\ lobbyOut # <<>> /\ lobbyOut' = Tail(lobbyOut)
           /\ UNCHANGED <<packetBuffer, data, helloes, msgCount, thrown>>
  BY DEF ReadsFromLobby, crypto

LEMMA NewPackets ==
    /\ client.session \in 1 .. MaxSessions =>
         /\ [type |-> "hello", packet |-> Hello(client.session)] \in LobbyPacket
         /\ [type |-> "auth", packet |-> Auth(client.session)] \in LobbyPacket
    /\ [type |-> "zero"] \in LobbyPacket /\ [type |-> "zero"] \in LobbyMessage
  BY DEF LobbyPacket, LobbyMessage, Packet, Hello, Auth

------------------------------------------------------------------------------
(* The packets to hash                                                     *)

LEMMA TranscriptInit == Init => TranscriptInv
  BY DEF Init, TranscriptInv, Fresh

(* The hello of the first handshake is at the head of the queue until it is *)
(* the first packet to hash, and what is hashed after it is added behind.   *)
LEMMA TranscriptStep ==
    TypeOK /\ TypeOK' /\ SessionInv /\ TranscriptInv /\ [Next]_vars => TranscriptInv'
<1> SUFFICES ASSUME TypeOK, TypeOK', SessionInv, TranscriptInv, [Next]_vars
             PROVE  TranscriptInv'
  OBVIOUS
<1>a. /\ client.session \in 1 .. MaxSessions
      /\ helloes \subseteq 1 .. client.session
      /\ client.step \in {"idle", "asked", "ticketed"} <=> client.session \notin helloes
  BY DEF SessionInv
<1>b. ASSUME ReadsFromLobby, helloes # {}
      PROVE  /\ packetBuffer # <<>>
             /\ \A i \in DOMAIN lobbyOut' : lobbyOut'[i].type = "done" =>
                  lobbyOut'[i].response.packets # <<>>
                  /\ lobbyOut'[i].response.packets[1] = packetBuffer[1]
  <2>1. lobbyOut # <<>> /\ lobbyOut' = Tail(lobbyOut)
    BY <1>b, ReadFacts
  <2> QED BY <2>1, OutTaken DEF TranscriptInv
<1>1. CASE HandlePost
  BY <1>1 DEF HandlePost, crypto, TranscriptInv
<1>2. CASE HandleTicketRequest
  BY <1>2 DEF HandleTicketRequest, TranscriptInv
<1>3. CASE HandleZero
  <2>1. /\ lobbyIn # <<>> /\ Head(lobbyIn).type = "zero" /\ lobbyIn' = Tail(lobbyIn)
        /\ lobbyOut' = Append(lobbyOut, [type |-> "zero"])
        /\ UNCHANGED <<packetBuffer, data, client, helloes, msgCount>>
    BY <1>3 DEF HandleZero, TakesFromLobby
  <2>2. packetBuffer # <<>> /\ helloes # {}
    BY <2>1, InTaken DEF TranscriptInv
  <2>3. \A i \in DOMAIN lobbyOut' : lobbyOut'[i].type = "done" =>
          lobbyOut'[i].response.packets # <<>>
          /\ lobbyOut'[i].response.packets[1] = packetBuffer[1]
    BY <2>1, NewPackets, OutAdded DEF TranscriptInv
  <2> QED BY <2>1, <2>2, <2>3 DEF TranscriptInv
<1>4. CASE HandleHeaderAck
  <2>1. /\ lobbyIn # <<>> /\ lobbyIn' = Tail(lobbyIn) /\ Head(lobbyIn) = lobbyIn[1]
        /\ UNCHANGED <<data, client, helloes, msgCount>>
        /\ [type |-> "ack"] \in LobbyMessage
        /\ lobbyOut' = Append(lobbyOut, [type |-> "ack"])
        /\ packetBuffer = <<>> => packetBuffer' = <<Head(lobbyIn).packet, Ack>>
        /\ packetBuffer # <<>> => packetBuffer'[1] = packetBuffer[1]
        /\ packetBuffer' # <<>>
    BY <1>4, HeaderAckFacts, InTaken
  <2>2. helloes # {}
    BY <2>1 DEF TranscriptInv
  <2>3. \E n \in helloes : packetBuffer'[1] = Hello(n) /\ \A h \in helloes : n <= h
    BY <2>1, <2>2 DEF TranscriptInv
  <2>4. \A i \in DOMAIN lobbyOut' : lobbyOut'[i].type = "done" =>
          lobbyOut'[i].response.packets # <<>>
          /\ lobbyOut'[i].response.packets[1] = packetBuffer'[1]
    <3>1. \A i \in DOMAIN lobbyOut : lobbyOut[i].type = "done" =>
            lobbyOut[i].response.packets # <<>>
            /\ lobbyOut[i].response.packets[1] = packetBuffer'[1]
      <4>1. CASE packetBuffer = <<>>
        BY <4>1, OutAdded, <2>1 DEF TranscriptInv
      <4>2. CASE packetBuffer # <<>>
        BY <4>2, <2>1 DEF TranscriptInv
      <4> QED BY <4>1, <4>2
    <3> QED BY <2>1, <3>1, OutAdded
  <2> QED BY <2>1, <2>2, <2>3, <2>4 DEF TranscriptInv
<1>5. CASE HandleClientAuth
  <2> DEFINE m == [type |-> "done", response |-> data'.keys]
  <2>1. /\ lobbyIn # <<>> /\ lobbyIn' = Tail(lobbyIn) /\ Head(lobbyIn).type = "auth"
        /\ UNCHANGED <<client, helloes, msgCount>>
        /\ packetBuffer # <<>> => packetBuffer'[1] = packetBuffer[1]
        /\ packetBuffer' # <<>>
        /\ data'.keys = Derive(data.m_session_key, packetBuffer')
        /\ m \in LobbyMessage /\ lobbyOut' = Append(lobbyOut, m)
    BY <1>5, ClientAuthFacts
  <2>2. packetBuffer # <<>> /\ helloes # {}
    BY <2>1, InTaken DEF TranscriptInv
  <2>3. m.response.packets = packetBuffer'
    BY <2>1 DEF Derive
  <2> HIDE DEF m
  <2>4. \A i \in DOMAIN lobbyOut' : lobbyOut'[i].type = "done" =>
          lobbyOut'[i].response.packets # <<>>
          /\ lobbyOut'[i].response.packets[1] = packetBuffer'[1]
    BY <2>1, <2>2, <2>3, OutAdded DEF TranscriptInv
  <2> QED BY <2>1, <2>2, <2>4 DEF TranscriptInv
<1>6. CASE HandleTask
  <2>1. /\ lobbyIn # <<>> /\ lobbyIn' = Tail(lobbyIn) /\ Head(lobbyIn).type = "task"
        /\ UNCHANGED <<packetBuffer, data, client, helloes>>
        /\ \/ lobbyOut' = lobbyOut
           \/ \E m \in LobbyMessage :
                lobbyOut' = Append(lobbyOut, m) /\ m.type \in {"reply", "message"}
    BY <1>6, TaskFacts
  <2>2. packetBuffer # <<>> /\ helloes # {}
    BY <2>1, InTaken DEF TranscriptInv
  <2>3. \A i \in DOMAIN lobbyOut' : lobbyOut'[i].type = "done" =>
          lobbyOut'[i].response.packets # <<>>
          /\ lobbyOut'[i].response.packets[1] = packetBuffer[1]
    <3>1. \A i \in DOMAIN lobbyOut : lobbyOut[i].type = "done" =>
            lobbyOut[i].response.packets # <<>>
            /\ lobbyOut[i].response.packets[1] = packetBuffer[1]
      BY DEF TranscriptInv
    <3>2. CASE lobbyOut' = lobbyOut
      BY <3>1, <3>2
    <3>3. ASSUME NEW m \in LobbyMessage, lobbyOut' = Append(lobbyOut, m),
                 m.type \in {"reply", "message"}
          PROVE  \A i \in DOMAIN lobbyOut' : lobbyOut'[i].type = "done" =>
                   lobbyOut'[i].response.packets # <<>>
                   /\ lobbyOut'[i].response.packets[1] = packetBuffer[1]
      <4>1. m.type # "done"
        BY <3>3
      <4> QED BY <3>1, <3>3, <4>1, OutAdded
    <3> QED BY <2>1, <3>2, <3>3
  <2>4. \E n \in helloes' : packetBuffer'[1] = Hello(n) /\ \A h \in helloes' : n <= h
    BY <2>1, <2>2 DEF TranscriptInv
  <2>5. packetBuffer' # <<>> /\ helloes' # {} /\ packetBuffer' = packetBuffer
    BY <2>1, <2>2
  <2> QED BY <2>3, <2>4, <2>5 DEF TranscriptInv
<1>7. CASE AskTicket
  BY <1>7 DEF AskTicket, crypto, TranscriptInv
<1>8. CASE ReadTicket
  BY <1>8 DEF ReadTicket, crypto, TranscriptInv
<1>9. CASE SendHello
  <2> DEFINE n == client.session
             p == [type |-> "hello", packet |-> Hello(n)]
  <2>1. /\ lobbyIn' = Append(lobbyIn, p) /\ p \in LobbyPacket /\ p.type = "hello"
        /\ p.packet = Hello(n)
        /\ helloes' = helloes \cup {n} /\ client'.step = "hello"
        /\ UNCHANGED <<lobbyOut, packetBuffer, msgCount>>
    BY <1>9, <1>a, NewPackets DEF SendHello, crypto, Hello
  <2>2. n \in Nat /\ helloes \subseteq Nat /\ \A h \in helloes : h <= n
    BY <1>a, LobbyAssumption DEF LobbyAssumption
  <2>3. n \notin helloes
    BY <1>9, <1>a DEF SendHello
  <2> HIDE DEF n, p
  <2>4. lobbyIn' # <<>> /\ (lobbyIn = <<>> => lobbyIn'[1] = p)
        /\ (lobbyIn # <<>> => lobbyIn'[1] = lobbyIn[1])
        /\ \A i \in DOMAIN lobbyIn' : \/ i \in DOMAIN lobbyIn /\ lobbyIn'[i] = lobbyIn[i]
                                      \/ lobbyIn'[i] = p
    <3>1. lobbyIn # <<>> => Len(lobbyIn) >= 1
      BY TailFacts DEF TypeOK
    <3>2. lobbyIn = <<>> => Len(lobbyIn) = 0
      OBVIOUS
    <3>3. lobbyIn' # <<>>
      BY <2>1, TailFacts, InAdded
    <3> QED BY <2>1, <3>1, <3>2, <3>3, InAdded
  <2>5. CASE packetBuffer = <<>>
    <3>1. \E k \in helloes' : lobbyIn'[1].packet = Hello(k) /\ \A h \in helloes' : k <= h
      <4>1. CASE helloes = {}
        BY <2>1, <2>2, <2>4, <2>5, <4>1 DEF TranscriptInv
      <4>2. CASE helloes # {}
        BY <2>1, <2>2, <2>4, <2>5, <4>2 DEF TranscriptInv
      <4> QED BY <4>1, <4>2
    <3> QED BY <2>1, <2>4, <2>5, <3>1 DEF TranscriptInv
  <2>6. CASE packetBuffer # <<>>
    <3>1. \E k \in helloes' : packetBuffer[1] = Hello(k) /\ \A h \in helloes' : k <= h
      BY <2>1, <2>2, <2>6 DEF TranscriptInv
    <3> QED BY <2>1, <2>6, <3>1 DEF TranscriptInv
  <2> QED BY <2>5, <2>6
<1>10. CASE SkipZero
  <2>1. UNCHANGED <<lobbyIn, client, packetBuffer, helloes, msgCount>> /\ helloes # {}
    BY <1>10, <1>a DEF SkipZero, ReadsFromLobby, crypto
  <2> QED BY <1>10, <1>b, <2>1 DEF SkipZero, TranscriptInv
<1>11. CASE ReadAck
  <2>1. UNCHANGED <<packetBuffer, helloes, msgCount>> /\ helloes # {} /\ client'.step = "proving"
    BY <1>11, <1>a DEF ReadAck, ReadsFromLobby, crypto
  <2> QED BY <1>11, <1>b, <2>1 DEF ReadAck, TranscriptInv
<1>12. CASE ReadDone
  <2>1. UNCHANGED <<lobbyIn, packetBuffer, helloes, msgCount>> /\ helloes # {}
    BY <1>12, <1>a DEF ReadDone, ReadsFromLobby, crypto
  <2> QED BY <1>12, <1>b, <2>1 DEF ReadDone, TranscriptInv
<1>13. CASE HandshakeFails
  <2>1. UNCHANGED <<lobbyIn, packetBuffer, helloes, msgCount>> /\ helloes # {}
    BY <1>13, <1>a DEF HandshakeFails, ReadsFromLobby, crypto
  <2> QED BY <1>13, <1>b, <2>1 DEF HandshakeFails, TranscriptInv
<1>14. CASE ReadAnswer
  <2>1. UNCHANGED <<lobbyIn, packetBuffer, helloes, msgCount>> /\ helloes # {}
    BY <1>14, <1>a DEF ReadAnswer, ReadsFromLobby, crypto
  <2> QED BY <1>14, <1>b, <2>1 DEF ReadAnswer, TranscriptInv
<1>15. CASE Reconnect
  <2>1. client'.step = "idle" /\ UNCHANGED <<lobbyIn, lobbyOut, packetBuffer, helloes, msgCount>>
    BY <1>15 DEF Reconnect, Fresh, queues, crypto
  <2> QED BY <2>1 DEF TranscriptInv
<1>16. CASE KeepAlive
  <2>1. client.step = "in" /\ UNCHANGED <<lobbyOut, client, packetBuffer, helloes, msgCount>>
    BY <1>16 DEF KeepAlive, crypto
  <2> QED BY <1>a, <2>1 DEF TranscriptInv
<1>17. ASSUME NEW r \in Requests, SendTask(r) PROVE TranscriptInv'
  <2>1. client.step = "in" /\ UNCHANGED <<lobbyOut, packetBuffer, helloes, msgCount>>
    BY <1>17 DEF SendTask, crypto
  <2> QED BY <1>a, <2>1 DEF TranscriptInv
<1>18. CASE UNCHANGED vars
  BY <1>18 DEF vars, queues, crypto, TranscriptInv
<1> QED BY <1>1, <1>2, <1>3, <1>4, <1>5, <1>6, <1>7, <1>8, <1>9, <1>10, <1>11, <1>12, <1>13,
           <1>14, <1>15, <1>16, <1>17, <1>18 DEF Next, Server, Advance

------------------------------------------------------------------------------
(* A handshake that nobody else began                                      *)

LEMMA SoloInit == Init => SoloInv
  BY DEF Init, SoloInv, Fresh

(* Hello(n) tells n. *)
LEMMA HelloTells == \A m, n : Hello(m) = Hello(n) => m = n
  BY DEF Hello

(* Taking the only element leaves none. *)
LEMMA OnlyTaken ==
    ASSUME TypeOK
    PROVE  /\ Len(lobbyIn) = 1 /\ lobbyIn' = Tail(lobbyIn) => lobbyIn' = <<>>
           /\ Len(lobbyOut) = 1 /\ lobbyOut' = Tail(lobbyOut) => lobbyOut' = <<>>
<1>1. lobbyIn \in Seq(LobbyPacket) /\ lobbyOut \in Seq(LobbyMessage)
  BY DEF TypeOK
<1>2. ASSUME Len(lobbyIn) = 1, lobbyIn' = Tail(lobbyIn) PROVE lobbyIn' = <<>>
  <2>1. lobbyIn # <<>>
    BY <1>2
  <2>2. Tail(lobbyIn) \in Seq(LobbyPacket) /\ Len(Tail(lobbyIn)) = 0
    BY <1>1, <1>2, <2>1, TailFacts
  <2> QED BY <1>2, <2>2, EmptySeq
<1>3. ASSUME Len(lobbyOut) = 1, lobbyOut' = Tail(lobbyOut) PROVE lobbyOut' = <<>>
  <2>1. lobbyOut # <<>>
    BY <1>3
  <2>2. Tail(lobbyOut) \in Seq(LobbyMessage) /\ Len(Tail(lobbyOut)) = 0
    BY <1>1, <1>3, <2>1, TailFacts
  <2> QED BY <1>3, <2>2, EmptySeq
<1> QED BY <1>2, <1>3

(* Adding to an empty queue. *)
LEMMA OnlyAdded ==
    ASSUME TypeOK
    PROVE  /\ \A e \in LobbyPacket : lobbyIn = <<>> /\ lobbyIn' = Append(lobbyIn, e) =>
                Len(lobbyIn') = 1 /\ lobbyIn'[1] = e
           /\ \A e \in LobbyMessage : lobbyOut = <<>> /\ lobbyOut' = Append(lobbyOut, e) =>
                Len(lobbyOut') = 1 /\ lobbyOut'[1] = e
<1>1. ASSUME NEW e \in LobbyPacket, lobbyIn = <<>>, lobbyIn' = Append(lobbyIn, e)
      PROVE  Len(lobbyIn') = 1 /\ lobbyIn'[1] = e
  <2>1. Len(lobbyIn) = 0
    BY <1>1
  <2> QED BY <1>1, <2>1, InAdded
<1>2. ASSUME NEW e \in LobbyMessage, lobbyOut = <<>>, lobbyOut' = Append(lobbyOut, e)
      PROVE  Len(lobbyOut') = 1 /\ lobbyOut'[1] = e
  <2>1. Len(lobbyOut) = 0
    BY <1>2
  <2> QED BY <1>2, <2>1, OutAdded
<1> QED BY <1>1, <1>2

(* A game whose response is accepted began the only handshake. *)
LEMMA DoneFacts ==
    ASSUME TypeOK, SessionInv, TranscriptInv, SoloInv, ReadDone
    PROVE  /\ helloes = {client.session} /\ AuthAnswered /\ msgCount = 0
           /\ lobbyIn' = <<>> /\ lobbyOut' = <<>> /\ client'.keys = data.keys
<1>1. /\ client.step = "proving" /\ lobbyOut # <<>> /\ Head(lobbyOut).type = "done"
      /\ Head(lobbyOut).response = Derive(client.ticket, client.packets)
      /\ client'.keys = Head(lobbyOut).response
      /\ lobbyOut' = Tail(lobbyOut) /\ lobbyIn' = lobbyIn
  BY DEF ReadDone, ReadsFromLobby, TypeOK
<1>2. Head(lobbyOut) = lobbyOut[1] /\ Len(lobbyOut) >= 1 /\ 1 \in DOMAIN lobbyOut
  BY <1>1, OutTaken
<1>3. helloes = {client.session}
  <2>0. /\ helloes \subseteq 1 .. client.session /\ client.session \in Nat
        /\ client.session \in helloes
    BY <1>1, LobbyAssumption DEF SessionInv, LobbyAssumption
  <2>1. client.packets[1] = Hello(client.session)
    BY <1>1 DEF SessionInv
  <2>2. lobbyOut[1].response.packets = client.packets
    BY <1>1, <1>2 DEF Derive
  <2>3. packetBuffer # <<>> /\ packetBuffer[1] = Hello(client.session)
    BY <1>1, <1>2, <2>1, <2>2 DEF TranscriptInv
  <2>4. \A h \in helloes : client.session <= h
    BY <2>3, HelloTells DEF TranscriptInv
  <2>5. ASSUME NEW h \in helloes PROVE h = client.session
    <3>1. h \in Nat /\ h <= client.session /\ client.session <= h
      BY <2>0, <2>4
    <3> QED BY <2>0, <3>1
  <2> QED BY <2>0, <2>5
<1>4. AuthAnswered /\ msgCount = 0
  BY <1>1, <1>2, <1>3
     DEF SoloInv, Handshaking, HelloQueued, HelloAnswered, AuthQueued, AuthAnswered, HasKeys
<1>5. lobbyIn' = <<>> /\ lobbyOut' = <<>> /\ client'.keys = data.keys
  BY <1>1, <1>2, <1>4, OnlyTaken DEF AuthAnswered
<1> QED BY <1>3, <1>4, <1>5

(* Of a handshake that nobody else began, a step of the lobby or of the     *)
(* game makes the next stage; a game that accepts a response began the     *)
(* first handshake, and one that fails did not.                            *)
LEMMA SoloStep ==
    TypeOK /\ TypeOK' /\ SessionInv /\ TranscriptInv /\ SoloInv /\ [Next]_vars => SoloInv'
<1> SUFFICES ASSUME TypeOK, TypeOK', SessionInv, TranscriptInv, SoloInv, [Next]_vars
             PROVE  SoloInv'
  OBVIOUS
<1>a. /\ client.session \in 1 .. MaxSessions
      /\ helloes \subseteq 1 .. client.session
      /\ client.step \in {"idle", "asked", "ticketed"} <=> client.session \notin helloes
      /\ client.session \in Nat
  BY LobbyAssumption DEF SessionInv, LobbyAssumption
<1>b. ASSUME helloes = {client.session}
      PROVE  (Handshaking /\ msgCount = 0) \/ HasKeys
  BY <1>b DEF SoloInv
<1>c. client.step = "in" => HasKeys /\ helloes = {client.session}
  BY DEF SoloInv, Handshaking, HelloQueued, HelloAnswered, AuthQueued, AuthAnswered
<1>1. CASE HandlePost
  BY <1>1 DEF HandlePost, crypto, SoloInv, Handshaking, HelloQueued, HelloAnswered, AuthQueued,
              AuthAnswered, HasKeys, Quiet
<1>2. CASE HandleTicketRequest
  <2>1. data'.keys = data.keys
    BY <1>2 DEF HandleTicketRequest, set_session_key, TypeOK
  <2> QED
    BY <1>2, <2>1 DEF HandleTicketRequest, SoloInv, Handshaking, HelloQueued, HelloAnswered,
                      AuthQueued, AuthAnswered, HasKeys, Quiet
<1>3. CASE HandleZero
  <2>1. /\ lobbyIn # <<>> /\ Head(lobbyIn).type = "zero" /\ lobbyIn' = Tail(lobbyIn)
        /\ lobbyOut' = Append(lobbyOut, [type |-> "zero"])
        /\ UNCHANGED <<packetBuffer, data, client, helloes, msgCount>>
    BY <1>3 DEF HandleZero, TakesFromLobby
  <2>2. ASSUME helloes = {client.session} PROVE HasKeys /\ Quiet'
    <3>1. Head(lobbyIn) = lobbyIn[1] /\ Len(lobbyIn) >= 1
      BY <2>1, InTaken
    <3>2. ~Handshaking
      BY <2>1, <3>1 DEF Handshaking, HelloQueued, HelloAnswered, AuthQueued, AuthAnswered
    <3>3. HasKeys
      BY <1>b, <2>2, <3>2
    <3> QED BY <2>1, <3>3, InTaken, OutAdded, NewPackets DEF HasKeys, Quiet
  <2> QED BY <2>1, <2>2 DEF SoloInv, HasKeys
<1>4. CASE HandleHeaderAck
  <2>1. /\ lobbyIn # <<>> /\ lobbyIn' = Tail(lobbyIn) /\ Head(lobbyIn).type = "hello"
        /\ UNCHANGED <<data, client, helloes, msgCount>>
        /\ [type |-> "ack"] \in LobbyMessage
        /\ lobbyOut' = Append(lobbyOut, [type |-> "ack"])
        /\ packetBuffer = <<>> => packetBuffer' = <<Head(lobbyIn).packet, Ack>>
    BY <1>4, HeaderAckFacts
  <2>2. ASSUME helloes = {client.session} PROVE HelloAnswered' /\ msgCount = 0
    <3>1. Head(lobbyIn) = lobbyIn[1] /\ Len(lobbyIn) >= 1 /\ 1 \in DOMAIN lobbyIn
      BY <2>1, InTaken
    <3>2. ~HasKeys
      BY <2>1, <3>1 DEF HasKeys, Quiet
    <3>3. HelloQueued /\ msgCount = 0
      BY <1>b, <2>1, <2>2, <3>1, <3>2
         DEF Handshaking, HelloQueued, HelloAnswered, AuthQueued, AuthAnswered
    <3>4. lobbyIn' = <<>> /\ Len(lobbyOut') = 1 /\ lobbyOut'[1].type = "ack"
      BY <2>1, <3>3, OnlyTaken, OnlyAdded DEF HelloQueued
    <3> QED BY <2>1, <3>1, <3>3, <3>4 DEF HelloQueued, HelloAnswered
  <2> QED BY <1>c, <2>1, <2>2 DEF SoloInv, Handshaking
<1>5. CASE HandleClientAuth
  <2> DEFINE m == [type |-> "done", response |-> data'.keys]
  <2>1. /\ lobbyIn # <<>> /\ lobbyIn' = Tail(lobbyIn) /\ Head(lobbyIn).type = "auth"
        /\ UNCHANGED <<client, helloes, msgCount>>
        /\ packetBuffer' = Append(packetBuffer, Head(lobbyIn).packet)
        /\ data'.keys = Derive(data.m_session_key, packetBuffer')
        /\ m \in LobbyMessage /\ lobbyOut' = Append(lobbyOut, m)
    BY <1>5, ClientAuthFacts
  <2>0. m.type = "done" /\ m.response = data'.keys
    OBVIOUS
  <2> HIDE DEF m
  <2>2. ASSUME helloes = {client.session} PROVE AuthAnswered' /\ msgCount = 0
    <3>1. Head(lobbyIn) = lobbyIn[1] /\ Len(lobbyIn) >= 1 /\ 1 \in DOMAIN lobbyIn
      BY <2>1, InTaken
    <3>2. ~HasKeys
      BY <2>1, <3>1 DEF HasKeys, Quiet
    <3>3. AuthQueued /\ msgCount = 0
      BY <1>b, <2>1, <2>2, <3>1, <3>2
         DEF Handshaking, HelloQueued, HelloAnswered, AuthQueued, AuthAnswered
    <3>4. lobbyIn' = <<>> /\ Len(lobbyOut') = 1 /\ lobbyOut'[1] = m
      BY <2>1, <3>3, OnlyTaken, OnlyAdded DEF AuthQueued
    <3>5. packetBuffer' = client.packets
      <4>1. packetBuffer' = Append(<<Hello(client.session), Ack>>, Auth(client.session))
        BY <2>1, <3>1, <3>3 DEF AuthQueued
      <4>2. client.packets = <<Hello(client.session), Ack, Auth(client.session)>>
        BY <3>3 DEF SessionInv, AuthQueued
      <4> QED BY <4>1, <4>2, ThirdAppended
    <3>6. client.ticket = SESSION_KEY /\ data.m_session_key = SESSION_KEY
      BY <3>3 DEF SessionInv, AuthQueued
    <3> QED BY <2>0, <2>1, <3>3, <3>4, <3>5, <3>6 DEF AuthQueued, AuthAnswered
  <2> QED BY <1>c, <2>1, <2>2 DEF SoloInv, Handshaking
<1>6. CASE HandleTask
  <2>1. /\ lobbyIn # <<>> /\ lobbyIn' = Tail(lobbyIn) /\ Head(lobbyIn).type = "task"
        /\ UNCHANGED <<packetBuffer, data, client, helloes>>
        /\ \/ lobbyOut' = lobbyOut
           \/ \E m \in LobbyMessage :
                lobbyOut' = Append(lobbyOut, m) /\ m.type \in {"reply", "message"}
    BY <1>6, TaskFacts
  <2>2. ASSUME helloes = {client.session} PROVE HasKeys /\ Quiet'
    <3>1. Head(lobbyIn) = lobbyIn[1] /\ Len(lobbyIn) >= 1
      BY <2>1, InTaken
    <3>2. ~Handshaking
      BY <2>1, <3>1 DEF Handshaking, HelloQueued, HelloAnswered, AuthQueued, AuthAnswered
    <3>3. HasKeys
      BY <1>b, <2>2, <3>2
    <3>4. \A i \in DOMAIN lobbyIn' : lobbyIn'[i].type \in {"task", "zero"}
      BY <2>1, <3>3, InTaken DEF HasKeys, Quiet
    <3>5. \A i \in DOMAIN lobbyOut' : lobbyOut'[i].type \in {"reply", "message", "zero"}
      BY <2>1, <3>3, OutAdded DEF HasKeys, Quiet
    <3> QED BY <3>3, <3>4, <3>5 DEF Quiet
  <2> QED BY <2>1, <2>2 DEF SoloInv, HasKeys
<1>7. CASE AskTicket
  <2>1. client.step = "idle" /\ client'.step = "asked" /\ client'.session = client.session
        /\ helloes' = helloes
    BY <1>7 DEF AskTicket, TypeOK
  <2> QED BY <1>a, <2>1 DEF SoloInv
<1>8. CASE ReadTicket
  <2>1. client.step = "asked" /\ client'.step = "ticketed" /\ client'.session = client.session
        /\ helloes' = helloes
    BY <1>8 DEF ReadTicket, TypeOK
  <2> QED BY <1>a, <2>1 DEF SoloInv
<1>9. CASE SendHello
  <2> DEFINE p == [type |-> "hello", packet |-> Hello(client.session)]
  <2>1. /\ lobbyIn' = Append(lobbyIn, p) /\ p \in LobbyPacket
        /\ helloes' = helloes \cup {client.session}
        /\ client'.step = "hello" /\ client'.session = client.session
        /\ client.step = "ticketed"
        /\ UNCHANGED <<lobbyOut, packetBuffer, msgCount>>
    BY <1>9, <1>a, NewPackets DEF SendHello, crypto, Hello, TypeOK
  <2> HIDE DEF p
  <2>2. ASSUME helloes' = {client.session} PROVE HelloQueued' /\ msgCount' = 0
    <3>1. helloes = {}
      BY <1>a, <2>1, <2>2
    <3>2. lobbyIn = <<>> /\ packetBuffer = <<>> /\ lobbyOut = <<>> /\ msgCount = 0
      BY <3>1 DEF TranscriptInv
    <3>3. Len(lobbyIn') = 1 /\ lobbyIn'[1] = p
      BY <2>1, <3>2, OnlyAdded
    <3> QED BY <2>1, <3>2, <3>3 DEF HelloQueued, p
  <2> QED BY <2>1, <2>2 DEF SoloInv, Handshaking
<1>10. CASE SkipZero
  <2>1. /\ client.step \in {"hello", "proving"} /\ lobbyOut # <<>> /\ Head(lobbyOut).type = "zero"
        /\ lobbyOut' = Tail(lobbyOut)
        /\ UNCHANGED <<helloes, client>>
    BY <1>10 DEF SkipZero, ReadsFromLobby
  <2>2. Head(lobbyOut) = lobbyOut[1] /\ Len(lobbyOut) >= 1
    BY <2>1, OutTaken
  <2>3. helloes # {client.session}
    BY <1>b, <2>1, <2>2
       DEF Handshaking, HelloQueued, HelloAnswered, AuthQueued, AuthAnswered, HasKeys
  <2> QED BY <2>1, <2>3 DEF SoloInv
<1>11. CASE ReadAck
  <2> DEFINE p == [type |-> "auth", packet |-> Auth(client.session)]
  <2>1. /\ client.step = "hello" /\ lobbyOut # <<>> /\ Head(lobbyOut).type = "ack"
        /\ lobbyOut' = Tail(lobbyOut)
        /\ lobbyIn' = Append(lobbyIn, p) /\ p \in LobbyPacket
        /\ client'.step = "proving" /\ client'.session = client.session
        /\ UNCHANGED <<packetBuffer, helloes, msgCount>>
    BY <1>11, <1>a, NewPackets DEF ReadAck, ReadsFromLobby, crypto, Auth, TypeOK
  <2> HIDE DEF p
  <2>2. Head(lobbyOut) = lobbyOut[1] /\ Len(lobbyOut) >= 1
    BY <2>1, OutTaken
  <2>3. ASSUME helloes = {client.session} PROVE AuthQueued' /\ msgCount = 0
    <3>1. HelloAnswered /\ msgCount = 0
      BY <1>b, <2>1, <2>2, <2>3
         DEF Handshaking, HelloQueued, HelloAnswered, AuthQueued, AuthAnswered, HasKeys
    <3>2. Len(lobbyIn') = 1 /\ lobbyIn'[1] = p /\ lobbyOut' = <<>>
      BY <2>1, <3>1, OnlyTaken, OnlyAdded DEF HelloAnswered
    <3> QED BY <2>1, <3>1, <3>2 DEF HelloAnswered, AuthQueued, p
  <2> QED BY <2>1, <2>3 DEF SoloInv, Handshaking
<1>12. CASE ReadDone
  <2>1. /\ client'.step = "in" /\ client'.session = client.session
        /\ UNCHANGED <<data, helloes>>
    BY <1>12 DEF ReadDone, ReadsFromLobby, crypto, TypeOK
  <2>2. helloes = {client.session} /\ lobbyIn' = <<>> /\ lobbyOut' = <<>>
        /\ client'.keys = data.keys
    BY <1>12, DoneFacts
  <2> QED BY <2>1, <2>2 DEF SoloInv, HasKeys, Quiet
<1>13. CASE HandshakeFails
  <2>1. /\ client.step \in {"hello", "proving"} /\ lobbyOut # <<>> /\ ~Expected
        /\ client'.step = "failed" /\ client'.session = client.session /\ helloes' = helloes
    BY <1>13 DEF HandshakeFails, ReadsFromLobby, TypeOK
  <2>2. Head(lobbyOut) = lobbyOut[1]
    BY <2>1, TailFacts DEF TypeOK
  <2>3. helloes # {client.session}
    BY <1>b, <2>1, <2>2
       DEF Handshaking, HelloQueued, HelloAnswered, AuthQueued, AuthAnswered, HasKeys, Expected
  <2> QED BY <2>1, <2>3 DEF SoloInv
<1>14. CASE ReadAnswer
  <2>1. /\ client.step = "in" /\ lobbyOut # <<>> /\ lobbyOut' = Tail(lobbyOut)
        /\ client'.step = "in" /\ client'.session = client.session /\ client'.keys = client.keys
        /\ UNCHANGED <<lobbyIn, data, helloes>>
    BY <1>14 DEF ReadAnswer, ReadsFromLobby, crypto, TypeOK
  <2>2. HasKeys /\ helloes = {client.session}
    BY <1>c, <2>1
  <2>3. Quiet'
    BY <2>1, <2>2, OutTaken DEF HasKeys, Quiet
  <2> QED BY <2>1, <2>2, <2>3 DEF SoloInv, HasKeys
<1>15. CASE Reconnect
  <2>1. client'.step = "idle" /\ client'.session = client.session + 1 /\ helloes' = helloes
    BY <1>15 DEF Reconnect, Fresh
  <2>2. client.session + 1 \notin helloes
    BY <1>a
  <2> QED BY <2>1, <2>2 DEF SoloInv
<1>16. CASE KeepAlive
  <2>1. /\ client.step = "in" /\ lobbyIn' = Append(lobbyIn, [type |-> "zero"])
        /\ UNCHANGED <<lobbyOut, client, data, helloes>>
    BY <1>16 DEF KeepAlive, crypto
  <2>2. HasKeys /\ helloes = {client.session}
    BY <1>c, <2>1
  <2>3. Quiet'
    BY <2>1, <2>2, InAdded, NewPackets DEF HasKeys, Quiet
  <2> QED BY <2>1, <2>2, <2>3 DEF SoloInv, HasKeys
<1>17. ASSUME NEW r \in Requests, SendTask(r) PROVE SoloInv'
  <2>1. PICK p \in LobbyPacket : p.type = "task" /\ lobbyIn' = Append(lobbyIn, p)
    BY <1>17, TaskAdded
  <2>2. /\ client.step = "in" /\ client'.step = "in" /\ client'.session = client.session
        /\ client'.keys = client.keys
        /\ UNCHANGED <<lobbyOut, data, helloes>>
    BY <1>17 DEF SendTask, crypto, TypeOK
  <2>3. HasKeys /\ helloes = {client.session}
    BY <1>c, <2>2
  <2>4. Quiet'
    BY <2>1, <2>2, <2>3, InAdded DEF HasKeys, Quiet
  <2> QED BY <2>2, <2>3, <2>4 DEF SoloInv, HasKeys
<1>18. CASE UNCHANGED vars
  BY <1>18 DEF vars, queues, crypto, SoloInv, Handshaking, HelloQueued, HelloAnswered, AuthQueued,
               AuthAnswered, HasKeys, Quiet
<1> QED BY <1>1, <1>2, <1>3, <1>4, <1>5, <1>6, <1>7, <1>8, <1>9, <1>10, <1>11, <1>12, <1>13,
           <1>14, <1>15, <1>16, <1>17, <1>18 DEF Next, Server, Advance

------------------------------------------------------------------------------
(* Tasks and the keys in force                                             *)

LEMMA TaskInit == Init => TaskInv
  BY DEF Init, TaskInv

(* What is behind the first packet keeps its place in the order. *)
LEMMA TaskInvTaken ==
    ASSUME TypeOK, TypeOK', TaskInv, lobbyIn # <<>>, lobbyIn' = Tail(lobbyIn),
           data'.keys = data.keys,
           \A j \in DOMAIN lobbyOut' : lobbyOut'[j].type = "ack" =>
              \E i \in DOMAIN lobbyOut : lobbyOut[i].type = "ack"
    PROVE  TaskInv'
<1> SUFFICES ASSUME NEW i \in DOMAIN lobbyIn', lobbyIn'[i].type = "task"
             PROVE  /\ lobbyIn'[i].keys = data'.keys
                    /\ \A j \in DOMAIN lobbyIn' :
                         lobbyIn'[j].type # "auth" /\ (j < i => lobbyIn'[j].type # "hello")
                    /\ \A j \in DOMAIN lobbyOut' : lobbyOut'[j].type # "ack"
  BY DEF TaskInv
<1>1. /\ i + 1 \in DOMAIN lobbyIn /\ lobbyIn'[i] = lobbyIn[i + 1] /\ i \in Nat
      /\ \A j \in DOMAIN lobbyIn' : j \in Nat /\ j + 1 \in DOMAIN lobbyIn
                                    /\ lobbyIn'[j] = lobbyIn[j + 1]
  BY InTaken
<1>2. /\ lobbyIn[i + 1].keys = data.keys
      /\ \A j \in DOMAIN lobbyIn :
           lobbyIn[j].type # "auth" /\ (j < i + 1 => lobbyIn[j].type # "hello")
      /\ \A j \in DOMAIN lobbyOut : lobbyOut[j].type # "ack"
  BY <1>1 DEF TaskInv
<1> QED BY <1>1, <1>2

(* What is put behind them is no handshake packet that they would wait for. *)
LEMMA TaskInvAdded ==
    ASSUME TypeOK, TaskInv, NEW e \in LobbyPacket, lobbyIn' = Append(lobbyIn, e),
           e.type \in {"hello", "zero"},
           UNCHANGED <<data, lobbyOut>>
    PROVE  TaskInv'
<1> SUFFICES ASSUME NEW i \in DOMAIN lobbyIn', lobbyIn'[i].type = "task"
             PROVE  /\ lobbyIn'[i].keys = data.keys
                    /\ \A j \in DOMAIN lobbyIn' :
                         lobbyIn'[j].type # "auth" /\ (j < i => lobbyIn'[j].type # "hello")
                    /\ \A j \in DOMAIN lobbyOut : lobbyOut[j].type # "ack"
  BY DEF TaskInv
<1>1. i \in DOMAIN lobbyIn /\ lobbyIn'[i] = lobbyIn[i] /\ i <= Len(lobbyIn) /\ i \in Nat
  BY InAdded
<1>2. \A j \in DOMAIN lobbyIn' :
        \/ j \in DOMAIN lobbyIn /\ lobbyIn'[j] = lobbyIn[j]
        \/ lobbyIn'[j] = e /\ ~(j < i)
  BY <1>1, InAdded
<1>3. /\ lobbyIn[i].keys = data.keys
      /\ \A j \in DOMAIN lobbyIn :
           lobbyIn[j].type # "auth" /\ (j < i => lobbyIn[j].type # "hello")
      /\ \A j \in DOMAIN lobbyOut : lobbyOut[j].type # "ack"
  BY <1>1 DEF TaskInv
<1> QED BY <1>1, <1>2, <1>3

(* A step that leaves the packets alone and reads messages. *)
LEMMA TaskInvRead ==
    ASSUME TypeOK, TaskInv, ReadsFromLobby, lobbyIn' = lobbyIn
    PROVE  TaskInv'
<1>1. lobbyOut # <<>> /\ lobbyOut' = Tail(lobbyOut) /\ data' = data
  BY ReadFacts
<1>2. \A j \in DOMAIN lobbyOut' : j + 1 \in DOMAIN lobbyOut /\ lobbyOut'[j] = lobbyOut[j + 1]
  BY <1>1, OutTaken
<1> QED BY <1>1, <1>2 DEF TaskInv

(* A hello or client_auth is handled, and an ack is read, only when no task *)
(* is queued behind; a game in a session puts its tasks behind no other    *)
(* handshake.                                                              *)
LEMMA TaskStep ==
    TypeOK /\ TypeOK' /\ SessionInv /\ SoloInv /\ TaskInv /\ [Next]_vars => TaskInv'
<1> SUFFICES ASSUME TypeOK, TypeOK', SessionInv, SoloInv, TaskInv, [Next]_vars
             PROVE  TaskInv'
  OBVIOUS
<1>1. CASE HandlePost
  BY <1>1 DEF HandlePost, crypto, TaskInv
<1>2. CASE HandleTicketRequest
  <2>1. data'.keys = data.keys
    BY <1>2 DEF HandleTicketRequest, set_session_key, TypeOK
  <2> QED BY <1>2, <2>1 DEF HandleTicketRequest, TaskInv
<1>3. CASE HandleZero
  <2>1. /\ lobbyIn # <<>> /\ lobbyIn' = Tail(lobbyIn) /\ data' = data
        /\ lobbyOut' = Append(lobbyOut, [type |-> "zero"])
    BY <1>3 DEF HandleZero, TakesFromLobby
  <2>2. \A j \in DOMAIN lobbyOut' : lobbyOut'[j].type = "ack" =>
          \E i \in DOMAIN lobbyOut : lobbyOut[i].type = "ack"
    BY <2>1, OutAdded, NewPackets
  <2> QED BY <2>1, <2>2, TaskInvTaken
<1>4. CASE HandleHeaderAck
  <2>1. lobbyIn # <<>> /\ lobbyIn' = Tail(lobbyIn) /\ Head(lobbyIn).type = "hello"
    BY <1>4, HeaderAckFacts
  <2>2. \A i \in DOMAIN lobbyIn' : lobbyIn'[i].type # "task"
    <3>1. 1 \in DOMAIN lobbyIn /\ lobbyIn[1].type = "hello"
      BY <2>1, InTaken
    <3>2. \A i \in DOMAIN lobbyIn' : i + 1 \in DOMAIN lobbyIn /\ 1 < i + 1
                                    /\ lobbyIn'[i] = lobbyIn[i + 1]
      BY <2>1, InTaken
    <3> QED BY <3>1, <3>2 DEF TaskInv
  <2> QED BY <2>2 DEF TaskInv
<1>5. CASE HandleClientAuth
  <2>1. lobbyIn # <<>> /\ lobbyIn' = Tail(lobbyIn) /\ Head(lobbyIn).type = "auth"
    BY <1>5, ClientAuthFacts
  <2>2. \A i \in DOMAIN lobbyIn' : lobbyIn'[i].type # "task"
    <3>1. 1 \in DOMAIN lobbyIn /\ lobbyIn[1].type = "auth"
      BY <2>1, InTaken
    <3>2. \A i \in DOMAIN lobbyIn' : i + 1 \in DOMAIN lobbyIn /\ lobbyIn'[i] = lobbyIn[i + 1]
      BY <2>1, InTaken
    <3> QED BY <3>1, <3>2 DEF TaskInv
  <2> QED BY <2>2 DEF TaskInv
<1>6. CASE HandleTask
  <2>1. /\ lobbyIn # <<>> /\ lobbyIn' = Tail(lobbyIn) /\ data' = data
        /\ \/ lobbyOut' = lobbyOut
           \/ \E m \in LobbyMessage :
                lobbyOut' = Append(lobbyOut, m) /\ m.type \in {"reply", "message"}
    BY <1>6, TaskFacts
  <2>2. \A j \in DOMAIN lobbyOut' : lobbyOut'[j].type = "ack" =>
          \E i \in DOMAIN lobbyOut : lobbyOut[i].type = "ack"
    <3>1. CASE lobbyOut' = lobbyOut
      BY <3>1
    <3>2. ASSUME NEW m \in LobbyMessage, lobbyOut' = Append(lobbyOut, m),
                 m.type \in {"reply", "message"}
          PROVE  \A j \in DOMAIN lobbyOut' : lobbyOut'[j].type = "ack" =>
                   \E i \in DOMAIN lobbyOut : lobbyOut[i].type = "ack"
      <4>1. m.type # "ack"
        BY <3>2
      <4> QED BY <3>2, <4>1, OutAdded
    <3> QED BY <2>1, <3>1, <3>2
  <2> QED BY <2>1, <2>2, TaskInvTaken
<1>7. CASE AskTicket
  BY <1>7 DEF AskTicket, crypto, TaskInv
<1>8. CASE ReadTicket
  BY <1>8 DEF ReadTicket, crypto, TaskInv
<1>9. CASE SendHello
  <2> DEFINE p == [type |-> "hello", packet |-> Hello(client.session)]
  <2>1. lobbyIn' = Append(lobbyIn, p) /\ p \in LobbyPacket /\ UNCHANGED <<data, lobbyOut>>
        /\ p.type = "hello"
    BY <1>9, NewPackets DEF SendHello, crypto, Hello, SessionInv
  <2> HIDE DEF p
  <2> QED BY <2>1, TaskInvAdded
<1>10. CASE SkipZero
  BY <1>10, TaskInvRead DEF SkipZero
<1>11. CASE ReadAck
  <2> DEFINE p == [type |-> "auth", packet |-> Auth(client.session)]
  <2>1. /\ lobbyIn' = Append(lobbyIn, p) /\ p \in LobbyPacket /\ p.type = "auth"
        /\ lobbyOut # <<>> /\ Head(lobbyOut).type = "ack" /\ lobbyOut' = Tail(lobbyOut)
    BY <1>11, NewPackets DEF ReadAck, ReadsFromLobby, Auth, SessionInv
  <2> HIDE DEF p
  <2>2. 1 \in DOMAIN lobbyOut /\ lobbyOut[1].type = "ack"
    BY <2>1, OutTaken
  <2>3. \A i \in DOMAIN lobbyIn : lobbyIn[i].type # "task"
    BY <2>2 DEF TaskInv
  <2>4. \A i \in DOMAIN lobbyIn' : lobbyIn'[i].type # "task"
    BY <2>1, <2>3, InAdded
  <2> QED BY <2>4 DEF TaskInv
<1>12. CASE ReadDone
  BY <1>12, TaskInvRead DEF ReadDone
<1>13. CASE HandshakeFails
  BY <1>13, TaskInvRead DEF HandshakeFails
<1>14. CASE ReadAnswer
  BY <1>14, TaskInvRead DEF ReadAnswer
<1>15. CASE Reconnect
  BY <1>15 DEF Reconnect, queues, crypto, TaskInv
<1>16. CASE KeepAlive
  <2> DEFINE p == [type |-> "zero"]
  <2>1. lobbyIn' = Append(lobbyIn, p) /\ p \in LobbyPacket /\ UNCHANGED <<data, lobbyOut>>
        /\ p.type = "zero"
    BY <1>16, NewPackets DEF KeepAlive, crypto
  <2> HIDE DEF p
  <2> QED BY <2>1, TaskInvAdded
<1>17. ASSUME NEW r \in Requests, SendTask(r) PROVE TaskInv'
  <2>1. PICK p \in LobbyPacket : p.type = "task" /\ p.keys = client.keys
                                /\ lobbyIn' = Append(lobbyIn, p)
    BY <1>17, TaskAdded
  <2>2. client.step = "in" /\ UNCHANGED <<data, lobbyOut>>
    BY <1>17 DEF SendTask, crypto
  <2>3. HasKeys
    BY <2>2 DEF SoloInv, Handshaking, HelloQueued, HelloAnswered, AuthQueued, AuthAnswered
  <2>4. \A j \in DOMAIN lobbyIn' :
          /\ lobbyIn'[j].type \in {"task", "zero"}
          /\ lobbyIn'[j] = p \/ (j \in DOMAIN lobbyIn /\ lobbyIn'[j] = lobbyIn[j])
    BY <2>1, <2>3, InAdded DEF HasKeys, Quiet
  <2>5. \A j \in DOMAIN lobbyOut : lobbyOut[j].type # "ack"
    BY <2>3 DEF HasKeys, Quiet
  <2>6. \A j \in DOMAIN lobbyIn' : lobbyIn'[j].type = "task" => lobbyIn'[j].keys = data.keys
    BY <2>1, <2>3, <2>4 DEF TaskInv, HasKeys
  <2> QED BY <2>2, <2>4, <2>5, <2>6 DEF TaskInv
<1>18. CASE UNCHANGED vars
  BY <1>18 DEF vars, queues, crypto, TaskInv
<1> QED BY <1>1, <1>2, <1>3, <1>4, <1>5, <1>6, <1>7, <1>8, <1>9, <1>10, <1>11, <1>12, <1>13,
           <1>14, <1>15, <1>16, <1>17, <1>18 DEF Next, Server, Advance

------------------------------------------------------------------------------
(* Tasks and their answers                                                 *)

LEMMA AnswerInit == Init => AnswerInv
  BY DEF Init, AnswerInv, Fresh

(* What the lobby has answered: its members, and what a step makes of it.   *)
LEMMA ToldTypes ==
    ASSUME TypeOK
    PROVE  /\ \A m \in Told : \/ \E i \in DOMAIN client.answers : m = client.answers[i]
                              \/ \E i \in Unread : m = lobbyOut[i]
           /\ \A i \in DOMAIN client.answers : client.answers[i] \in Told
           /\ \A i \in Unread : lobbyOut[i] \in Told /\ i \in DOMAIN lobbyOut
                                /\ lobbyOut[i].count \in Nat /\ i \in Nat
           /\ Unread \subseteq DOMAIN lobbyOut
           /\ Len(client.answers) \in Nat
           /\ DOMAIN client.answers = 1 .. Len(client.answers)
<1>1. DOMAIN client.answers = 1 .. Len(client.answers) /\ Len(client.answers) \in Nat
  BY DomainOfSeq DEF TypeOK
<1>2. DOMAIN lobbyOut = 1 .. Len(lobbyOut) /\ Len(lobbyOut) \in Nat
      /\ \A i \in 1 .. Len(lobbyOut) : lobbyOut[i] \in LobbyMessage
  BY DomainOfSeq, ElementOfSeq DEF TypeOK
<1>3. \A i \in Unread : lobbyOut[i].count \in Nat /\ i \in Nat
  BY <1>2, MessageFacts DEF Unread
<1> QED BY <1>1, <1>3 DEF Told, Unread

LEMMA ToldAdded ==
    ASSUME TypeOK, NEW e \in LobbyMessage, lobbyOut' = Append(lobbyOut, e),
           client' = client
    PROVE  /\ e.type \in {"reply", "message"} =>
                Told' = Told \cup {e} /\ Unread' = Unread \cup {Len(lobbyOut) + 1}
           /\ e.type \notin {"reply", "message"} => Told' = Told /\ Unread' = Unread
           /\ \A i \in Unread : lobbyOut'[i] = lobbyOut[i] /\ i < Len(lobbyOut) + 1
           /\ lobbyOut'[Len(lobbyOut) + 1] = e
<1>1. /\ Len(lobbyOut) \in Nat
      /\ DOMAIN lobbyOut = 1 .. Len(lobbyOut) /\ DOMAIN lobbyOut' = 1 .. Len(lobbyOut) + 1
      /\ \A j \in 1 .. Len(lobbyOut) : lobbyOut'[j] = lobbyOut[j]
      /\ lobbyOut'[Len(lobbyOut) + 1] = e
  BY OutAdded
<1>2. \A i \in Unread : lobbyOut'[i] = lobbyOut[i] /\ i < Len(lobbyOut) + 1
                        /\ i \in 1 .. Len(lobbyOut)
  BY <1>1 DEF Unread
<1>3. ASSUME e.type \in {"reply", "message"}
      PROVE  Told' = Told \cup {e} /\ Unread' = Unread \cup {Len(lobbyOut) + 1}
  <2>1. Unread' = Unread \cup {Len(lobbyOut) + 1}
    BY <1>1, <1>3 DEF Unread
  <2>2. {lobbyOut'[i] : i \in Unread'} = {lobbyOut[i] : i \in Unread} \cup {e}
    BY <1>1, <1>2, <2>1
  <2> QED BY <2>1, <2>2 DEF Told
<1>4. ASSUME e.type \notin {"reply", "message"}
      PROVE  Told' = Told /\ Unread' = Unread
  <2>1. Unread' = Unread
    BY <1>1, <1>4 DEF Unread
  <2>2. {lobbyOut'[i] : i \in Unread'} = {lobbyOut[i] : i \in Unread}
    BY <1>2, <2>1
  <2> QED BY <2>1, <2>2 DEF Told
<1> QED BY <1>1, <1>2, <1>3, <1>4

(* The task at the head is taken; the others keep their order. *)
LEMMA WaitingTaken ==
    ASSUME TypeOK, TypeOK', lobbyIn # <<>>, lobbyIn' = Tail(lobbyIn)
    PROVE  /\ \A i \in DOMAIN lobbyIn' :
                /\ i + 1 \in DOMAIN lobbyIn /\ lobbyIn'[i] = lobbyIn[i + 1] /\ i \in Nat
                /\ IsTask(i)' <=> IsTask(i + 1)
           /\ \A i \in DOMAIN lobbyIn : i = 1 \/ (i - 1 \in DOMAIN lobbyIn' /\ i = (i - 1) + 1)
           /\ 1 \in DOMAIN lobbyIn /\ Head(lobbyIn) = lobbyIn[1]
  BY InTaken DEF IsTask

(* A task that throws is passed over, and a keep-alive is no task. *)
LEMMA WaitingPassed ==
    ASSUME TypeOK, TypeOK', WaitingInv, lobbyIn # <<>>, lobbyIn' = Tail(lobbyIn),
           client' = client, Told' = Told, thrown \subseteq thrown',
           Head(lobbyIn).type = "task" => Head(lobbyIn).for \in thrown'
    PROVE  WaitingInv'
<1>1. ASSUME NEW i \in DOMAIN lobbyIn', IsTask(i)'
      PROVE  /\ lobbyIn'[i].for[1] = client.session
             /\ lobbyIn'[i].for[2] \in 1 .. Len(client.asked)
             /\ lobbyIn'[i].request = client.asked[lobbyIn'[i].for[2]]
             /\ \A j \in DOMAIN lobbyIn' : IsTask(j)' /\ i < j =>
                  lobbyIn'[i].for[2] < lobbyIn'[j].for[2]
             /\ \A m \in Told : m.for[2] < lobbyIn'[i].for[2]
  <2>1. IsTask(i + 1) /\ lobbyIn'[i] = lobbyIn[i + 1] /\ i + 1 \in DOMAIN lobbyIn
        /\ \A j \in DOMAIN lobbyIn' : IsTask(j)' /\ i < j =>
             IsTask(j + 1) /\ lobbyIn'[j] = lobbyIn[j + 1] /\ j + 1 \in DOMAIN lobbyIn
             /\ i + 1 < j + 1
    BY <1>1, WaitingTaken
  <2> QED BY <2>1 DEF WaitingInv
<1>2. ASSUME NEW k \in 1 .. Len(client.asked)
      PROVE  \/ <<client.session, k>> \in thrown'
             \/ \E m \in Told : m.for[2] = k
             \/ \E i \in DOMAIN lobbyIn' : IsTask(i)' /\ lobbyIn'[i].for[2] = k
  <2>1. CASE <<client.session, k>> \in thrown \/ \E m \in Told : m.for[2] = k
    BY <2>1
  <2>2. CASE \E i \in DOMAIN lobbyIn : IsTask(i) /\ lobbyIn[i].for[2] = k
    <3>1. PICK i \in DOMAIN lobbyIn : IsTask(i) /\ lobbyIn[i].for[2] = k
      BY <2>2
    <3>2. CASE i = 1
      <4>1. Head(lobbyIn) = lobbyIn[1] /\ Head(lobbyIn).type = "task"
            /\ Head(lobbyIn).for \in Nat \X Nat
        BY <3>1, <3>2, InTaken, PacketFacts DEF IsTask
      <4>2. Head(lobbyIn).for[1] = client.session /\ Head(lobbyIn).for[2] = k
        BY <3>1, <3>2, <4>1 DEF WaitingInv
      <4>3. Head(lobbyIn).for = <<client.session, k>>
        BY <4>1, <4>2
      <4> QED BY <4>1, <4>3
    <3>3. CASE i # 1
      BY <3>1, <3>3, WaitingTaken
    <3> QED BY <3>2, <3>3
  <2> QED BY <2>1, <2>2 DEF WaitingInv
<1> QED BY <1>1, <1>2 DEF WaitingInv

(* A task that is answered moves to the answers. *)
LEMMA WaitingAnswered ==
    ASSUME TypeOK, TypeOK', WaitingInv, lobbyIn # <<>>, lobbyIn' = Tail(lobbyIn),
           client' = client, thrown' = thrown, Head(lobbyIn).type = "task",
           NEW m, Told' = Told \cup {m}, m.for = Head(lobbyIn).for
    PROVE  WaitingInv'
<1>0. lobbyIn[1] = Head(lobbyIn) /\ 1 \in DOMAIN lobbyIn /\ IsTask(1)
  BY WaitingTaken DEF IsTask
<1>1. ASSUME NEW i \in DOMAIN lobbyIn', IsTask(i)'
      PROVE  /\ lobbyIn'[i].for[1] = client.session
             /\ lobbyIn'[i].for[2] \in 1 .. Len(client.asked)
             /\ lobbyIn'[i].request = client.asked[lobbyIn'[i].for[2]]
             /\ \A j \in DOMAIN lobbyIn' : IsTask(j)' /\ i < j =>
                  lobbyIn'[i].for[2] < lobbyIn'[j].for[2]
             /\ \A l \in Told' : l.for[2] < lobbyIn'[i].for[2]
  <2>1. IsTask(i + 1) /\ lobbyIn'[i] = lobbyIn[i + 1] /\ i + 1 \in DOMAIN lobbyIn /\ 1 < i + 1
        /\ \A j \in DOMAIN lobbyIn' : IsTask(j)' /\ i < j =>
             IsTask(j + 1) /\ lobbyIn'[j] = lobbyIn[j + 1] /\ j + 1 \in DOMAIN lobbyIn
             /\ i + 1 < j + 1
    BY <1>1, WaitingTaken, InTaken
  <2>2. lobbyIn[1].for[2] < lobbyIn[i + 1].for[2]
    BY <1>0, <2>1 DEF WaitingInv
  <2>3. \A l \in Told : l.for[2] < lobbyIn[i + 1].for[2]
    BY <2>1 DEF WaitingInv
  <2>4. \A l \in Told' : l.for[2] < lobbyIn'[i].for[2]
    BY <1>0, <2>1, <2>2, <2>3
  <2> QED BY <2>1, <2>4 DEF WaitingInv
<1>2. ASSUME NEW k \in 1 .. Len(client.asked)
      PROVE  \/ <<client.session, k>> \in thrown
             \/ \E l \in Told' : l.for[2] = k
             \/ \E i \in DOMAIN lobbyIn' : IsTask(i)' /\ lobbyIn'[i].for[2] = k
  <2>1. CASE <<client.session, k>> \in thrown \/ \E l \in Told : l.for[2] = k
    BY <2>1
  <2>2. CASE \E i \in DOMAIN lobbyIn : IsTask(i) /\ lobbyIn[i].for[2] = k
    <3>1. PICK i \in DOMAIN lobbyIn : IsTask(i) /\ lobbyIn[i].for[2] = k
      BY <2>2
    <3>2. CASE i = 1
      BY <1>0, <3>1, <3>2
    <3>3. CASE i # 1
      BY <3>1, <3>3, WaitingTaken
    <3> QED BY <3>2, <3>3
  <2> QED BY <2>1, <2>2 DEF WaitingInv
<1> QED BY <1>1, <1>2 DEF WaitingInv

(* A new answer is the last by number and by task. *)
LEMMA ToldAnswered ==
    ASSUME TypeOK, WaitingInv, ToldInv, client.keys = data.keys,
           lobbyIn # <<>>, Head(lobbyIn).type = "task", Head(lobbyIn).keys = data.keys,
           client' = client,
           NEW m \in LobbyMessage, m.type \in {"reply", "message"},
           m.for = Head(lobbyIn).for, m.keys = data.keys, m.count = msgCount + 1,
           m.type = "reply" => m.task = Head(lobbyIn).request[2],
           Told' = Told \cup {m}, msgCount' = msgCount + 1
    PROVE  ToldInv'
<1>0. lobbyIn[1] = Head(lobbyIn) /\ 1 \in DOMAIN lobbyIn /\ IsTask(1) /\ msgCount \in Nat
  BY TailFacts DEF IsTask, TypeOK
<1>1. /\ m.for[1] = client.session /\ m.for[2] \in 1 .. Len(client.asked)
      /\ m.type = "reply" => m.task = client.asked[m.for[2]][2]
      /\ \A l \in Told : l.for[2] < m.for[2]
  BY <1>0 DEF WaitingInv
<1>2. \A l \in Told : l.count \in 1 .. msgCount /\ l.count < m.count /\ ~(m.count < l.count)
  BY <1>0 DEF ToldInv
<1>3. \A l \in Told : l.for[2] \in 1 .. Len(client.asked)
  BY DEF ToldInv
<1>4. Len(client.asked) \in Nat
  BY DomainOfSeq DEF TypeOK
<1>5. \A l \in Told : ~(m.for[2] < l.for[2])
  BY <1>1, <1>3, <1>4
<1>6. ~(m.count < m.count) /\ ~(m.for[2] < m.for[2]) /\ m.count \in 1 .. msgCount'
  BY <1>0, <1>1, <1>4
<1>7. \A l \in Told : l.count \in 1 .. msgCount'
  BY <1>0, <1>2
<1>8. ASSUME NEW a \in Told'
      PROVE  /\ a.for[1] = client.session /\ a.for[2] \in 1 .. Len(client.asked)
             /\ a.keys = client.keys
             /\ a.type = "reply" => a.task = client.asked[a.for[2]][2]
             /\ a.count \in 1 .. msgCount'
             /\ \A l \in Told' : l.count < a.count <=> l.for[2] < a.for[2]
  <2>1. CASE a \in Told
    BY <1>1, <1>2, <1>5, <1>7, <2>1 DEF ToldInv
  <2>2. CASE a = m
    BY <1>1, <1>2, <1>6, <2>2
  <2> QED BY <2>1, <2>2
<1>9. ASSUME NEW c \in 1 .. msgCount' PROVE \E l \in Told' : l.count = c
  <2>1. c \in 1 .. msgCount \/ c = msgCount + 1
    BY <1>0
  <2> QED BY <2>1 DEF ToldInv
<1> QED BY <1>8, <1>9 DEF ToldInv

LEMMA ReadAnswered ==
    ASSUME TypeOK, ToldInv, ReadInv, client' = client,
           NEW m \in LobbyMessage, m.type \in {"reply", "message"}, m.count = msgCount + 1,
           lobbyOut' = Append(lobbyOut, m)
    PROVE  ReadInv'
<1> DEFINE n == Len(lobbyOut) + 1
<1>1. /\ Unread' = Unread \cup {n} /\ lobbyOut'[n] = m
      /\ \A i \in Unread : lobbyOut'[i] = lobbyOut[i] /\ i < n
  BY ToldAdded
<1>2. /\ \A i \in Unread : lobbyOut[i] \in Told /\ lobbyOut[i].count \in Nat /\ i \in Nat
      /\ Len(client.answers) \in Nat /\ DOMAIN client.answers = 1 .. Len(client.answers)
      /\ \A i \in DOMAIN client.answers : client.answers[i] \in Told
  BY ToldTypes
<1>3. msgCount \in Nat /\ n \in Nat
  BY DomainOfSeq DEF TypeOK
<1> HIDE DEF n
<1>4. Len(client.answers) < m.count
  <2>1. CASE Len(client.answers) = 0
    BY <1>3, <2>1
  <2>2. CASE Len(client.answers) # 0
    <3> DEFINE a == Len(client.answers)
    <3>1. a \in DOMAIN client.answers
      BY <1>2, <2>2
    <3>2. client.answers[a].count = a /\ client.answers[a].count \in 1 .. msgCount
      BY <1>2, <3>1 DEF ReadInv, ToldInv
    <3> QED BY <1>3, <3>2
  <2> QED BY <2>1, <2>2
<1>5. \A i \in Unread : lobbyOut[i].count < m.count
  BY <1>2, <1>3 DEF ToldInv
<1>6. \A i \in Unread' : Len(client.answers) < lobbyOut'[i].count
  BY <1>1, <1>4 DEF ReadInv
<1>7. ASSUME NEW i \in Unread', NEW j \in Unread', i < j
      PROVE  lobbyOut'[i].count < lobbyOut'[j].count
  <2>1. i \in Unread
    BY <1>1, <1>2, <1>3, <1>7
  <2>2. CASE j \in Unread
    BY <1>1, <1>7, <2>1, <2>2 DEF ReadInv
  <2>3. CASE j = n
    BY <1>1, <1>5, <2>1, <2>3
  <2> QED BY <1>1, <2>2, <2>3
<1> QED BY <1>6, <1>7 DEF ReadInv

(* The first unread answer is the next one by number. *)
LEMMA NextAnswer ==
    ASSUME TypeOK, ToldInv, ReadInv, 1 \in Unread
    PROVE  lobbyOut[1].count = Len(client.answers) + 1
<1> DEFINE n == Len(client.answers) + 1
<1>1. /\ \A i \in Unread : lobbyOut[i] \in Told /\ lobbyOut[i].count \in Nat /\ i \in Nat
                           /\ i \in DOMAIN lobbyOut
      /\ Len(client.answers) \in Nat /\ DOMAIN client.answers = 1 .. Len(client.answers)
      /\ \A m \in Told : \/ \E i \in DOMAIN client.answers : m = client.answers[i]
                         \/ \E i \in Unread : m = lobbyOut[i]
  BY ToldTypes
<1>2. lobbyOut[1].count \in 1 .. msgCount /\ Len(client.answers) < lobbyOut[1].count
      /\ msgCount \in Nat
  BY <1>1 DEF ToldInv, ReadInv, TypeOK
<1>3. n \in 1 .. msgCount
  BY <1>1, <1>2
<1> HIDE DEF n
<1>4. PICK l \in Told : l.count = n
  BY <1>3 DEF ToldInv
<1>5. ~\E i \in DOMAIN client.answers : l = client.answers[i]
  BY <1>1, <1>4 DEF ReadInv, n
<1>6. PICK i \in Unread : l = lobbyOut[i]
  BY <1>1, <1>5
<1>7. CASE i = 1
  BY <1>4, <1>6, <1>7 DEF n
<1>8. CASE i # 1
  <2>1. 1 < i
    <3>1. i \in DOMAIN lobbyOut /\ DOMAIN lobbyOut = 1 .. Len(lobbyOut)
      BY <1>1, DomainOfSeq DEF TypeOK
    <3> QED BY <1>8, <3>1
  <2>2. lobbyOut[1].count < n
    BY <1>4, <1>6, <2>1 DEF ReadInv
  <2> QED BY <1>1, <1>2, <2>2 DEF n
<1> QED BY <1>7, <1>8

(* What the game reads moves from the queue to its answers. *)
LEMMA UnreadTaken ==
    ASSUME TypeOK, lobbyOut # <<>>, lobbyOut' = Tail(lobbyOut)
    PROVE  /\ \A i \in Unread' : i + 1 \in Unread /\ lobbyOut'[i] = lobbyOut[i + 1] /\ i \in Nat
           /\ \A i \in Unread : i = 1 \/ (i - 1 \in Unread' /\ lobbyOut'[i - 1] = lobbyOut[i])
  BY OutTaken DEF Unread

LEMMA ReadOne ==
    ASSUME TypeOK, ToldInv, ReadInv, lobbyOut # <<>>, lobbyOut' = Tail(lobbyOut),
           Head(lobbyOut).type \in {"reply", "message"},
           client' = [client EXCEPT !.answers = Append(@, Head(lobbyOut))]
    PROVE  Told' = Told /\ ReadInv'
<1> DEFINE n == Len(client.answers)
<1>1. Head(lobbyOut) = lobbyOut[1] /\ 1 \in Unread /\ Head(lobbyOut) \in LobbyMessage
  BY OutTaken DEF Unread
<1>2. n \in Nat /\ DOMAIN client.answers = 1 .. n /\ client.answers \in Seq(LobbyMessage)
      /\ \A i \in Unread : i \in Nat /\ lobbyOut[i].count \in Nat
  BY ToldTypes DEF TypeOK
<1>3. client'.answers = Append(client.answers, lobbyOut[1])
  BY <1>1 DEF TypeOK
<1>4. /\ DOMAIN client'.answers = 1 .. n + 1 /\ Len(client'.answers) = n + 1
      /\ \A i \in 1 .. n : client'.answers[i] = client.answers[i]
      /\ client'.answers[n + 1] = lobbyOut[1]
  <2>1. Append(client.answers, lobbyOut[1]) \in Seq(LobbyMessage)
    BY <1>1, <1>2, AppendFacts
  <2>2. /\ Len(Append(client.answers, lobbyOut[1])) = n + 1
        /\ \A i \in 1 .. n : Append(client.answers, lobbyOut[1])[i] = client.answers[i]
        /\ Append(client.answers, lobbyOut[1])[n + 1] = lobbyOut[1]
    BY <1>1, <1>2, AppendFacts
  <2> QED BY <1>2, <1>3, <2>1, <2>2, DomainOfSeq
<1>5. lobbyOut[1].count = n + 1
  BY <1>1, NextAnswer
<1> HIDE DEF n
<1>6. {client'.answers[i] : i \in DOMAIN client'.answers}
        = {client.answers[i] : i \in DOMAIN client.answers} \cup {lobbyOut[1]}
  BY <1>2, <1>4
<1>7. {lobbyOut[i] : i \in Unread} = {lobbyOut'[i] : i \in Unread'} \cup {lobbyOut[1]}
  <2>1. ASSUME NEW i \in Unread
        PROVE  lobbyOut[i] \in {lobbyOut'[j] : j \in Unread'} \cup {lobbyOut[1]}
    BY UnreadTaken
  <2>2. ASSUME NEW i \in Unread' PROVE lobbyOut'[i] \in {lobbyOut[j] : j \in Unread}
    BY UnreadTaken
  <2> QED BY <1>1, <2>1, <2>2
<1>8. Told' = Told
  BY <1>6, <1>7 DEF Told
<1>9. \A i \in DOMAIN client'.answers : client'.answers[i].count = i
  BY <1>2, <1>4, <1>5 DEF ReadInv
<1>10. ASSUME NEW i \in Unread'
       PROVE  /\ n + 1 < lobbyOut'[i].count
              /\ \A j \in Unread' : i < j => lobbyOut'[i].count < lobbyOut'[j].count
  <2>1. i + 1 \in Unread /\ lobbyOut'[i] = lobbyOut[i + 1] /\ i \in Nat
    BY UnreadTaken
  <2>2. 1 < i + 1
    <3>1. i \in DOMAIN lobbyOut' /\ DOMAIN lobbyOut' = 1 .. Len(lobbyOut) - 1
          /\ Len(lobbyOut) \in Nat
      BY OutTaken DEF Unread
    <3> QED BY <2>1, <3>1
  <2>3. lobbyOut[1].count < lobbyOut[i + 1].count
    BY <1>1, <2>1, <2>2 DEF ReadInv
  <2>4. ASSUME NEW j \in Unread', i < j PROVE lobbyOut'[i].count < lobbyOut'[j].count
    <3>1. j + 1 \in Unread /\ lobbyOut'[j] = lobbyOut[j + 1] /\ j \in Nat
      BY UnreadTaken
    <3>2. i + 1 < j + 1
      BY <2>1, <2>4, <3>1
    <3> QED BY <2>1, <3>1, <3>2 DEF ReadInv
  <2> QED BY <1>5, <2>1, <2>3, <2>4
<1> QED BY <1>4, <1>8, <1>9, <1>10 DEF ReadInv

LEMMA ReadZero ==
    ASSUME TypeOK, ReadInv, lobbyOut # <<>>, lobbyOut' = Tail(lobbyOut),
           Head(lobbyOut).type = "zero", client' = client
    PROVE  Told' = Told /\ ReadInv'
<1>1. Head(lobbyOut) = lobbyOut[1] /\ 1 \notin Unread
  BY OutTaken DEF Unread
<1>2. {lobbyOut[i] : i \in Unread} = {lobbyOut'[i] : i \in Unread'}
  <2>1. ASSUME NEW i \in Unread PROVE lobbyOut[i] \in {lobbyOut'[j] : j \in Unread'}
    BY <1>1, UnreadTaken
  <2>2. ASSUME NEW i \in Unread' PROVE lobbyOut'[i] \in {lobbyOut[j] : j \in Unread}
    BY UnreadTaken
  <2> QED BY <2>1, <2>2
<1>3. Told' = Told
  BY <1>2 DEF Told
<1>4. ASSUME NEW i \in Unread'
      PROVE  /\ Len(client.answers) < lobbyOut'[i].count
             /\ \A j \in Unread' : i < j => lobbyOut'[i].count < lobbyOut'[j].count
  <2>1. i + 1 \in Unread /\ lobbyOut'[i] = lobbyOut[i + 1] /\ i \in Nat
    BY UnreadTaken
  <2>2. ASSUME NEW j \in Unread', i < j PROVE lobbyOut'[i].count < lobbyOut'[j].count
    <3>1. j + 1 \in Unread /\ lobbyOut'[j] = lobbyOut[j + 1] /\ j \in Nat
      BY UnreadTaken
    <3>2. i + 1 < j + 1
      BY <2>1, <2>2, <3>1
    <3> QED BY <2>1, <3>1, <3>2 DEF ReadInv
  <2> QED BY <2>1, <2>2 DEF ReadInv
<1> QED BY <1>3, <1>4 DEF ReadInv

(* Asking changes the tasks that wait, and what was asked before stays. *)
LEMMA TaskAsked ==
    ASSUME TypeOK, SessionInv, WaitingInv, ToldInv, ReadInv, NEW r \in Requests, SendTask(r)
    PROVE  WaitingInv' /\ ToldInv' /\ ReadInv'
<1> DEFINE n == Len(client.asked)
<1>0. PICK q \in Nat : q = Len(lobbyIn)
  BY DomainOfSeq DEF TypeOK
<1>1. PICK p \in LobbyPacket :
        /\ p.type = "task" /\ p.request = r /\ p.for = <<client.session, n + 1>>
        /\ lobbyIn' = Append(lobbyIn, p)
  BY TaskAdded
<1>2. /\ client'.asked = Append(client.asked, r)
      /\ client'.session = client.session /\ client'.keys = client.keys
      /\ client'.answers = client.answers
      /\ UNCHANGED <<lobbyOut, msgCount, thrown>>
  BY DEF SendTask, TypeOK
<1>3. /\ n \in Nat /\ Len(client'.asked) = n + 1
      /\ \A k \in 1 .. n : client'.asked[k] = client.asked[k]
      /\ client'.asked[n + 1] = r
  <2>1. client.asked \in Seq(Requests)
    BY DEF TypeOK
  <2> QED BY <1>2, <2>1, AppendFacts, DomainOfSeq
<1>4. Unread' = Unread /\ Told' = Told
  BY <1>2 DEF Unread, Told
<1>5. ReadInv'
  BY <1>2, <1>4 DEF ReadInv
<1>6. ToldInv'
  BY <1>2, <1>3, <1>4 DEF ToldInv
<1>7. /\ q \in Nat /\ DOMAIN lobbyIn = 1 .. q /\ DOMAIN lobbyIn' = 1 .. q + 1
      /\ \A j \in 1 .. q : lobbyIn'[j] = lobbyIn[j]
      /\ lobbyIn'[q + 1] = p
  BY <1>0, <1>1, InAdded
<1> HIDE DEF n
<1>8. (\A j \in 1 .. q : IsTask(j)' <=> IsTask(j)) /\ IsTask(q + 1)'
  <2>1. q + 1 \in DOMAIN lobbyIn' /\ lobbyIn'[q + 1].type = "task"
    BY <1>1, <1>7
  <2>2. \A j \in 1 .. q : j \in DOMAIN lobbyIn /\ j \in DOMAIN lobbyIn'
    BY <1>7
  <2> QED BY <1>7, <2>1, <2>2 DEF IsTask
<1>9. \A i \in 1 .. q : IsTask(i) => lobbyIn[i].for[2] \in 1 .. n
  BY <1>7 DEF WaitingInv, n
<1>10. \A m \in Told : m.for[2] \in 1 .. n
  BY DEF ToldInv, n
<1>11. ASSUME NEW i \in DOMAIN lobbyIn', IsTask(i)'
       PROVE  /\ lobbyIn'[i].for[1] = client.session
              /\ lobbyIn'[i].for[2] \in 1 .. n + 1
              /\ lobbyIn'[i].request = client'.asked[lobbyIn'[i].for[2]]
              /\ \A j \in DOMAIN lobbyIn' : IsTask(j)' /\ i < j =>
                   lobbyIn'[i].for[2] < lobbyIn'[j].for[2]
              /\ \A m \in Told : m.for[2] < lobbyIn'[i].for[2]
  <2>1. CASE i \in 1 .. q
    <3>1. IsTask(i) /\ lobbyIn'[i] = lobbyIn[i] /\ lobbyIn[i].for[2] \in 1 .. n
      BY <1>7, <1>8, <1>9, <1>11, <2>1
    <3>2. /\ lobbyIn[i].for[1] = client.session
          /\ lobbyIn[i].request = client.asked[lobbyIn[i].for[2]]
          /\ \A m \in Told : m.for[2] < lobbyIn[i].for[2]
      BY <1>7, <2>1, <3>1 DEF WaitingInv
    <3>3. ASSUME NEW j \in DOMAIN lobbyIn', IsTask(j)', i < j
          PROVE  lobbyIn'[i].for[2] < lobbyIn'[j].for[2]
      <4>1. CASE j \in 1 .. q
        BY <1>7, <1>8, <2>1, <3>1, <3>3, <4>1 DEF WaitingInv
      <4>2. CASE j = q + 1
        BY <1>1, <1>3, <1>7, <3>1, <4>2
      <4> QED BY <1>7, <4>1, <4>2
    <3> QED BY <1>3, <3>1, <3>2, <3>3
  <2>2. CASE i = q + 1
    BY <1>1, <1>3, <1>7, <1>10, <2>2
  <2> QED BY <1>7, <2>1, <2>2
<1>12. ASSUME NEW k \in 1 .. n + 1
       PROVE  \/ <<client.session, k>> \in thrown
              \/ \E m \in Told : m.for[2] = k
              \/ \E i \in DOMAIN lobbyIn' : IsTask(i)' /\ lobbyIn'[i].for[2] = k
  <2>1. CASE k = n + 1
    <3>1. q + 1 \in DOMAIN lobbyIn' /\ lobbyIn'[q + 1].for[2] = k
      BY <1>1, <1>7, <2>1
    <3> QED BY <1>8, <3>1
  <2>2. CASE k \in 1 .. n
    <3>1. \/ <<client.session, k>> \in thrown
          \/ \E m \in Told : m.for[2] = k
          \/ \E i \in DOMAIN lobbyIn : IsTask(i) /\ lobbyIn[i].for[2] = k
      BY <2>2 DEF WaitingInv, n
    <3>2. \A i \in DOMAIN lobbyIn : i \in DOMAIN lobbyIn' /\ lobbyIn'[i] = lobbyIn[i]
                                   /\ (IsTask(i) => IsTask(i)')
      BY <1>7, <1>8
    <3> QED BY <3>1, <3>2
  <2> QED BY <1>3, <2>1, <2>2
<1>13. WaitingInv'
  BY <1>2, <1>3, <1>4, <1>11, <1>12 DEF WaitingInv
<1> QED BY <1>5, <1>6, <1>13

(* A step of the lobby moves a task to the answers or to thrown; one of the *)
(* game reads the next answer or asks for a task; the session begins with   *)
(* nothing asked and nothing answered.                                     *)
LEMMA AnswerStep ==
    TypeOK /\ TypeOK' /\ SessionInv /\ TranscriptInv /\ SoloInv /\ TaskInv /\ AnswerInv
    /\ [Next]_vars => AnswerInv'
<1> SUFFICES ASSUME TypeOK, TypeOK', SessionInv, TranscriptInv, SoloInv, TaskInv, AnswerInv,
                    [Next]_vars, client'.step = "in"
             PROVE  WaitingInv' /\ ToldInv' /\ ReadInv'
  BY DEF AnswerInv
<1>a. ASSUME client.step = "in"
      PROVE  /\ WaitingInv /\ ToldInv /\ ReadInv
             /\ client.keys = data.keys /\ Quiet
  BY <1>a DEF AnswerInv, SoloInv, Handshaking, HelloQueued, HelloAnswered, AuthQueued,
              AuthAnswered, HasKeys
<1>b. ASSUME client.step = "in",
             UNCHANGED <<lobbyIn, lobbyOut, client, msgCount, thrown>>
      PROVE  WaitingInv' /\ ToldInv' /\ ReadInv'
  BY <1>a, <1>b DEF WaitingInv, ToldInv, ReadInv, Told, Unread, IsTask
<1>1. CASE HandlePost
  BY <1>1, <1>b DEF HandlePost
<1>2. CASE HandleTicketRequest
  BY <1>2, <1>b DEF HandleTicketRequest
<1>3. CASE HandleZero
  <2>1. /\ lobbyIn # <<>> /\ Head(lobbyIn).type = "zero" /\ lobbyIn' = Tail(lobbyIn)
        /\ lobbyOut' = Append(lobbyOut, [type |-> "zero"])
        /\ UNCHANGED <<client, msgCount, thrown>>
    BY <1>3 DEF HandleZero, TakesFromLobby
  <2>2. WaitingInv /\ ToldInv /\ ReadInv
    BY <1>a, <2>1
  <2>3. /\ Told' = Told /\ Unread' = Unread
        /\ \A i \in Unread : lobbyOut'[i] = lobbyOut[i]
    BY <2>1, ToldAdded, NewPackets
  <2>4. WaitingInv'
    BY <2>1, <2>2, <2>3, WaitingPassed
  <2>5. ToldInv'
    BY <2>1, <2>2, <2>3 DEF ToldInv
  <2>6. ReadInv'
    <3>1. client'.answers = client.answers
      BY <2>1
    <3> QED BY <2>2, <2>3, <3>1 DEF ReadInv
  <2> QED BY <2>4, <2>5, <2>6
<1>4. CASE HandleHeaderAck
  <2>1. lobbyIn # <<>> /\ lobbyIn' = Tail(lobbyIn) /\ Head(lobbyIn).type = "hello"
        /\ client' = client
    BY <1>4, HeaderAckFacts
  <2>2. 1 \in DOMAIN lobbyIn /\ lobbyIn[1].type = "hello" /\ Quiet
    BY <1>a, <2>1, WaitingTaken
  <2> QED BY <2>2 DEF Quiet
<1>5. CASE HandleClientAuth
  <2>1. lobbyIn # <<>> /\ lobbyIn' = Tail(lobbyIn) /\ Head(lobbyIn).type = "auth"
        /\ client' = client
    BY <1>5, ClientAuthFacts
  <2>2. 1 \in DOMAIN lobbyIn /\ lobbyIn[1].type = "auth" /\ Quiet
    BY <1>a, <2>1, WaitingTaken
  <2> QED BY <2>2 DEF Quiet
<1>6. CASE HandleTask
  <2>1. /\ lobbyIn # <<>> /\ lobbyIn' = Tail(lobbyIn) /\ Head(lobbyIn).type = "task"
        /\ client' = client
    BY <1>6, TaskFacts
  <2>2. WaitingInv /\ ToldInv /\ ReadInv /\ client.keys = data.keys
    BY <1>a, <2>1
  <2>3. Head(lobbyIn).keys = data.keys
    BY <2>1, WaitingTaken DEF TaskInv
  <2>4. CASE thrown' = thrown \cup {Head(lobbyIn).for} /\ UNCHANGED <<lobbyOut, msgCount>>
    <3>1. Told' = Told /\ Unread' = Unread
      BY <2>1, <2>4 DEF Told, Unread
    <3>2. WaitingInv'
      BY <2>1, <2>2, <2>4, <3>1, WaitingPassed
    <3>3. ToldInv' /\ ReadInv'
      BY <2>1, <2>2, <2>4, <3>1 DEF ToldInv, ReadInv
    <3> QED BY <3>2, <3>3
  <2>5. CASE \E m \in LobbyMessage :
               /\ lobbyOut' = Append(lobbyOut, m)
               /\ msgCount' = msgCount + 1 /\ thrown' = thrown
               /\ m.type \in {"reply", "message"}
               /\ m.count = msgCount + 1 /\ m.keys = data.keys
               /\ m.for = Head(lobbyIn).for
               /\ m.type = "reply" => m.task = Head(lobbyIn).request[2]
    <3>1. PICK m \in LobbyMessage :
               /\ lobbyOut' = Append(lobbyOut, m)
               /\ msgCount' = msgCount + 1 /\ thrown' = thrown
               /\ m.type \in {"reply", "message"}
               /\ m.count = msgCount + 1 /\ m.keys = data.keys
               /\ m.for = Head(lobbyIn).for
               /\ m.type = "reply" => m.task = Head(lobbyIn).request[2]
      BY <2>5
    <3>2. Told' = Told \cup {m}
      BY <2>1, <3>1, ToldAdded
    <3>3. WaitingInv'
      BY <2>1, <2>2, <3>1, <3>2, WaitingAnswered
    <3>4. ToldInv'
      BY <2>1, <2>2, <2>3, <3>1, <3>2, ToldAnswered
    <3>5. ReadInv'
      BY <2>1, <2>2, <3>1, ReadAnswered
    <3> QED BY <3>3, <3>4, <3>5
  <2>6. \/ thrown' = thrown \cup {Head(lobbyIn).for} /\ UNCHANGED <<lobbyOut, msgCount>>
        \/ \E m \in LobbyMessage :
             /\ lobbyOut' = Append(lobbyOut, m)
             /\ msgCount' = msgCount + 1 /\ thrown' = thrown
             /\ m.type \in {"reply", "message"}
             /\ m.count = msgCount + 1 /\ m.keys = data.keys
             /\ m.for = Head(lobbyIn).for
             /\ m.type = "reply" => m.task = Head(lobbyIn).request[2]
    BY <1>6, <2>3, TaskFacts
  <2> QED BY <2>4, <2>5, <2>6
<1>7. CASE AskTicket
  BY <1>7 DEF AskTicket, TypeOK
<1>8. CASE ReadTicket
  BY <1>8 DEF ReadTicket, TypeOK
<1>9. CASE SendHello
  BY <1>9 DEF SendHello, TypeOK
<1>10. CASE SkipZero
  BY <1>10 DEF SkipZero
<1>11. CASE ReadAck
  BY <1>11 DEF ReadAck, TypeOK
<1>12. CASE ReadDone
  <2>1. /\ client'.asked = client.asked /\ client'.answers = client.answers
        /\ client.step = "proving" /\ msgCount' = msgCount
    BY <1>12 DEF ReadDone, ReadsFromLobby, TypeOK
  <2>2. client'.asked = <<>> /\ client'.answers = <<>>
    BY <2>1 DEF SessionInv
  <2>3. lobbyIn' = <<>> /\ lobbyOut' = <<>> /\ msgCount' = 0
    BY <1>12, <2>1, DoneFacts
  <2>4. Unread' = {} /\ Told' = {}
    BY <2>2, <2>3 DEF Unread, Told
  <2>5. WaitingInv'
    BY <2>2, <2>3 DEF WaitingInv
  <2>6. ToldInv' /\ ReadInv'
    BY <2>2, <2>3, <2>4 DEF ToldInv, ReadInv
  <2> QED BY <2>5, <2>6
<1>13. CASE HandshakeFails
  BY <1>13 DEF HandshakeFails, TypeOK
<1>14. CASE ReadAnswer
  <2>1. /\ client.step = "in" /\ lobbyOut # <<>> /\ lobbyOut' = Tail(lobbyOut)
        /\ UNCHANGED <<lobbyIn, msgCount, thrown>>
        /\ client' = IF Head(lobbyOut).type = "zero" THEN client
                     ELSE [client EXCEPT !.answers = Append(@, Head(lobbyOut))]
    BY <1>14 DEF ReadAnswer, ReadsFromLobby
  <2>2. WaitingInv /\ ToldInv /\ ReadInv /\ Quiet
    BY <1>a, <2>1
  <2>3. Head(lobbyOut).type \in {"reply", "message", "zero"}
    BY <2>1, <2>2, OutTaken DEF Quiet
  <2>4. Told' = Told /\ ReadInv'
    <3>1. CASE Head(lobbyOut).type = "zero"
      BY <2>1, <2>2, <3>1, ReadZero
    <3>2. CASE Head(lobbyOut).type # "zero"
      BY <2>1, <2>2, <2>3, <3>2, ReadOne
    <3> QED BY <3>1, <3>2
  <2>5. client'.session = client.session /\ client'.asked = client.asked
        /\ client'.keys = client.keys
    BY <2>1 DEF TypeOK
  <2>6. WaitingInv'
    BY <2>1, <2>2, <2>4, <2>5 DEF WaitingInv, IsTask
  <2>7. ToldInv'
    BY <2>1, <2>2, <2>4, <2>5 DEF ToldInv
  <2> QED BY <2>4, <2>6, <2>7
<1>15. CASE Reconnect
  BY <1>15 DEF Reconnect, Fresh
<1>16. CASE KeepAlive
  <2>1. /\ client.step = "in" /\ lobbyIn' = Append(lobbyIn, [type |-> "zero"])
        /\ UNCHANGED <<lobbyOut, client, msgCount, thrown>>
    BY <1>16 DEF KeepAlive
  <2>2. WaitingInv /\ ToldInv /\ ReadInv
    BY <1>a, <2>1
  <2>3. Told' = Told /\ Unread' = Unread
    BY <2>1 DEF Told, Unread
  <2>4. /\ \A i \in DOMAIN lobbyIn : i \in DOMAIN lobbyIn' /\ lobbyIn'[i] = lobbyIn[i]
        /\ \A i \in DOMAIN lobbyIn' : lobbyIn'[i].type # "zero" =>
             i \in DOMAIN lobbyIn /\ lobbyIn'[i] = lobbyIn[i]
    BY <2>1, InAdded, NewPackets
  <2>5. /\ \A i \in DOMAIN lobbyIn' : IsTask(i)' => IsTask(i) /\ lobbyIn'[i] = lobbyIn[i]
        /\ \A i \in DOMAIN lobbyIn : IsTask(i) =>
             IsTask(i)' /\ lobbyIn'[i] = lobbyIn[i] /\ i \in DOMAIN lobbyIn'
    BY <2>4 DEF IsTask
  <2>6. \A i : IsTask(i) => i \in DOMAIN lobbyIn
    BY DEF IsTask
  <2>7. WaitingInv'
    <3>1. ASSUME NEW i \in DOMAIN lobbyIn', IsTask(i)'
          PROVE  /\ lobbyIn'[i].for[1] = client.session
                 /\ lobbyIn'[i].for[2] \in 1 .. Len(client.asked)
                 /\ lobbyIn'[i].request = client.asked[lobbyIn'[i].for[2]]
                 /\ \A m \in Told : m.for[2] < lobbyIn'[i].for[2]
      BY <2>2, <2>5, <2>6, <3>1 DEF WaitingInv
    <3>2. ASSUME NEW i \in DOMAIN lobbyIn', IsTask(i)',
                 NEW j \in DOMAIN lobbyIn', IsTask(j)', i < j
          PROVE  lobbyIn'[i].for[2] < lobbyIn'[j].for[2]
      BY <2>2, <2>5, <2>6, <3>2 DEF WaitingInv
    <3>3. ASSUME NEW k \in 1 .. Len(client.asked)
          PROVE  \/ <<client.session, k>> \in thrown
                 \/ \E m \in Told : m.for[2] = k
                 \/ \E i \in DOMAIN lobbyIn' : IsTask(i)' /\ lobbyIn'[i].for[2] = k
      <4>1. ASSUME NEW i \in DOMAIN lobbyIn, IsTask(i), lobbyIn[i].for[2] = k
            PROVE  \E j \in DOMAIN lobbyIn' : IsTask(j)' /\ lobbyIn'[j].for[2] = k
        BY <2>5, <4>1
      <4>2. \/ <<client.session, k>> \in thrown
            \/ \E m \in Told : m.for[2] = k
            \/ \E i \in DOMAIN lobbyIn : IsTask(i) /\ lobbyIn[i].for[2] = k
        BY <2>2, <3>3, Zenon DEF WaitingInv
      <4> QED BY <4>1, <4>2, Zenon
    <3> QED BY <2>1, <2>3, <3>1, <3>2, <3>3 DEF WaitingInv
  <2> QED BY <2>1, <2>2, <2>3, <2>7 DEF ToldInv, ReadInv
<1>17. ASSUME NEW r \in Requests, SendTask(r) PROVE WaitingInv' /\ ToldInv' /\ ReadInv'
  <2>1. client.step = "in"
    BY <1>17 DEF SendTask
  <2> QED BY <1>17, <1>a, <2>1, TaskAsked
<1>18. CASE UNCHANGED vars
  BY <1>18, <1>b DEF vars, queues, crypto
<1> QED BY <1>1, <1>2, <1>3, <1>4, <1>5, <1>6, <1>7, <1>8, <1>9, <1>10, <1>11, <1>12, <1>13,
           <1>14, <1>15, <1>16, <1>17, <1>18 DEF Next, Server, Advance

------------------------------------------------------------------------------
(* The theorems                                                            *)

(* IInv is inductive. *)
THEOREM Invariance == Spec => []IInv
<1>1. Init => IInv
  BY TypeInit, SessionInit, TranscriptInit, SoloInit, TaskInit, AnswerInit DEF IInv
<1>2. IInv /\ [Next]_vars => IInv'
  BY TypeStep, SessionStep, TranscriptStep, SoloStep, TaskStep, AnswerStep DEF IInv
<1> QED BY <1>1, <1>2, PTL DEF Spec

(* Every variable of the session keeps its type. *)
THEOREM TypeCorrect == Spec => []TypeOK
<1>1. IInv => TypeOK
  BY DEF IInv
<1> QED BY <1>1, Invariance, PTL

(* lobby_server::handle decrypts every task with the keys it was encrypted  *)
(* with, for any requests and however often the game connects again.       *)
THEOREM TasksAreDecrypted == Spec => []TasksDecrypt
<1>1. IInv => TasksDecrypt
  <2> SUFFICES ASSUME IInv PROVE TasksDecrypt
    OBVIOUS
  <2>1. ASSUME NEW i \in DOMAIN lobbyIn, lobbyIn[i].type = "task"
        PROVE  /\ lobbyIn[i].keys = data.keys
               /\ \A j \in 1 .. i - 1 : lobbyIn[j].type # "auth"
    <3>1. DOMAIN lobbyIn = 1 .. Len(lobbyIn) /\ Len(lobbyIn) \in Nat
      BY DomainOfSeq DEF IInv, TypeOK
    <3>2. \A j \in 1 .. i - 1 : j \in DOMAIN lobbyIn
      BY <3>1
    <3> QED BY <2>1, <3>2 DEF IInv, TaskInv
  <2>2. client.step = "in" => client.keys = data.keys
    BY DEF IInv, SoloInv, Handshaking, HelloQueued, HelloAnswered, AuthQueued, AuthAnswered,
           HasKeys
  <2> QED BY <2>1, <2>2 DEF TasksDecrypt
<1> QED BY <1>1, Invariance, PTL

(* packet_buffer is never emptied, so only the first handshake since the   *)
(* process started succeeds, and it never fails.                           *)
THEOREM OnlyTheFirstHandshake == Spec => []FirstHandshakeOnly
<1>1. IInv => FirstHandshakeOnly
  <2> SUFFICES ASSUME IInv PROVE FirstHandshakeOnly
    OBVIOUS
  <2>1. client.step = "in" => helloes = {client.session}
    BY DEF IInv, SoloInv
  <2>2. ASSUME client.step = "failed" PROVE Cardinality(helloes) > 1
    <3>1. client.session \in helloes /\ helloes # {client.session}
          /\ helloes \subseteq 1 .. MaxSessions
      BY <2>2 DEF IInv, SoloInv, SessionInv, TypeOK
    <3>2. IsFiniteSet(helloes)
      <4>1. IsFiniteSet(1 .. MaxSessions)
        BY FS_Interval, LobbyAssumption DEF LobbyAssumption
      <4> QED BY <3>1, <4>1, FS_Subset
    <3>3. Cardinality(helloes) \in Nat
      BY <3>2, FS_CardinalityType
    <3>4. Cardinality(helloes) # 0
      BY <3>1, <3>2, FS_EmptySet
    <3>5. Cardinality(helloes) # 1
      BY <3>1, <3>2, FS_Singleton
    <3> QED BY <3>3, <3>4, <3>5
  <2> QED BY <2>1, <2>2 DEF FirstHandshakeOnly
<1> QED BY <1>1, Invariance, PTL

(* Replies and messages are told apart: each carries the number that the    *)
(* game expects and the id of its own task, in the order of asking.        *)
THEOREM AnswersAreMatched == Spec => []AnswersMatch
<1>1. IInv => AnswersMatch
  <2> SUFFICES ASSUME IInv, client.step = "in"
               PROVE  /\ \A m \in Told :
                           /\ m.for[1] = client.session
                           /\ m.keys = client.keys
                           /\ m.type = "reply" => m.task = client.asked[m.for[2]][2]
                           /\ \A c \in 1 .. m.count : \E l \in Told : l.count = c
                           /\ \A l \in Told : l.count < m.count => l.for[2] < m.for[2]
                           /\ \A k \in 1 .. m.for[2] - 1 :
                                \/ <<client.session, k>> \in thrown
                                \/ \E l \in Told : l.count < m.count /\ l.for[2] = k
                      /\ \A i \in DOMAIN client.answers : client.answers[i].count = i
                      /\ \A i \in Unread :
                           /\ Len(client.answers) < lobbyOut[i].count
                           /\ \A j \in Unread : i < j => lobbyOut[i].count < lobbyOut[j].count
    BY DEF AnswersMatch
  <2>1. TypeOK /\ WaitingInv /\ ToldInv /\ ReadInv
    BY DEF IInv, AnswerInv
  <2>2. msgCount \in Nat /\ Len(client.asked) \in Nat
    BY <2>1, DomainOfSeq DEF TypeOK
  <2>3. ASSUME NEW m \in Told
        PROVE  /\ m.for[1] = client.session
               /\ m.keys = client.keys
               /\ m.type = "reply" => m.task = client.asked[m.for[2]][2]
               /\ \A c \in 1 .. m.count : \E l \in Told : l.count = c
               /\ \A l \in Told : l.count < m.count => l.for[2] < m.for[2]
               /\ \A k \in 1 .. m.for[2] - 1 :
                    \/ <<client.session, k>> \in thrown
                    \/ \E l \in Told : l.count < m.count /\ l.for[2] = k
    <3>1. /\ m.for[1] = client.session /\ m.for[2] \in 1 .. Len(client.asked)
          /\ m.keys = client.keys
          /\ m.type = "reply" => m.task = client.asked[m.for[2]][2]
          /\ m.count \in 1 .. msgCount
          /\ \A l \in Told : l.count < m.count <=> l.for[2] < m.for[2]
      BY <2>1 DEF ToldInv
    <3>2. \A c \in 1 .. m.count : \E l \in Told : l.count = c
      <4>1. \A c \in 1 .. m.count : c \in 1 .. msgCount
        BY <2>2, <3>1
      <4> QED BY <2>1, <4>1 DEF ToldInv
    <3>3. ASSUME NEW k \in 1 .. m.for[2] - 1
          PROVE  \/ <<client.session, k>> \in thrown
                 \/ \E l \in Told : l.count < m.count /\ l.for[2] = k
      <4>1. k \in 1 .. Len(client.asked) /\ k < m.for[2]
        BY <2>2, <3>1
      <4>2. ~\E i \in DOMAIN lobbyIn : IsTask(i) /\ lobbyIn[i].for[2] = k
        <5> SUFFICES ASSUME NEW i \in DOMAIN lobbyIn, IsTask(i), lobbyIn[i].for[2] = k
                     PROVE  FALSE
          OBVIOUS
        <5>1. m.for[2] < k
          BY <2>1 DEF WaitingInv
        <5> QED BY <2>2, <3>1, <4>1, <5>1
      <4> QED BY <2>1, <3>1, <4>1, <4>2 DEF WaitingInv
    <3> QED BY <3>1, <3>2, <3>3
  <2> QED BY <2>1, <2>3 DEF ReadInv
<1> QED BY <1>1, Invariance, PTL
==============================================================================
