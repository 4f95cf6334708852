----------------------------- MODULE DemonwareUdp -----------------------------
(***************************************************************************)
(* demonware/servers/udp_server.cpp and stun_server.cpp, reached through   *)
(* sendto_stub and recvfrom_stub of component/demonware.cpp.  Every server *)
(* has a queue of packets in and one queue of packets out per socket;      *)
(* recvfrom visits all servers in turn and keeps the last packet it finds. *)
(* Packets are numbered in the order of sendto; an answer carries the      *)
(* number of its question.  The thread that calls frame is the one of      *)
(* DemonwareTcp; here it simply runs.                                      *)
(***************************************************************************)
EXTENDS Integers, SequencesExt

CONSTANTS
    Threads,    \* threads of the game
    Sockets,    \* values of SOCKET, non-blocking
    Order,      \* the servers, in the order of server_registry::for_each
    MaxPackets, \* bound: calls of sendto
    None

Servers == {Order[i] : i \in DOMAIN Order}
Packets == 1..MaxPackets

ASSUME UdpAssumption ==
    /\ Order \in Seq(Servers) /\ Order # <<>>
    /\ \A i, j \in DOMAIN Order : Order[i] = Order[j] => i = j
    /\ MaxPackets \in Nat
    /\ None \notin Packets

(* The first byte of a packet makes it a discovery (types 30 and 20), which *)
(* is answered, or anything else, which is not.                            *)
Types == {"discovery", "other"}

VARIABLES
    asked,    \* packets sent so far
    packet,   \* [Packets -> [srv, s, type]] or None: what each packet was
    inQueue,  \* [Servers -> Seq(Packets)]: in_queue_
    outQueue, \* [Servers -> [Sockets -> Seq(Packets)]]: out_queue_
    turn,     \* the server frame is at
    popped,   \* the packet it is handling, or None
    call,     \* [Threads -> Calls]: recvfrom in progress
    received, \* history: [Sockets -> Seq(Packets)], what recvfrom returned
    lost      \* history: packets taken out of a queue and not returned

vars == <<asked, packet, inQueue, outQueue, turn, popped, call, received, lost>>

Idle  == [s |-> None, at |-> 0, pending |-> FALSE, result |-> None]
Calls == [s : Sockets, at : 1..Len(Order) + 1, pending : BOOLEAN,
          result : Packets \cup {None}]
         \cup {Idle}

Init ==
    /\ asked = 0
    /\ packet = [k \in Packets |-> None]
    /\ inQueue = [srv \in Servers |-> <<>>]
    /\ outQueue = [srv \in Servers |-> [s \in Sockets |-> <<>>]]
    /\ turn = 1
    /\ popped = None
    /\ call = [th \in Threads |-> Idle]
    /\ received = [s \in Sockets |-> <<>>]
    /\ lost = {}

-----------------------------------------------------------------------------
(* sendto_stub: handle_input of the server with that address. *)
SendTo(th, s, srv, type) ==
    /\ call[th] = Idle
    /\ asked < MaxPackets
    /\ asked' = asked + 1
    /\ packet' = [packet EXCEPT ![asked + 1] = [srv |-> srv, s |-> s, type |-> type]]
    /\ inQueue' = [inQueue EXCEPT ![srv] = Append(@, asked + 1)]
    /\ UNCHANGED <<outQueue, turn, popped, call, received, lost>>

-----------------------------------------------------------------------------
(* udp_server::frame: pop and handle until the queue is empty, then the    *)
(* next server; after the last one, the next round begins.                 *)

PopPacket ==
    /\ popped = None
    /\ inQueue[Order[turn]] # <<>>
    /\ popped' = Head(inQueue[Order[turn]])
    /\ inQueue' = [inQueue EXCEPT ![Order[turn]] = Tail(@)]
    /\ UNCHANGED <<asked, packet, outQueue, turn, call, received, lost>>

(* Mutant: a round leaves the last server out. *)
After_Early(i) == IF i + 1 >= Len(Order) THEN 1 ELSE i + 1

After(i) == IF i = Len(Order) THEN 1 ELSE i + 1

NextServer ==
    /\ popped = None
    /\ inQueue[Order[turn]] = <<>>
    /\ turn' = After(turn)
    /\ UNCHANGED <<asked, packet, inQueue, outQueue, popped, call, received, lost>>

(* stun_server::handle answers by ip_discovery or by nat_discovery. *)
Answers(k) == packet[k].type = "discovery"

(* udp_server::send files the answer under the socket of the endpoint. *)
ReplyTo(k) == packet[k].s

HandlePacket ==
    /\ popped # None
    /\ popped' = None
    /\ outQueue' = IF Answers(popped)
                   THEN [outQueue EXCEPT ![Order[turn]][ReplyTo(popped)] = Append(@, popped)]
                   ELSE outQueue
    /\ UNCHANGED <<asked, packet, inQueue, turn, call, received, lost>>

-----------------------------------------------------------------------------
(* recvfrom_stub on a non-blocking socket: for each server pending_data,   *)
(* then handle_output, each under the mutex; result is assigned every time.*)

RecvFrom(th, s) ==
    /\ call[th] = Idle
    /\ call' = [call EXCEPT ![th] = [s |-> s, at |-> 1, pending |-> FALSE, result |-> None]]
    /\ UNCHANGED <<asked, packet, inQueue, outQueue, turn, popped, received, lost>>

Visiting(th) == call[th] # Idle /\ call[th].at \in DOMAIN Order

(* Mutant: handle_output is called whether or not something is pending. *)
HasPending_Always(srv, s) == TRUE

(* udp_server::pending_data *)
HasPending(srv, s) == outQueue[srv][s] # <<>>

PendingData(th) ==
    /\ Visiting(th)
    /\ ~call[th].pending
    /\ call' = IF HasPending(Order[call[th].at], call[th].s)
               THEN [call EXCEPT ![th].pending = TRUE]
               ELSE [call EXCEPT ![th].at = @ + 1]
    /\ UNCHANGED <<asked, packet, inQueue, outQueue, turn, popped, received, lost>>

(* Mutant: the newest answer is handed out first. *)
Oldest_Newest(q) == Len(q)

(* Where queue.front() is. *)
Oldest(q) == 1

(* queue.pop() *)
Popped(q) == RemoveAt(q, Oldest(q))

(* What the call had found so far is overwritten by the next server's      *)
(* packet, or by 0 when another thread took that one after pending_data.   *)
HandleOutput(th) ==
    /\ Visiting(th)
    /\ call[th].pending
    /\ LET srv == Order[call[th].at]
           s   == call[th].s
           q   == outQueue[srv][s]
           new == IF q = <<>> THEN None ELSE q[Oldest(q)]
       IN /\ outQueue' = IF q = <<>> THEN outQueue
                         ELSE [outQueue EXCEPT ![srv][s] = Popped(@)]
          /\ call' = [call EXCEPT ![th] = [s |-> s, at |-> @.at + 1, pending |-> FALSE,
                                           result |-> new]]
    /\ lost' = lost \cup ({call[th].result} \ {None})
    /\ UNCHANGED <<asked, packet, inQueue, turn, popped, received>>

(* Without a result the operating system's recvfrom is called: nothing there. *)
RecvReturns(th) ==
    /\ call[th] # Idle
    /\ call[th].at \notin DOMAIN Order
    /\ received' = IF call[th].result = None THEN received
                   ELSE [received EXCEPT ![call[th].s] = Append(@, call[th].result)]
    /\ call' = [call EXCEPT ![th] = Idle]
    /\ UNCHANGED <<asked, packet, inQueue, outQueue, turn, popped, lost>>

-----------------------------------------------------------------------------
Next ==
    \/ \E th \in Threads, s \in Sockets, srv \in Servers, type \in Types :
          SendTo(th, s, srv, type)
    \/ PopPacket
    \/ NextServer
    \/ HandlePacket
    \/ \E th \in Threads, s \in Sockets : RecvFrom(th, s)
    \/ \E th \in Threads : PendingData(th)
    \/ \E th \in Threads : HandleOutput(th)
    \/ \E th \in Threads : RecvReturns(th)

Spec == Init /\ [][Next]_vars

(* The thread of the servers runs; nothing obliges the game to call. *)
FairSpec == Spec /\ WF_vars(PopPacket) /\ WF_vars(NextServer) /\ WF_vars(HandlePacket)

-----------------------------------------------------------------------------
TypeOK ==
    /\ asked \in 0..MaxPackets
    /\ packet \in [Packets -> [srv : Servers, s : Sockets, type : Types] \cup {None}]
    /\ inQueue \in [Servers -> Seq(Packets)]
    /\ outQueue \in [Servers -> [Sockets -> Seq(Packets)]]
    /\ turn \in DOMAIN Order
    /\ popped \in Packets \cup {None}
    /\ call \in [Threads -> Calls]
    /\ received \in [Sockets -> Seq(Packets)]
    /\ lost \subseteq Packets

Asked      == 1..asked
Waiting(k) == k \in ToSet(inQueue[packet[k].srv]) \/ popped = k

Indices(q, k) == {i \in DOMAIN q : q[i] = k}

(* How often the answer to k exists: in a queue out, found by a recvfrom   *)
(* that has not returned, returned, or overwritten.                        *)
InQueues(k) == UNION {{<<p, i>> : i \in Indices(outQueue[p[1]][p[2]], k)} :
                         p \in Servers \X Sockets}
InCalls(k)  == {th \in Threads : call[th].result = k}
Returned(k) == UNION {{<<s, i>> : i \in Indices(received[s], k)} : s \in Sockets}
Copies(k)   == Cardinality(InQueues(k)) + Cardinality(InCalls(k)) + Cardinality(Returned(k))
               + (IF k \in lost THEN 1 ELSE 0)

(* Every discovery that has been handled has one answer, wherever it is by *)
(* now, and nothing else is answered: stun_server::handle, send and the    *)
(* two locked accesses of recvfrom neither duplicate nor forget.           *)
EveryAnswerOnce ==
    \A k \in Asked :
        Copies(k) = IF packet[k].type = "discovery" /\ ~Waiting(k) THEN 1 ELSE 0

(* Whoever reads, the answers of one server to one socket are taken in the *)
(* order of the questions: an older one is not left behind.                *)
SameLine(j, k) ==
    /\ packet[j].srv = packet[k].srv
    /\ packet[j].s = packet[k].s
    /\ packet[j].type = "discovery" /\ packet[k].type = "discovery"
Untaken(k) == Waiting(k) \/ k \in ToSet(outQueue[packet[k].srv][packet[k].s])

OldestFirst ==
    \A j, k \in Asked : j < k /\ SameLine(j, k) /\ Untaken(j) => Untaken(k)

(* recvfrom forgets an answer only in favour of one that a later server    *)
(* gave to the same socket: a game that asks one server per socket loses   *)
(* nothing, however its threads and the server's interleave.               *)
LossNeedsTwoServers ==
    \A k \in lost : \E j \in Asked, m, n \in DOMAIN Order :
        /\ packet[j].s = packet[k].s
        /\ packet[j].type = "discovery" /\ ~Waiting(j)
        /\ Order[m] = packet[k].srv
        /\ Order[n] = packet[j].srv
        /\ m < n

(* Each discovery has its one answer, answers are taken in order, and none *)
(* is lost to a socket that asks one server: what a game can rely on.      *)
AnswersOnceInOrder == EveryAnswerOnce /\ OldestFirst /\ LossNeedsTwoServers

(* Every discovery is answered at some time, whatever else is asked. *)
EveryDiscoveryAnswered ==
    \A k \in Packets :
        k \in Asked /\ packet[k].type = "discovery" ~> k \in Asked /\ ~Waiting(k)
==============================================================================
