----------------------------- MODULE DemonwareTcp -----------------------------
(***************************************************************************)
(* component/demonware.cpp and demonware/servers/tcp_server.cpp: the game's *)
(* calls of connect, send, recv, select and closesocket are diverted to    *)
(* servers that live in the process.  A socket map leads from a handle to  *)
(* its server; a server has a queue of packets in and a queue of bytes     *)
(* out; one thread of the component serves all servers in turn.            *)
(*                                                                         *)
(* Each mutex-protected access is a step of its own, and so is each of the *)
(* unlocked reads (pending_data).  The content of packets is abstracted: a *)
(* packet is answered by one call of send with some number of bytes, none  *)
(* included, and packets and bytes of a server are numbered from 1.        *)
(***************************************************************************)
EXTENDS Integers, SequencesExt

CONSTANTS
    Threads,     \* threads of the game
    Handles,     \* values of SOCKET
    FrameOrder,  \* the servers, in the order server_registry::frame visits them
    ReplyLens,   \* [Servers -> SUBSET Nat]: the lengths its answers can have
    Lengths,     \* buffer lengths given to recv
    MaxAsked,    \* bound: requests to all servers together
    None

Servers == {FrameOrder[i] : i \in DOMAIN FrameOrder}

ASSUME DemonwareAssumption ==
    /\ FrameOrder \in Seq(Servers)
    /\ \A i, j \in DOMAIN FrameOrder : FrameOrder[i] = FrameOrder[j] => i = j
    /\ ReplyLens \in [Servers -> SUBSET Nat]
    /\ Lengths \subseteq Nat \ {0}
    /\ MaxAsked \in Nat
    /\ None \notin Servers \cup BOOLEAN \cup Nat

VARIABLES
    open,        \* the handles the OS has given out
    socketMap,   \* [Handles -> Servers or None]: socket_map
    blockingMap, \* [Handles -> BOOLEAN or None]: blocking_sockets
    peer,        \* history: the server this incarnation of a handle connected to
    mode,        \* history: the mode this incarnation of a handle was given
    inQueue,     \* [Servers -> Seq(Nat)]: in_queue_, packets by number
    outQueue,    \* [Servers -> Seq(Nat)]: out_queue_, bytes by number
    asked,       \* history: packets accepted by each server
    answered,    \* history: packets each server has handled
    sent,        \* history: bytes sent by each server
    read,        \* history: bytes of each server received by the game
    call,        \* [Threads -> Calls]: the hooked call each thread is inside
    server,      \* the state of server_thread
    turn,        \* the server it is at, an index of FrameOrder
    popped,      \* the packet it is handling, or None
    hooked,      \* the imports are diverted
    exitServer,  \* exit_server
    joined,      \* the join of pre_destroy has returned
    overwritten  \* history: server_main cleared a request to exit

maps   == <<open, socketMap, blockingMap, peer, mode>>
queues == <<inQueue, outQueue, asked, answered, sent, read>>
thread == <<server, turn, popped>>
life   == <<hooked, exitServer, joined, overwritten>>
vars   == <<maps, queues, call, thread, life>>

-----------------------------------------------------------------------------
(* Calls in progress. *)

Idle == [op |-> "none"]

Calls ==
    {Idle, [op |-> "destroy"]}
    \cup [op : {"send"}, srv : Servers]
    \cup [op : {"recv"}, srv : Servers, len : Lengths, checked : BOOLEAN, raced : BOOLEAN]
    \cup [op : {"close"}, s : Handles, step : 1..3]
    \cup [op : {"select"}, ready : SUBSET Servers, drained : SUBSET Servers]

(* Mutant: the operating system's close comes first. *)
CloseOrder_OsFirst == <<"os", "blocking", "link">>

(* closesocket_stub: remove_blocking_socket, socket_unlink, closesocket. *)
CloseOrder == <<"blocking", "link", "os">>

(* A thread is on its way to the operating system's close of s. *)
Closing(s) ==
    \E th \in Threads :
        /\ call[th].op = "close"
        /\ call[th].s = s
        /\ \E k \in call[th].step..3 : CloseOrder[k] = "os"

(* The game makes one call at a time on a thread, and uses a handle it has *)
(* opened and that no thread is closing.                                   *)
CanCall(th)     == hooked /\ call[th] = Idle
Usable(s)       == s \in open /\ ~Closing(s)
Enter(th, c)    == call' = [call EXCEPT ![th] = c]
Leave(th)       == call' = [call EXCEPT ![th] = Idle]
Destroying      == \E th \in Threads : call[th].op = "destroy"

(* A call c that looked at the queue of srv has been overtaken when another *)
(* thread takes bytes out of it.                                           *)
Overtaken(c, srv) ==
    CASE c.op = "recv"   -> [c EXCEPT !.raced = @ \/ (c.srv = srv /\ c.checked)]
      [] c.op = "select" -> [c EXCEPT !.drained = @ \cup {srv}]
      [] OTHER           -> c

Init ==
    /\ open = {}
    /\ socketMap = [s \in Handles |-> None]
    /\ blockingMap = [s \in Handles |-> None]
    /\ peer = [s \in Handles |-> None]
    /\ mode = [s \in Handles |-> None]
    /\ inQueue = [srv \in Servers |-> <<>>]
    /\ outQueue = [srv \in Servers |-> <<>>]
    /\ asked = [srv \in Servers |-> 0]
    /\ answered = [srv \in Servers |-> 0]
    /\ sent = [srv \in Servers |-> 0]
    /\ read = [srv \in Servers |-> <<>>]
    /\ call = [th \in Threads |-> Idle]
    /\ server = "none"
    /\ turn = 1
    /\ popped = None
    /\ hooked = FALSE
    /\ exitServer = FALSE
    /\ joined = FALSE
    /\ overwritten = FALSE

-----------------------------------------------------------------------------
(* pre_start diverts the imports, post_unpack starts the thread. *)

PreStart ==
    /\ ~hooked
    /\ server = "none"
    /\ ~Destroying
    /\ hooked' = TRUE
    /\ UNCHANGED <<maps, queues, call, thread, exitServer, joined, overwritten>>

PostUnpack ==
    /\ hooked
    /\ server = "none"
    /\ ~Destroying
    /\ server' = "created"
    /\ UNCHANGED <<maps, queues, call, turn, popped, life>>

-----------------------------------------------------------------------------
(* Handles.  socket() is the operating system's: any handle not in use.    *)

Socket(s) ==
    /\ hooked
    /\ s \notin open
    /\ open' = open \cup {s}
    /\ UNCHANGED <<socketMap, blockingMap, peer, mode, queues, call, thread, life>>

(* connect_stub: socket_link under the mutex of the map. *)
Connect(th, s, srv) ==
    /\ CanCall(th)
    /\ Usable(s)
    /\ socketMap' = [socketMap EXCEPT ![s] = srv]
    /\ peer' = [peer EXCEPT ![s] = srv]
    /\ UNCHANGED <<open, blockingMap, mode, queues, call, thread, life>>

(* ioctlsocket_stub with FIONBIO: add_blocking_socket. *)
IoctlSocket(th, s, block) ==
    /\ CanCall(th)
    /\ Usable(s)
    /\ blockingMap' = [blockingMap EXCEPT ![s] = block]
    /\ mode' = [mode EXCEPT ![s] = block]
    /\ UNCHANGED <<open, socketMap, peer, queues, call, thread, life>>

CloseSocket(th, s) ==
    /\ CanCall(th)
    /\ Usable(s)
    /\ Enter(th, [op |-> "close", s |-> s, step |-> 1])
    /\ UNCHANGED <<maps, queues, thread, life>>

LastStep == Len(CloseOrder)

CloseStep(th) ==
    /\ call[th].op = "close"
    /\ LET s == call[th].s
           what == CloseOrder[call[th].step]
       IN /\ blockingMap' = IF what = "blocking" THEN [blockingMap EXCEPT ![s] = None]
                            ELSE blockingMap
          /\ socketMap' = IF what = "link" THEN [socketMap EXCEPT ![s] = None] ELSE socketMap
          /\ open' = IF what = "os" THEN open \ {s} ELSE open
          /\ peer' = IF what = "os" THEN [peer EXCEPT ![s] = None] ELSE peer
          /\ mode' = IF what = "os" THEN [mode EXCEPT ![s] = None] ELSE mode
    /\ IF call[th].step = LastStep THEN Leave(th)
       ELSE call' = [call EXCEPT ![th].step = @ + 1]
    /\ UNCHANGED <<queues, thread, life>>

-----------------------------------------------------------------------------
(* send_stub: find_server under one mutex, handle_input under another.     *)

SendFind(th, s) ==
    /\ CanCall(th)
    /\ Usable(s)
    /\ socketMap[s] # None
    /\ Enter(th, [op |-> "send", srv |-> socketMap[s]])
    /\ UNCHANGED <<maps, queues, thread, life>>

(* Bound: the requests to all servers together. *)
BelowBound == FoldFunction(+, 0, asked) < MaxAsked

HandleInput(th) ==
    /\ call[th].op = "send"
    /\ BelowBound
    /\ LET srv == call[th].srv
       IN /\ inQueue' = [inQueue EXCEPT ![srv] = Append(@, asked[srv] + 1)]
          /\ asked' = [asked EXCEPT ![srv] = @ + 1]
    /\ Leave(th)
    /\ UNCHANGED <<maps, outQueue, answered, sent, read, thread, life>>

-----------------------------------------------------------------------------
(* recv_stub: find_server, then the unlocked pending_data, then            *)
(* handle_output, whose own unlocked test is subsumed by the locked loop.  *)

RecvFind(th, s, len) ==
    /\ CanCall(th)
    /\ Usable(s)
    /\ socketMap[s] # None
    /\ Enter(th, [op |-> "recv", srv |-> socketMap[s], len |-> len,
                  checked |-> FALSE, raced |-> FALSE])
    /\ UNCHANGED <<maps, queues, thread, life>>

(* Mutant: recv does not ask whether anything is pending. *)
PendingData_Always(srv) == TRUE

(* tcp_server::pending_data *)
PendingData(srv) == outQueue[srv] # <<>>

(* Nothing pending: WSAEWOULDBLOCK. *)
RecvCheck(th) ==
    /\ call[th].op = "recv"
    /\ ~call[th].checked
    /\ IF PendingData(call[th].srv) THEN call' = [call EXCEPT ![th].checked = TRUE]
       ELSE Leave(th)
    /\ UNCHANGED <<maps, queues, thread, life>>

Smaller(m, n) == IF m < n THEN m ELSE n

(* Mutant: the bytes are copied and stay in the queue. *)
Remaining_Keep(q, n) == q

(* The loop of handle_output over n bytes: what it copies and what it leaves. *)
Copied(q, n)    == SubSeq(q, 1, n)
Remaining(q, n) == SubSeq(q, n + 1, Len(q))

HandleOutput(th) ==
    /\ call[th].op = "recv"
    /\ call[th].checked
    /\ LET srv == call[th].srv
           n == Smaller(call[th].len, Len(outQueue[srv]))
       IN /\ read' = [read EXCEPT ![srv] = @ \o Copied(outQueue[srv], n)]
          /\ outQueue' = [outQueue EXCEPT ![srv] = Remaining(@, n)]
          /\ call' = [u \in Threads |-> IF u = th THEN Idle
                                       ELSE IF n > 0 THEN Overtaken(call[u], srv)
                                       ELSE call[u]]
    /\ UNCHANGED <<maps, inQueue, asked, answered, sent, thread, life>>

-----------------------------------------------------------------------------
(* select_stub: under the mutex of the map, the linked sockets of the read *)
(* set whose server has bytes pending (by the server they belong to).      *)
Readable(rd) == {socketMap[s] : s \in {t \in rd : /\ socketMap[t] # None
                                                  /\ PendingData(socketMap[t])}}

SelectSnapshot(th, rd) ==
    /\ CanCall(th)
    /\ ~exitServer
    /\ \A s \in rd : Usable(s)
    /\ Enter(th, [op |-> "select", ready |-> Readable(rd), drained |-> {}])
    /\ UNCHANGED <<maps, queues, thread, life>>

(* The operating system's select has returned: the ready sockets are put   *)
(* back into the set.                                                      *)
SelectReturns(th) ==
    /\ call[th].op = "select"
    /\ Leave(th)
    /\ UNCHANGED <<maps, queues, thread, life>>

-----------------------------------------------------------------------------
(* server_main and server_registry<tcp_server>::frame. *)

(* exit_server = false, the first statement of the thread: a request that  *)
(* is already there is overwritten.                                        *)
InitialExit == FALSE

ResetExit ==
    /\ server = "created"
    /\ overwritten' = exitServer
    /\ exitServer' = InitialExit
    /\ server' = "test"
    /\ UNCHANGED <<maps, queues, call, turn, popped, hooked, joined>>

(* Mutant: the loop does not look at the flag. *)
ExitSeen_Never == FALSE

(* while (!exit_server) *)
ExitSeen == exitServer

TestExit ==
    /\ server = "test"
    /\ server' = IF ExitSeen THEN "exited" ELSE "frame"
    /\ turn' = 1
    /\ UNCHANGED <<maps, queues, call, popped, life>>

(* Mutant: the packets behind the first are thrown away. *)
Popped_Clear(q) == <<>>

Popped(q) == Tail(q)

(* tcp_server::frame pops a packet and handles it, until the queue is empty. *)
TakePacket ==
    /\ server = "frame"
    /\ turn \in DOMAIN FrameOrder
    /\ LET srv == FrameOrder[turn]
       IN /\ inQueue[srv] # <<>>
          /\ inQueue' = [inQueue EXCEPT ![srv] = Popped(@)]
          /\ popped' = Head(inQueue[srv])
    /\ server' = "handle"
    /\ UNCHANGED <<maps, outQueue, asked, answered, sent, read, call, turn, life>>

(* Mutant: a round ends with the first server that has nothing to do. *)
AfterServer_Stop(i) == Len(FrameOrder) + 1

AfterServer(i) == i + 1

LeaveServer ==
    /\ server = "frame"
    /\ turn \in DOMAIN FrameOrder
    /\ inQueue[FrameOrder[turn]] = <<>>
    /\ turn' = AfterServer(turn)
    /\ UNCHANGED <<maps, queues, call, server, popped, life>>

(* After the last server come the UDP servers and the sleep of 50 ms. *)
EndRound ==
    /\ server = "frame"
    /\ turn \notin DOMAIN FrameOrder
    /\ server' = "test"
    /\ UNCHANGED <<maps, queues, call, turn, popped, life>>

(* handle answers the packet: tcp_server::send pushes the bytes under the  *)
(* mutex of out_queue_.  Then frame looks for the server's next packet.    *)
Handle ==
    /\ server = "handle"
    /\ LET srv == FrameOrder[turn]
       IN \E n \in ReplyLens[srv] :
            /\ outQueue' = [outQueue EXCEPT ![srv] = @ \o [i \in 1..n |-> sent[srv] + i]]
            /\ sent' = [sent EXCEPT ![srv] = @ + n]
            /\ answered' = [answered EXCEPT ![srv] = @ + 1]
    /\ popped' = None
    /\ server' = "frame"
    /\ UNCHANGED <<maps, inQueue, asked, read, call, turn, life>>

-----------------------------------------------------------------------------
(* pre_destroy sets the flag and joins; then it restores the imports.      *)

PreDestroy(th) ==
    /\ call[th] = Idle
    /\ ~Destroying
    /\ exitServer' = TRUE
    /\ Enter(th, [op |-> "destroy"])
    /\ UNCHANGED <<maps, queues, thread, hooked, joined, overwritten>>

(* server_thread.joinable() is false or the thread has returned. *)
ThreadStopped == server \in {"none", "exited"}

JoinReturns ==
    /\ Destroying
    /\ ~joined
    /\ ThreadStopped
    /\ joined' = TRUE
    /\ hooked' = FALSE
    /\ UNCHANGED <<maps, queues, call, thread, exitServer, overwritten>>

-----------------------------------------------------------------------------
Next ==
    \/ PreStart
    \/ PostUnpack
    \/ \E s \in Handles : Socket(s)
    \/ \E th \in Threads, s \in Handles, srv \in Servers : Connect(th, s, srv)
    \/ \E th \in Threads, s \in Handles, block \in BOOLEAN : IoctlSocket(th, s, block)
    \/ \E th \in Threads, s \in Handles : CloseSocket(th, s)
    \/ \E th \in Threads : CloseStep(th)
    \/ \E th \in Threads, s \in Handles : SendFind(th, s)
    \/ \E th \in Threads : HandleInput(th)
    \/ \E th \in Threads, s \in Handles, len \in Lengths : RecvFind(th, s, len)
    \/ \E th \in Threads : RecvCheck(th)
    \/ \E th \in Threads : HandleOutput(th)
    \/ \E th \in Threads, rd \in SUBSET Handles : SelectSnapshot(th, rd)
    \/ \E th \in Threads : SelectReturns(th)
    \/ ResetExit
    \/ TestExit
    \/ TakePacket
    \/ LeaveServer
    \/ EndRound
    \/ Handle
    \/ \E th \in Threads : PreDestroy(th)
    \/ JoinReturns

Spec == Init /\ [][Next]_vars

(* The component is started and its thread is scheduled; a mutex is held   *)
(* only for the length of an access, so the join is the only call that     *)
(* waits for somebody else.  Nothing obliges the game to make a call.      *)
Fairness ==
    /\ WF_vars(PreStart)
    /\ WF_vars(PostUnpack)
    /\ WF_vars(ResetExit)
    /\ WF_vars(TestExit)
    /\ WF_vars(TakePacket)
    /\ WF_vars(LeaveServer)
    /\ WF_vars(EndRound)
    /\ WF_vars(Handle)
    /\ WF_vars(JoinReturns)

FairSpec == Spec /\ Fairness

-----------------------------------------------------------------------------
TypeOK ==
    /\ open \subseteq Handles
    /\ socketMap \in [Handles -> Servers \cup {None}]
    /\ blockingMap \in [Handles -> BOOLEAN \cup {None}]
    /\ peer \in [Handles -> Servers \cup {None}]
    /\ mode \in [Handles -> BOOLEAN \cup {None}]
    /\ inQueue \in [Servers -> Seq(Nat)]
    /\ outQueue \in [Servers -> Seq(Nat)]
    /\ asked \in [Servers -> Nat]
    /\ answered \in [Servers -> Nat]
    /\ sent \in [Servers -> Nat]
    /\ read \in [Servers -> Seq(Nat)]
    /\ call \in [Threads -> Calls]
    /\ server \in {"none", "created", "test", "frame", "handle", "exited"}
    /\ turn \in 1..Len(FrameOrder) + 1
    /\ popped \in Nat \cup {None}
    /\ hooked \in BOOLEAN
    /\ exitServer \in BOOLEAN
    /\ joined \in BOOLEAN
    /\ overwritten \in BOOLEAN

(* The maps of demonware.cpp speak of the handle's present incarnation: the *)
(* operating system may give a closed handle to the next socket() of any    *)
(* thread, and that socket must inherit neither the link nor the mode of    *)
(* the one before (closesocket_stub forgets both before it closes).         *)
MapsAreFresh ==
    \A s \in Handles :
        IF s \in open
        THEN Closing(s) \/ (socketMap[s] = peer[s] /\ blockingMap[s] = mode[s])
        ELSE socketMap[s] = None /\ blockingMap[s] = None

(* What the game has read of a server and what still waits are the bytes   *)
(* the server sent, in order, none twice and none missing, whatever the    *)
(* buffer lengths and however many threads read.                           *)
BytesInOrder ==
    \A srv \in Servers : read[srv] \o outQueue[srv] = [i \in 1..sent[srv] |-> i]

(* A server deals with its packets in the order the game sent them, each    *)
(* once: those that wait, and before them the one being handled, are the    *)
(* ones behind the last that was answered.                                  *)
InHand(srv) == IF server = "handle" /\ FrameOrder[turn] = srv THEN <<popped>> ELSE <<>>

EveryPacketOnce ==
    \A srv \in Servers :
        InHand(srv) \o inQueue[srv]
            = [i \in 1..asked[srv] - answered[srv] |-> answered[srv] + i]

(* What an unlocked test told a thread still holds when the thread acts on  *)
(* it, unless another thread has read from that server meanwhile: a recv    *)
(* that found data pending does not return 0, which the game takes for the  *)
(* end of the connection, and the servers that select found readable still  *)
(* have bytes when the operating system's select returns.                   *)
ReadinessHolds ==
    \A th \in Threads :
        /\ call[th].op = "recv" /\ call[th].checked /\ ~call[th].raced
              => outQueue[call[th].srv] # <<>>
        /\ call[th].op = "select"
              => \A srv \in call[th].ready \ call[th].drained : outQueue[srv] # <<>>

(* The queues, the maps and the thread implement servers that answer.      *)
Promise == INSTANCE RequestReply
ImplementsRequestReply == Promise!Spec

(* Every packet is answered, also when other servers are kept busy, unless  *)
(* the process exits (a round over the servers always ends, as the game     *)
(* does not send for ever).                                                 *)
EveryPacketAnswered ==
    \A srv \in Servers : \A n \in 1..MaxAsked :
        asked[srv] >= n ~> (answered[srv] >= n \/ exitServer)

(* pre_destroy returns, unless its request came before server_main's reset. *)
ShutdownCompletes == Destroying ~> (joined \/ overwritten)
==============================================================================
