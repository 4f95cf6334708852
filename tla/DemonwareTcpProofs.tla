-------------------------- MODULE DemonwareTcpProofs --------------------------
(***************************************************************************)
(* Theorems about DemonwareTcp for any threads, handles and servers, any   *)
(* lengths of answers and buffers, and any number of requests.             *)
(***************************************************************************)
EXTENDS DemonwareTcp, SequenceFacts

(* The thread is at a server while it handles a packet. *)
ThreadInv == server = "handle" => turn \in DOMAIN FrameOrder

(* A thread inside closesocket is the only one that closes its handle, and  *)
(* has undone what lies behind it in CloseOrder.                           *)
ClosingInv ==
    \A th \in Threads : call[th].op = "close" =>
        /\ call[th].s \in open
        /\ call[th].step > 1 => blockingMap[call[th].s] = None
        /\ call[th].step > 2 => socketMap[call[th].s] = None
        /\ \A u \in Threads : call[u].op = "close" /\ call[u].s = call[th].s => u = th

(* EveryPacketOnce, by position. *)
Hand(srv) == IF server = "handle" /\ FrameOrder[turn] = srv THEN 1 ELSE 0

PacketInv(srv) ==
    /\ asked[srv] = answered[srv] + Hand(srv) + Len(inQueue[srv])
    /\ \A i \in 1..Len(inQueue[srv]) : inQueue[srv][i] = answered[srv] + Hand(srv) + i
    /\ Hand(srv) = 1 => popped = answered[srv] + 1

(* BytesInOrder, by position. *)
ByteInv(srv) ==
    /\ sent[srv] = Len(read[srv]) + Len(outQueue[srv])
    /\ \A i \in 1..Len(read[srv]) : read[srv][i] = i
    /\ \A i \in 1..Len(outQueue[srv]) : outQueue[srv][i] = Len(read[srv]) + i

(* A handle that is not open has no history. *)
UnusedInv == \A s \in Handles : s \notin open => peer[s] = None /\ mode[s] = None

IInv ==
    /\ TypeOK
    /\ ThreadInv
    /\ ClosingInv
    /\ UnusedInv
    /\ MapsAreFresh
    /\ \A srv \in Servers : PacketInv(srv)
    /\ \A srv \in Servers : ByteInv(srv)
    /\ ReadinessHolds

-----------------------------------------------------------------------------
(* The calls a thread can be inside. *)

LEMMA CallTypes ==
    ASSUME NEW c \in Calls
    PROVE  /\ c.op \in {"none", "destroy", "send", "recv", "close", "select"}
           /\ c.op = "send" => c.srv \in Servers
           /\ c.op = "recv" => /\ c.srv \in Servers /\ c.len \in Lengths
                               /\ c.checked \in BOOLEAN /\ c.raced \in BOOLEAN
           /\ c.op = "close" => c.s \in Handles /\ c.step \in 1..3
           /\ c.op = "select" => c.ready \subseteq Servers /\ c.drained \subseteq Servers
  BY DEF Calls, Idle

LEMMA CallUpdates ==
    ASSUME NEW c \in Calls
    PROVE  /\ c.op = "recv" => /\ [c EXCEPT !.checked = TRUE] \in Calls
                               /\ [c EXCEPT !.checked = TRUE].op = "recv"
                               /\ [c EXCEPT !.checked = TRUE].srv = c.srv
           /\ c.op = "close" /\ c.step # 3 => [c EXCEPT !.step = c.step + 1] \in Calls
           /\ c.op = "close" => /\ [c EXCEPT !.step = c.step + 1].op = "close"
                                /\ [c EXCEPT !.step = c.step + 1].s = c.s
                                /\ [c EXCEPT !.step = c.step + 1].step = c.step + 1
  <1>1. CASE c.op = "recv"
    <2>1. PICK srv \in Servers, len \in Lengths, checked \in BOOLEAN, raced \in BOOLEAN :
             c = [op |-> "recv", srv |-> srv, len |-> len, checked |-> checked, raced |-> raced]
      BY <1>1 DEF Calls, Idle
    <2>2. [c EXCEPT !.checked = TRUE]
             = [op |-> "recv", srv |-> srv, len |-> len, checked |-> TRUE, raced |-> raced]
      <3>1. \A v \in BOOLEAN : [c EXCEPT !.checked = v]
               = [op |-> "recv", srv |-> srv, len |-> len, checked |-> v, raced |-> raced]
        BY <2>1
      <3>2. QED
        BY <3>1, Zenon
    <2>3. QED
      BY <1>1, <2>1, <2>2 DEF Calls
  <1>2. CASE c.op = "close"
    <2>1. PICK s \in Handles, step \in 1..3 : c = [op |-> "close", s |-> s, step |-> step]
      BY <1>2 DEF Calls, Idle
    <2>2. [c EXCEPT !.step = c.step + 1] = [op |-> "close", s |-> s, step |-> step + 1]
      BY <2>1
    <2>3. step # 3 => step + 1 \in 1..3
      OBVIOUS
    <2>4. QED
      BY <1>2, <2>1, <2>2, <2>3 DEF Calls
  <1>3. QED
    BY <1>1, <1>2

(* Being overtaken marks a recv or select and leaves other calls alone. *)
LEMMA OvertakenProperties ==
    ASSUME NEW c \in Calls, NEW srv \in Servers
    PROVE  /\ Overtaken(c, srv) \in Calls
           /\ Overtaken(c, srv).op = c.op
           /\ c.op = "close" => Overtaken(c, srv) = c
           /\ c.op = "recv" =>
                 /\ Overtaken(c, srv).srv = c.srv
                 /\ Overtaken(c, srv).checked = c.checked
                 /\ Overtaken(c, srv).raced = (c.raced \/ (c.srv = srv /\ c.checked))
           /\ c.op = "select" =>
                 /\ Overtaken(c, srv).ready = c.ready
                 /\ Overtaken(c, srv).drained = c.drained \cup {srv}
  <1>1. CASE c.op = "recv"
    <2>1. PICK s \in Servers, len \in Lengths, checked \in BOOLEAN, raced \in BOOLEAN :
             c = [op |-> "recv", srv |-> s, len |-> len, checked |-> checked, raced |-> raced]
      BY <1>1 DEF Calls, Idle
    <2>2. Overtaken(c, srv) = [c EXCEPT !.raced = c.raced \/ (c.srv = srv /\ c.checked)]
      BY <1>1 DEF Overtaken
    <2>3. Overtaken(c, srv)
             = [op |-> "recv", srv |-> s, len |-> len, checked |-> checked,
                raced |-> c.raced \/ (c.srv = srv /\ c.checked)]
      BY <2>1, <2>2
    <2>4. (c.raced \/ (c.srv = srv /\ c.checked)) \in BOOLEAN
      OBVIOUS
    <2>5. QED
      BY <1>1, <2>1, <2>3, <2>4 DEF Calls
  <1>2. CASE c.op = "select"
    <2>1. PICK ready \in SUBSET Servers, drained \in SUBSET Servers :
             c = [op |-> "select", ready |-> ready, drained |-> drained]
      BY <1>2 DEF Calls, Idle
    <2>2. Overtaken(c, srv) = [op |-> "select", ready |-> ready, drained |-> drained \cup {srv}]
      BY <1>2, <2>1 DEF Overtaken
    <2>3. QED
      BY <1>2, <2>1, <2>2 DEF Calls
  <1>3. CASE c.op \notin {"recv", "select"}
    BY <1>3 DEF Overtaken
  <1>4. QED
    BY <1>1, <1>2, <1>3


(* Entering a call or leaving it touches the caller's entry only. *)
LEMMA EnterProperties ==
    ASSUME TypeOK, NEW th \in Threads, NEW c \in Calls, call' = [call EXCEPT ![th] = c]
    PROVE  /\ call' \in [Threads -> Calls]
           /\ call'[th] = c
           /\ \A u \in Threads : u # th => call'[u] = call[u]
  BY DEF TypeOK

LEMMA IdleIsACall == Idle \in Calls /\ Idle.op = "none"
  BY DEF Calls, Idle

LEMMA ServerTypes ==
    /\ \A i \in DOMAIN FrameOrder : FrameOrder[i] \in Servers
    /\ DOMAIN FrameOrder = 1..Len(FrameOrder)
    /\ Len(FrameOrder) \in Nat
  BY DemonwareAssumption, LenProperties DEF Servers

LEMMA InitType == Init => TypeOK /\ ThreadInv
  <1> SUFFICES ASSUME Init PROVE TypeOK /\ ThreadInv
    OBVIOUS
  <1>1. <<>> \in Seq(Nat)
    BY EmptySeq
  <1>2. 1 \in 1..Len(FrameOrder) + 1
    BY ServerTypes
  <1>3. QED
    BY <1>1, <1>2, IdleIsACall DEF Init, TypeOK, ThreadInv

(* Steps on the handles and their maps. *)
LEMMA MapTypes ==
    ASSUME TypeOK, ThreadInv, NEW s \in Handles,
           \/ Socket(s)
           \/ \E th \in Threads, srv \in Servers : Connect(th, s, srv)
           \/ \E th \in Threads, block \in BOOLEAN : IoctlSocket(th, s, block)
    PROVE  TypeOK' /\ ThreadInv'
  <1> DEFINE MapsTyped == /\ open \subseteq Handles
                          /\ socketMap \in [Handles -> Servers \cup {None}]
                          /\ blockingMap \in [Handles -> BOOLEAN \cup {None}]
                          /\ peer \in [Handles -> Servers \cup {None}]
                          /\ mode \in [Handles -> BOOLEAN \cup {None}]
  <1>1. MapsTyped'
    <2>1. CASE Socket(s)
      BY <2>1 DEF TypeOK, Socket
    <2>2. ASSUME NEW th \in Threads, NEW srv \in Servers, Connect(th, s, srv)
          PROVE  MapsTyped'
      BY <2>2 DEF TypeOK, Connect
    <2>3. ASSUME NEW th \in Threads, NEW block \in BOOLEAN, IoctlSocket(th, s, block)
          PROVE  MapsTyped'
      BY <2>3 DEF TypeOK, IoctlSocket
    <2>4. QED
      BY <2>1, <2>2, <2>3
  <1>2. UNCHANGED <<queues, call, thread, life>>
    BY DEF Socket, Connect, IoctlSocket
  <1>3. QED
    BY <1>1, <1>2 DEF TypeOK, ThreadInv, queues, thread, life

(* Steps that change the call of a thread and nothing else. *)
LEMMA CallStepTypes ==
    ASSUME TypeOK, ThreadInv, call' \in [Threads -> Calls], UNCHANGED <<maps, queues, thread, life>>
    PROVE  TypeOK' /\ ThreadInv'
  BY DEF TypeOK, ThreadInv, maps, queues, thread, life

LEMMA CloseStepTypes ==
    ASSUME TypeOK, ThreadInv, NEW th \in Threads, CloseStep(th)
    PROVE  TypeOK' /\ ThreadInv'
  <1>1. /\ call[th] \in Calls /\ call[th].op = "close" /\ call[th].s \in Handles
        /\ call[th].step \in 1..3
    BY CallTypes DEF TypeOK, CloseStep
  <1>2. call' \in [Threads -> Calls]
    <2>1. CASE call[th].step = LastStep
      BY <2>1, IdleIsACall, EnterProperties DEF CloseStep, Leave
    <2>2. CASE call[th].step # LastStep
      <3>1. call[th].step # 3
        BY <2>2 DEF LastStep, CloseOrder
      <3>2. call' = [call EXCEPT ![th] = [call[th] EXCEPT !.step = call[th].step + 1]]
        BY <2>2 DEF CloseStep
      <3>3. QED
        BY <1>1, <3>1, <3>2, CallUpdates, EnterProperties
    <2>3. QED
      BY <2>1, <2>2
  <1>3. /\ blockingMap' \in [Handles -> BOOLEAN \cup {None}]
        /\ socketMap' \in [Handles -> Servers \cup {None}]
        /\ open' \subseteq Handles
        /\ peer' \in [Handles -> Servers \cup {None}]
        /\ mode' \in [Handles -> BOOLEAN \cup {None}]
    BY <1>1 DEF CloseStep, TypeOK
  <1>4. QED
    BY <1>2, <1>3 DEF CloseStep, TypeOK, ThreadInv, queues, thread, life

LEMMA HandleInputTypes ==
    ASSUME TypeOK, ThreadInv, NEW th \in Threads, HandleInput(th)
    PROVE  TypeOK' /\ ThreadInv'
  <1> DEFINE srv == call[th].srv
  <1>1. srv \in Servers
    BY CallTypes DEF TypeOK, HandleInput
  <1>2. asked[srv] + 1 \in Nat /\ inQueue[srv] \in Seq(Nat)
    BY <1>1 DEF TypeOK
  <1>3. Append(inQueue[srv], asked[srv] + 1) \in Seq(Nat)
    BY <1>2, AppendFacts
  <1>4. /\ inQueue' \in [Servers -> Seq(Nat)]
        /\ asked' \in [Servers -> Nat]
    BY <1>1, <1>2, <1>3 DEF HandleInput, TypeOK
  <1>5. call' \in [Threads -> Calls]
    BY IdleIsACall, EnterProperties DEF HandleInput, Leave
  <1>6. QED
    BY <1>4, <1>5 DEF HandleInput, TypeOK, ThreadInv, maps, thread, life

(* What handle_output takes, and what it leaves. *)
LEMMA HandleOutputTakes ==
    ASSUME TypeOK, NEW th \in Threads, HandleOutput(th)
    PROVE  LET srv == call[th].srv
               n   == Smaller(call[th].len, Len(outQueue[srv]))
           IN  /\ srv \in Servers
               /\ n \in 0..Len(outQueue[srv])
               /\ n = 0 <=> outQueue[srv] = <<>>
               /\ outQueue[srv] \in Seq(Nat) /\ read[srv] \in Seq(Nat)
               /\ Copied(outQueue[srv], n) \in Seq(Nat)
               /\ Remaining(outQueue[srv], n) \in Seq(Nat)
  <1> DEFINE srv == call[th].srv
             n   == Smaller(call[th].len, Len(outQueue[srv]))
  <1>1. srv \in Servers /\ call[th].len \in Lengths
    BY CallTypes DEF TypeOK, HandleOutput
  <1>2. /\ outQueue[srv] \in Seq(Nat) /\ read[srv] \in Seq(Nat)
        /\ Len(outQueue[srv]) \in Nat
        /\ outQueue[srv] = <<>> <=> Len(outQueue[srv]) = 0
    BY <1>1, LenProperties, EmptySeq DEF TypeOK
  <1>3. call[th].len \in Nat \ {0}
    BY <1>1, DemonwareAssumption
  <1>4. n \in 0..Len(outQueue[srv]) /\ (n = 0 <=> outQueue[srv] = <<>>)
    BY <1>2, <1>3 DEF Smaller
  <1> HIDE DEF n, srv
  <1>5. Copied(outQueue[srv], n) \in Seq(Nat) /\ Remaining(outQueue[srv], n) \in Seq(Nat)
    BY <1>2, <1>4, SplitProperties DEF Copied, Remaining
  <1>6. QED
    BY <1>1, <1>2, <1>4, <1>5 DEF n, srv

LEMMA HandleOutputTypes ==
    ASSUME TypeOK, ThreadInv, NEW th \in Threads, HandleOutput(th)
    PROVE  TypeOK' /\ ThreadInv'
  <1> DEFINE srv == call[th].srv
             n   == Smaller(call[th].len, Len(outQueue[srv]))
  <1>1. /\ srv \in Servers /\ read[srv] \in Seq(Nat)
        /\ Copied(outQueue[srv], n) \in Seq(Nat)
        /\ Remaining(outQueue[srv], n) \in Seq(Nat)
    BY HandleOutputTakes
  <1>2. /\ read' = [read EXCEPT ![srv] = read[srv] \o Copied(outQueue[srv], n)]
        /\ outQueue' = [outQueue EXCEPT ![srv] = Remaining(outQueue[srv], n)]
        /\ call' = [u \in Threads |-> IF u = th THEN Idle
                                     ELSE IF n > 0 THEN Overtaken(call[u], srv)
                                     ELSE call[u]]
    BY DEF HandleOutput
  <1> HIDE DEF srv, n
  <1>3. read[srv] \o Copied(outQueue[srv], n) \in Seq(Nat)
    BY <1>1, ConcatProperties
  <1>4. read' \in [Servers -> Seq(Nat)] /\ outQueue' \in [Servers -> Seq(Nat)]
    BY <1>1, <1>2, <1>3 DEF TypeOK
  <1>5. call' \in [Threads -> Calls]
    <2>1. \A u \in Threads : call[u] \in Calls /\ Overtaken(call[u], srv) \in Calls
      BY <1>1, OvertakenProperties DEF TypeOK
    <2>2. QED
      BY <1>2, <2>1, IdleIsACall
  <1>6. QED
    BY <1>4, <1>5 DEF HandleOutput, TypeOK, ThreadInv, maps, thread, life

LEMMA ServerStepTypes ==
    ASSUME TypeOK, ThreadInv, ResetExit \/ TestExit \/ TakePacket \/ LeaveServer \/ EndRound
    PROVE  TypeOK' /\ ThreadInv'
  <1>1. CASE ResetExit
    BY <1>1 DEF ResetExit, InitialExit, TypeOK, ThreadInv, maps, queues
  <1>2. CASE TestExit
    <2>1. turn' \in 1..Len(FrameOrder) + 1
      BY <1>2, ServerTypes DEF TestExit
    <2>2. QED
      BY <1>2, <2>1 DEF TestExit, TypeOK, ThreadInv, maps, queues, life
  <1>3. CASE TakePacket
    <2> DEFINE srv == FrameOrder[turn]
    <2>1. srv \in Servers /\ inQueue[srv] \in Seq(Nat) /\ inQueue[srv] # <<>>
      BY <1>3, ServerTypes DEF TakePacket, TypeOK
    <2>2. Popped(inQueue[srv]) \in Seq(Nat) /\ Head(inQueue[srv]) \in Nat
      BY <2>1, HeadTailProperties DEF Popped
    <2>3. inQueue' \in [Servers -> Seq(Nat)] /\ popped' \in Nat
      BY <1>3, <2>1, <2>2 DEF TakePacket, TypeOK
    <2>4. QED
      BY <1>3, <2>3 DEF TakePacket, TypeOK, ThreadInv, maps, life
  <1>4. CASE LeaveServer
    <2>1. turn' \in 1..Len(FrameOrder) + 1
      BY <1>4, ServerTypes DEF LeaveServer, AfterServer
    <2>2. QED
      BY <1>4, <2>1 DEF LeaveServer, TypeOK, ThreadInv, maps, queues, life
  <1>5. CASE EndRound
    BY <1>5 DEF EndRound, TypeOK, ThreadInv, maps, queues, life
  <1>6. QED
    BY <1>1, <1>2, <1>3, <1>4, <1>5

(* The bytes of an answer. *)
LEMMA HandleSends ==
    ASSUME TypeOK, ThreadInv, Handle
    PROVE  LET srv == FrameOrder[turn]
           IN  /\ srv \in Servers
               /\ \E n \in ReplyLens[srv] :
                     /\ n \in Nat
                     /\ outQueue' = [outQueue EXCEPT
                                        ![srv] = @ \o [i \in 1..n |-> sent[srv] + i]]
                     /\ sent' = [sent EXCEPT ![srv] = @ + n]
               /\ answered' = [answered EXCEPT ![srv] = @ + 1]
               /\ sent[srv] \in Nat /\ outQueue[srv] \in Seq(Nat)
  <1>1. FrameOrder[turn] \in Servers
    BY ServerTypes DEF ThreadInv, Handle
  <1>2. ReplyLens[FrameOrder[turn]] \subseteq Nat
    BY <1>1, DemonwareAssumption
  <1>3. QED
    BY <1>1, <1>2 DEF Handle, TypeOK

LEMMA HandleTypes ==
    ASSUME TypeOK, ThreadInv, Handle
    PROVE  TypeOK' /\ ThreadInv'
  <1> DEFINE srv == FrameOrder[turn]
  <1>1. PICK n \in Nat :
           /\ outQueue' = [outQueue EXCEPT ![srv] = @ \o [i \in 1..n |-> sent[srv] + i]]
           /\ sent' = [sent EXCEPT ![srv] = @ + n]
    BY HandleSends
  <1>2. /\ srv \in Servers /\ sent[srv] \in Nat /\ outQueue[srv] \in Seq(Nat)
        /\ answered' = [answered EXCEPT ![srv] = @ + 1]
    BY HandleSends
  <1> HIDE DEF srv
  <1> DEFINE longer == outQueue[srv] \o [i \in 1..n |-> sent[srv] + i]
  <1>3. longer \in Seq(Nat) /\ outQueue' = [outQueue EXCEPT ![srv] = longer]
    BY <1>1, <1>2, NumbersProperties, ConcatProperties
  <1> HIDE DEF longer
  <1>4. /\ outQueue' \in [Servers -> Seq(Nat)] /\ sent' \in [Servers -> Nat]
        /\ answered' \in [Servers -> Nat]
    <2>1. outQueue' \in [Servers -> Seq(Nat)]
      BY <1>3, <1>2 DEF TypeOK
    <2>2. sent' \in [Servers -> Nat]
      <3>1. sent' = [sent EXCEPT ![srv] = sent[srv] + n]
        BY <1>1
      <3>2. sent[srv] + n \in Nat
        BY <1>2
      <3>3. QED
        BY <3>1, <3>2 DEF TypeOK
    <2>3. answered' \in [Servers -> Nat]
      BY <1>2 DEF TypeOK
    <2>4. QED
      BY <2>1, <2>2, <2>3
  <1>5. /\ popped' = None /\ server' = "frame"
        /\ UNCHANGED <<maps, inQueue, asked, read, call, turn, life>>
    BY DEF Handle
  <1>6. QED
    BY <1>4, <1>5 DEF TypeOK, ThreadInv, maps, life


(* The steps on calls that look at something and change only the call. *)
Looks(th) ==
    \/ \E s \in Handles : SendFind(th, s)
    \/ \E s \in Handles, len \in Lengths : RecvFind(th, s, len)
    \/ RecvCheck(th)
    \/ \E rd \in SUBSET Handles : SelectSnapshot(th, rd)
    \/ SelectReturns(th)

(* What such a step makes of the call: a call that has looked at nothing, a *)
(* recv that has found bytes pending, or a select of servers that had some.  *)
LEMMA LooksProperties ==
    ASSUME TypeOK, NEW th \in Threads, Looks(th)
    PROVE  \E c \in Calls :
              /\ call' = [call EXCEPT ![th] = c]
              /\ call[th].op # "close" /\ c.op # "close"
              /\ UNCHANGED <<maps, queues, thread, life>>
              /\ \/ c.op \in {"none", "send"}
                 \/ c.op = "recv" /\ ~c.checked
                 \/ c.op = "recv" /\ outQueue[c.srv] # <<>>
                 \/ c.op = "select" /\ \A srv \in c.ready : outQueue[srv] # <<>>
  <1> DEFINE Goal(c) ==
         /\ call' = [call EXCEPT ![th] = c]
         /\ call[th].op # "close" /\ c.op # "close"
         /\ UNCHANGED <<maps, queues, thread, life>>
         /\ \/ c.op \in {"none", "send"}
            \/ c.op = "recv" /\ ~c.checked
            \/ c.op = "recv" /\ outQueue[c.srv] # <<>>
            \/ c.op = "select" /\ \A srv \in c.ready : outQueue[srv] # <<>>
  <1>1. ASSUME NEW s \in Handles, SendFind(th, s)
        PROVE  \E c \in Calls : Goal(c)
    <2> DEFINE c == [op |-> "send", srv |-> socketMap[s]]
    <2>1. c \in Calls
      BY <1>1 DEF SendFind, TypeOK, Calls
    <2>2. Goal(c)
      BY <1>1 DEF SendFind, Enter, CanCall, Idle
    <2>3. QED
      BY <2>1, <2>2
  <1>2. ASSUME NEW s \in Handles, NEW len \in Lengths, RecvFind(th, s, len)
        PROVE  \E c \in Calls : Goal(c)
    <2> DEFINE c == [op |-> "recv", srv |-> socketMap[s], len |-> len,
                     checked |-> FALSE, raced |-> FALSE]
    <2>1. c \in Calls
      BY <1>2 DEF RecvFind, TypeOK, Calls
    <2>2. Goal(c)
      BY <1>2 DEF RecvFind, Enter, CanCall, Idle
    <2>3. QED
      BY <2>1, <2>2
  <1>3. ASSUME RecvCheck(th)
        PROVE  \E c \in Calls : Goal(c)
    <2>1. call[th] \in Calls /\ call[th].op = "recv"
      BY <1>3 DEF TypeOK, RecvCheck
    <2>2. CASE PendingData(call[th].srv)
      <3> DEFINE c == [call[th] EXCEPT !.checked = TRUE]
      <3>1. c \in Calls /\ c.op = "recv" /\ c.srv = call[th].srv
        BY <2>1, CallUpdates
      <3>2. call' = [call EXCEPT ![th] = c]
        BY <1>3, <2>2 DEF RecvCheck
      <3>3. UNCHANGED <<maps, queues, thread, life>>
        BY <1>3 DEF RecvCheck
      <3> HIDE DEF c
      <3>4. outQueue[c.srv] # <<>>
        BY <2>2, <3>1 DEF PendingData
      <3>5. QED
        BY <2>1, <3>1, <3>2, <3>3, <3>4
    <2>3. CASE ~PendingData(call[th].srv)
      <3>1. Goal(Idle)
        BY <1>3, <2>1, <2>3, IdleIsACall DEF RecvCheck, Leave
      <3>2. QED
        BY <3>1, IdleIsACall
    <2>4. QED
      BY <2>2, <2>3
  <1>4. ASSUME NEW rd \in SUBSET Handles, SelectSnapshot(th, rd)
        PROVE  \E c \in Calls : Goal(c)
    <2> DEFINE c == [op |-> "select", ready |-> Readable(rd), drained |-> {}]
    <2>1. \A srv \in Readable(rd) : srv \in Servers /\ outQueue[srv] # <<>>
      BY <1>4 DEF Readable, PendingData, TypeOK
    <2>2. c \in Calls
      BY <2>1 DEF Calls
    <2>3. call' = [call EXCEPT ![th] = c] /\ call[th] = Idle
      BY <1>4 DEF SelectSnapshot, Enter, CanCall
    <2>4. UNCHANGED <<maps, queues, thread, life>>
      BY <1>4 DEF SelectSnapshot
    <2>5. c.op = "select" /\ c.ready = Readable(rd)
      OBVIOUS
    <2> HIDE DEF c
    <2>6. Goal(c)
      BY <2>1, <2>3, <2>4, <2>5, IdleIsACall
    <2>7. QED
      BY <2>2, <2>6
  <1>5. ASSUME SelectReturns(th)
        PROVE  \E c \in Calls : Goal(c)
    <2>1. Goal(Idle)
      BY <1>5, IdleIsACall DEF SelectReturns, Leave
    <2>2. QED
      BY <2>1, IdleIsACall
  <1>6. QED
    BY <1>1, <1>2, <1>3, <1>4, <1>5 DEF Looks

LEMMA CloseSocketEnters ==
    ASSUME TypeOK, NEW th \in Threads, NEW s \in Handles, CloseSocket(th, s)
    PROVE  LET c == [op |-> "close", s |-> s, step |-> 1]
           IN  /\ c \in Calls /\ call' = [call EXCEPT ![th] = c]
               /\ UNCHANGED <<maps, queues, thread, life>>
  BY DEF CloseSocket, Enter, Calls

(* Steps of the component's life. *)
Lives ==
    \/ PreStart
    \/ PostUnpack
    \/ \E th \in Threads : PreDestroy(th)
    \/ JoinReturns

LEMMA LivesProperties ==
    ASSUME TypeOK, Lives
    PROVE  /\ \/ call' = call
              \/ \E th \in Threads : /\ call[th] = Idle
                                     /\ call' = [call EXCEPT ![th] = [op |-> "destroy"]]
           /\ UNCHANGED <<maps, queues, turn, popped>>
           /\ server' = server \/ (server = "none" /\ server' = "created")
           /\ hooked' \in BOOLEAN /\ exitServer' \in BOOLEAN /\ joined' \in BOOLEAN
           /\ overwritten' \in BOOLEAN
  <1>1. CASE PreStart
    BY <1>1 DEF PreStart, TypeOK, thread
  <1>2. CASE PostUnpack
    BY <1>2 DEF PostUnpack, TypeOK, life
  <1>3. ASSUME NEW th \in Threads, PreDestroy(th)
        PROVE  /\ call[th] = Idle /\ call' = [call EXCEPT ![th] = [op |-> "destroy"]]
               /\ UNCHANGED <<maps, queues, thread, hooked, joined, overwritten>>
               /\ exitServer' = TRUE
    BY <1>3 DEF PreDestroy, Enter
  <1>4. CASE JoinReturns
    BY <1>4 DEF JoinReturns, TypeOK, thread
  <1>5. QED
    BY <1>1, <1>2, <1>3, <1>4 DEF Lives, TypeOK, thread

LEMMA LivesTypes ==
    ASSUME TypeOK, ThreadInv, Lives
    PROVE  TypeOK' /\ ThreadInv'
  <1>1. call' \in [Threads -> Calls]
    <2>1. [op |-> "destroy"] \in Calls
      BY DEF Calls
    <2>2. QED
      BY <2>1, LivesProperties, EnterProperties DEF TypeOK
  <1>2. /\ UNCHANGED <<maps, queues, turn, popped>>
        /\ server' = server \/ (server = "none" /\ server' = "created")
        /\ hooked' \in BOOLEAN /\ exitServer' \in BOOLEAN /\ joined' \in BOOLEAN
        /\ overwritten' \in BOOLEAN
    BY LivesProperties
  <1>3. QED
    BY <1>1, <1>2 DEF TypeOK, ThreadInv, maps, queues

(* The steps of Next, in the groups the invariants tell apart. *)
LEMMA NextGroups ==
    ASSUME Next
    PROVE  \/ \E s \in Handles : Socket(s)
           \/ \E s \in Handles, th \in Threads, srv \in Servers : Connect(th, s, srv)
           \/ \E s \in Handles, th \in Threads, block \in BOOLEAN : IoctlSocket(th, s, block)
           \/ \E th \in Threads, s \in Handles : CloseSocket(th, s)
           \/ \E th \in Threads : CloseStep(th)
           \/ \E th \in Threads : Looks(th)
           \/ \E th \in Threads : HandleInput(th)
           \/ \E th \in Threads : HandleOutput(th)
           \/ ResetExit \/ TestExit \/ TakePacket \/ LeaveServer \/ EndRound
           \/ Handle
           \/ Lives
  BY DEF Next, Looks, Lives

LEMMA TypeStep == TypeOK /\ ThreadInv /\ [Next]_vars => TypeOK' /\ ThreadInv'
  <1> SUFFICES ASSUME TypeOK, ThreadInv, [Next]_vars PROVE TypeOK' /\ ThreadInv'
    OBVIOUS
  <1>1. ASSUME NEW th \in Threads, Looks(th)
        PROVE  TypeOK' /\ ThreadInv'
    <2>1. call' \in [Threads -> Calls] /\ UNCHANGED <<maps, queues, thread, life>>
      BY <1>1, LooksProperties, EnterProperties
    <2>2. QED
      BY <2>1, CallStepTypes
  <1>2. ASSUME NEW th \in Threads, NEW s \in Handles, CloseSocket(th, s)
        PROVE  TypeOK' /\ ThreadInv'
    <2>1. call' \in [Threads -> Calls] /\ UNCHANGED <<maps, queues, thread, life>>
      BY <1>2, CloseSocketEnters, EnterProperties
    <2>2. QED
      BY <2>1, CallStepTypes
  <1>3. CASE UNCHANGED vars
    BY <1>3, CallStepTypes DEF vars, TypeOK
  <1>4. QED
    BY <1>1, <1>2, <1>3, NextGroups, MapTypes, CloseStepTypes, HandleInputTypes,
       HandleOutputTypes, ServerStepTypes, HandleTypes, LivesTypes


-----------------------------------------------------------------------------
(* The maps. *)

IsClosing(s) == \E th \in Threads : call[th].op = "close" /\ call[th].s = s

(* The operating system's close is the last of the three steps. *)
LEMMA ClosingMeans ==
    /\ call \in [Threads -> Calls] => \A s : Closing(s) <=> IsClosing(s)
    /\ call' \in [Threads -> Calls] => \A s : Closing(s)' <=> IsClosing(s)'
  <1>1. \A c \in Calls : c.op = "close" => \E k \in c.step..3 : CloseOrder[k] = "os"
    BY CallTypes DEF CloseOrder
  <1>2. call \in [Threads -> Calls] => \A s : Closing(s) <=> IsClosing(s)
    BY <1>1 DEF Closing, IsClosing
  <1>3. call' \in [Threads -> Calls] => \A s : Closing(s)' <=> IsClosing(s)'
    BY <1>1 DEF Closing, IsClosing
  <1>4. QED
    BY <1>2, <1>3

MapInv ==
    /\ ClosingInv
    /\ UnusedInv
    /\ MapsAreFresh

(* Fewer words for MapsAreFresh: with the calls that close spelt out. *)
Fresh(s) ==
    /\ s \in open => IsClosing(s) \/ (socketMap[s] = peer[s] /\ blockingMap[s] = mode[s])
    /\ s \notin open => socketMap[s] = None /\ blockingMap[s] = None

LEMMA FreshMeans ==
    /\ call \in [Threads -> Calls] => (MapsAreFresh <=> \A s \in Handles : Fresh(s))
    /\ call' \in [Threads -> Calls] => (MapsAreFresh' <=> \A s \in Handles : Fresh(s)')
  BY ClosingMeans DEF MapsAreFresh, Fresh

(* A step that leaves the maps, and the calls that close, as they are. *)
SameCloses ==
    \A u \in Threads : /\ call'[u].op = "close" <=> call[u].op = "close"
                       /\ call[u].op = "close" => call'[u] = call[u]

LEMMA MapsKept ==
    ASSUME TypeOK, call' \in [Threads -> Calls], MapInv, UNCHANGED maps, SameCloses
    PROVE  MapInv'
  <1>1. \A s : IsClosing(s)' <=> IsClosing(s)
    BY DEF SameCloses, IsClosing
  <1>2. MapsAreFresh'
    <2>1. \A s \in Handles : Fresh(s)
      BY FreshMeans DEF TypeOK, MapInv
    <2>2. \A s \in Handles : Fresh(s)'
      BY <2>1, <1>1 DEF Fresh, maps
    <2>3. QED
      BY <2>2, FreshMeans
  <1>3. ClosingInv'
    BY DEF MapInv, ClosingInv, SameCloses, maps
  <1>4. UnusedInv'
    BY DEF MapInv, UnusedInv, maps
  <1>5. QED
    BY <1>2, <1>3, <1>4 DEF MapInv

(* socket, connect and ioctlsocket. *)
LEMMA HandleStepMaps ==
    ASSUME TypeOK, TypeOK', MapInv, NEW s \in Handles,
           \/ Socket(s)
           \/ \E th \in Threads, srv \in Servers : Connect(th, s, srv)
           \/ \E th \in Threads, block \in BOOLEAN : IoctlSocket(th, s, block)
    PROVE  MapInv'
  <1>1. /\ call' = call
        /\ \A t : IsClosing(t)' <=> IsClosing(t)
    BY DEF Socket, Connect, IoctlSocket, IsClosing
  <1>2. /\ ClosingInv /\ UnusedInv
        /\ \A t \in Handles : Fresh(t)
    BY FreshMeans DEF TypeOK, MapInv
  <1>3. CASE Socket(s)
    <2>1. /\ s \notin open /\ open' = open \cup {s}
          /\ UNCHANGED <<socketMap, blockingMap, peer, mode>>
      BY <1>3 DEF Socket
    <2>2. \A t \in Handles : Fresh(t)'
      BY <1>1, <1>2, <2>1 DEF Fresh, UnusedInv
    <2>3. ClosingInv' /\ UnusedInv'
      BY <1>1, <1>2, <2>1 DEF ClosingInv, UnusedInv
    <2>4. QED
      BY <2>2, <2>3, FreshMeans DEF TypeOK, MapInv
  <1>4. ASSUME NEW th \in Threads, NEW srv \in Servers, Connect(th, s, srv)
        PROVE  MapInv'
    <2>1. /\ s \in open /\ ~IsClosing(s)
          /\ socketMap' = [socketMap EXCEPT ![s] = srv] /\ peer' = [peer EXCEPT ![s] = srv]
          /\ UNCHANGED <<open, blockingMap, mode>>
      BY <1>4, ClosingMeans DEF Connect, Usable, TypeOK
    <2>2. /\ socketMap'[s] = srv /\ peer'[s] = srv
          /\ \A t \in Handles : t # s => socketMap'[t] = socketMap[t] /\ peer'[t] = peer[t]
      BY <2>1 DEF TypeOK
    <2>3. \A t \in Handles : Fresh(t)'
      BY <1>1, <1>2, <2>1, <2>2 DEF Fresh
    <2>4. \A u \in Threads : call[u].op = "close" => call[u].s \in Handles /\ call[u].s # s
      BY <2>1, CallTypes DEF IsClosing, TypeOK
    <2>5. ClosingInv' /\ UnusedInv'
      BY <1>1, <1>2, <2>1, <2>2, <2>4 DEF ClosingInv, UnusedInv
    <2>6. QED
      BY <2>3, <2>5, FreshMeans DEF TypeOK, MapInv
  <1>5. ASSUME NEW th \in Threads, NEW block \in BOOLEAN, IoctlSocket(th, s, block)
        PROVE  MapInv'
    <2>1. /\ s \in open /\ ~IsClosing(s)
          /\ blockingMap' = [blockingMap EXCEPT ![s] = block]
          /\ mode' = [mode EXCEPT ![s] = block]
          /\ UNCHANGED <<open, socketMap, peer>>
      BY <1>5, ClosingMeans DEF IoctlSocket, Usable, TypeOK
    <2>2. /\ blockingMap'[s] = block /\ mode'[s] = block
          /\ \A t \in Handles : t # s => blockingMap'[t] = blockingMap[t] /\ mode'[t] = mode[t]
      BY <2>1 DEF TypeOK
    <2>3. \A t \in Handles : Fresh(t)'
      BY <1>1, <1>2, <2>1, <2>2 DEF Fresh
    <2>4. \A u \in Threads : call[u].op = "close" => call[u].s \in Handles /\ call[u].s # s
      BY <2>1, CallTypes DEF IsClosing, TypeOK
    <2>5. ClosingInv' /\ UnusedInv'
      BY <1>1, <1>2, <2>1, <2>2, <2>4 DEF ClosingInv, UnusedInv
    <2>6. QED
      BY <2>3, <2>5, FreshMeans DEF TypeOK, MapInv
  <1>6. QED
    BY <1>3, <1>4, <1>5

(* The game closes a handle that is open and that nobody closes. *)
LEMMA CloseSocketMaps ==
    ASSUME TypeOK, TypeOK', MapInv, NEW th \in Threads, NEW s \in Handles, CloseSocket(th, s)
    PROVE  MapInv'
  <1> DEFINE c == [op |-> "close", s |-> s, step |-> 1]
  <1>1. /\ s \in open /\ ~IsClosing(s) /\ call[th] = Idle
        /\ UNCHANGED maps
    BY ClosingMeans DEF CloseSocket, Usable, CanCall, TypeOK
  <1>2. /\ call'[th] = c /\ c.op = "close" /\ c.s = s /\ c.step = 1
        /\ \A u \in Threads : u # th => call'[u] = call[u]
    BY CloseSocketEnters, EnterProperties
  <1> HIDE DEF c
  <1>3. ClosingInv'
    <2>1. \A u \in Threads : u # th /\ call[u].op = "close" => call[u].s # s
      BY <1>1 DEF IsClosing
    <2>2. ASSUME NEW u \in Threads, call'[u].op = "close"
          PROVE  /\ call'[u].s \in open
                 /\ call'[u].step > 1 => blockingMap[call'[u].s] = None
                 /\ call'[u].step > 2 => socketMap[call'[u].s] = None
                 /\ \A v \in Threads : call'[v].op = "close" /\ call'[v].s = call'[u].s => v = u
      <3>1. CASE u = th
        BY <3>1, <1>1, <1>2, <2>1
      <3>2. CASE u # th
        BY <2>2, <3>2, <1>2, <2>1 DEF MapInv, ClosingInv
      <3>3. QED
        BY <3>1, <3>2
    <2>3. QED
      BY <1>1, <2>2 DEF ClosingInv, maps
  <1>4. MapsAreFresh'
    <2>1. \A t : IsClosing(t) => IsClosing(t)'
      BY <1>1, <1>2, IdleIsACall DEF IsClosing
    <2>2. \A t \in Handles : Fresh(t)
      BY FreshMeans DEF TypeOK, MapInv
    <2>3. \A t \in Handles : Fresh(t)'
      BY <1>1, <2>1, <2>2 DEF Fresh, maps
    <2>4. QED
      BY <2>3, FreshMeans DEF TypeOK
  <1>5. QED
    BY <1>1, <1>3, <1>4 DEF MapInv, UnusedInv, maps

(* What the three steps of closesocket do, in the order of CloseOrder. *)
LEMMA CloseStepEffect ==
    ASSUME TypeOK, NEW th \in Threads, CloseStep(th)
    PROVE  LET s == call[th].s
               k == call[th].step
           IN  /\ call[th].op = "close" /\ s \in Handles /\ k \in 1..3
               /\ \A u \in Threads : u # th => call'[u] = call[u]
               /\ k # 3 => /\ call'[th].op = "close" /\ call'[th].s = s
                           /\ call'[th].step = k + 1
                           /\ UNCHANGED <<open, peer, mode>>
               /\ k = 3 => /\ call'[th] = Idle
                           /\ open' = open \ {s}
                           /\ peer' = [peer EXCEPT ![s] = None]
                           /\ mode' = [mode EXCEPT ![s] = None]
               /\ blockingMap' = IF k = 1 THEN [blockingMap EXCEPT ![s] = None] ELSE blockingMap
               /\ socketMap' = IF k = 2 THEN [socketMap EXCEPT ![s] = None] ELSE socketMap
               /\ UNCHANGED <<queues, thread, life>>
  <1> DEFINE s == call[th].s
             k == call[th].step
  <1>1. /\ call[th] \in Calls /\ call[th].op = "close" /\ s \in Handles /\ k \in 1..3
    BY CallTypes DEF TypeOK, CloseStep
  <1>2. /\ \A u \in Threads : u # th => call'[u] = call[u]
        /\ k # 3 => call'[th].op = "close" /\ call'[th].s = s /\ call'[th].step = k + 1
        /\ k = 3 => call'[th] = Idle
    <2>1. CASE k = 3
      <3>1. call' = [call EXCEPT ![th] = Idle]
        BY <2>1 DEF CloseStep, Leave, LastStep, CloseOrder
      <3>2. QED
        BY <2>1, <3>1 DEF TypeOK
    <2>2. CASE k # 3
      <3>1. call' = [call EXCEPT ![th] = [call[th] EXCEPT !.step = k + 1]]
        BY <2>2 DEF CloseStep, LastStep, CloseOrder
      <3>2. call'[th] = [call[th] EXCEPT !.step = k + 1]
        BY <3>1 DEF TypeOK
      <3>3. \A u \in Threads : u # th => call'[u] = call[u]
        BY <3>1 DEF TypeOK
      <3>4. QED
        BY <1>1, <2>2, <3>2, <3>3, CallUpdates
    <2>3. QED
      BY <2>1, <2>2
  <1>3. /\ CloseOrder[k] = "blocking" <=> k = 1
        /\ CloseOrder[k] = "link" <=> k = 2
        /\ CloseOrder[k] = "os" <=> k = 3
    BY <1>1 DEF CloseOrder
  <1>4. /\ blockingMap' = IF k = 1 THEN [blockingMap EXCEPT ![s] = None] ELSE blockingMap
        /\ socketMap' = IF k = 2 THEN [socketMap EXCEPT ![s] = None] ELSE socketMap
        /\ open' = IF k = 3 THEN open \ {s} ELSE open
        /\ peer' = IF k = 3 THEN [peer EXCEPT ![s] = None] ELSE peer
        /\ mode' = IF k = 3 THEN [mode EXCEPT ![s] = None] ELSE mode
        /\ UNCHANGED <<queues, thread, life>>
    BY <1>3 DEF CloseStep
  <1>5. QED
    BY <1>1, <1>2, <1>4

LEMMA CloseStepMaps ==
    ASSUME TypeOK, TypeOK', MapInv, NEW th \in Threads, CloseStep(th)
    PROVE  MapInv'
  <1> DEFINE s == call[th].s
             k == call[th].step
  <1>1. /\ call[th].op = "close" /\ s \in Handles /\ k \in 1..3
        /\ \A u \in Threads : u # th => call'[u] = call[u]
    BY CloseStepEffect
  <1>2. /\ s \in open
        /\ k > 1 => blockingMap[s] = None
        /\ k > 2 => socketMap[s] = None
        /\ \A u \in Threads : u # th /\ call[u].op = "close" => call[u].s \in open /\ call[u].s # s
    BY <1>1 DEF MapInv, ClosingInv
  <1>3. /\ \A t \in Handles : t # s =>
              /\ blockingMap'[t] = blockingMap[t] /\ socketMap'[t] = socketMap[t]
              /\ peer'[t] = peer[t] /\ mode'[t] = mode[t] /\ (t \in open' <=> t \in open)
        /\ blockingMap'[s] = IF k = 1 THEN None ELSE blockingMap[s]
        /\ socketMap'[s] = IF k = 2 THEN None ELSE socketMap[s]
        /\ k = 3 => peer'[s] = None /\ mode'[s] = None
    <2>1. /\ blockingMap' = IF k = 1 THEN [blockingMap EXCEPT ![s] = None] ELSE blockingMap
          /\ socketMap' = IF k = 2 THEN [socketMap EXCEPT ![s] = None] ELSE socketMap
          /\ k # 3 => UNCHANGED <<open, peer, mode>>
          /\ k = 3 => /\ open' = open \ {s}
                      /\ peer' = [peer EXCEPT ![s] = None]
                      /\ mode' = [mode EXCEPT ![s] = None]
      BY CloseStepEffect
    <2> HIDE DEF s, k
    <2>2. /\ \A t \in Handles : t # s => blockingMap'[t] = blockingMap[t]
          /\ blockingMap'[s] = IF k = 1 THEN None ELSE blockingMap[s]
      BY <1>1, <2>1 DEF TypeOK
    <2>3. /\ \A t \in Handles : t # s => socketMap'[t] = socketMap[t]
          /\ socketMap'[s] = IF k = 2 THEN None ELSE socketMap[s]
      BY <1>1, <2>1 DEF TypeOK
    <2>4. /\ \A t \in Handles : t # s =>
                peer'[t] = peer[t] /\ mode'[t] = mode[t] /\ (t \in open' <=> t \in open)
          /\ k = 3 => peer'[s] = None /\ mode'[s] = None
      BY <1>1, <2>1 DEF TypeOK
    <2>5. QED
      BY <2>2, <2>3, <2>4
  <1>4. /\ ClosingInv /\ UnusedInv
        /\ \A t \in Handles : Fresh(t)
    BY FreshMeans DEF TypeOK, MapInv
  <1>5. \A u \in Threads : u # th /\ call[u].op = "close" => call[u].s \in Handles
    BY CallTypes DEF TypeOK
  <1>6. \A t \in Handles : t # s => (IsClosing(t)' <=> IsClosing(t))
    <2> TAKE t \in Handles
    <2> HAVE t # s
    <2>1. call'[th].op # "close" \/ call'[th].s = s
      BY CloseStepEffect, IdleIsACall
    <2>2. QED
      BY <1>1, <2>1 DEF IsClosing
  <1>7. CASE k # 3
    <2>1. /\ call'[th].op = "close" /\ call'[th].s = s /\ call'[th].step = k + 1
          /\ UNCHANGED <<open, peer, mode>>
      BY <1>7, CloseStepEffect
    <2>2. ClosingInv'
      <3>1. ASSUME NEW u \in Threads, call'[u].op = "close"
            PROVE  /\ call'[u].s \in open'
                   /\ call'[u].step > 1 => blockingMap'[call'[u].s] = None
                   /\ call'[u].step > 2 => socketMap'[call'[u].s] = None
                   /\ \A v \in Threads : call'[v].op = "close" /\ call'[v].s = call'[u].s => v = u
        <4>1. CASE u = th
          <5>1. k = 1 \/ k = 2
            BY <1>1, <1>7
          <5>2. QED
            BY <4>1, <5>1, <2>1, <1>1, <1>2, <1>3
        <4>2. CASE u # th
          <5>1. call'[u] = call[u] /\ call[u].s \in Handles /\ call[u].s # s
            BY <3>1, <4>2, <1>1, <1>2, <1>5
          <5>2. QED
            BY <3>1, <4>2, <5>1, <2>1, <1>1, <1>3, <1>4 DEF ClosingInv
        <4>3. QED
          BY <4>1, <4>2
      <3>2. QED
        BY <3>1 DEF ClosingInv
    <2>3. \A t \in Handles : Fresh(t)'
      <3> TAKE t \in Handles
      <3>1. CASE t = s
        BY <3>1, <2>1, <1>2 DEF Fresh, IsClosing
      <3>2. CASE t # s
        BY <3>2, <1>3, <1>4, <1>6 DEF Fresh
      <3>3. QED
        BY <3>1, <3>2
    <2>4. UnusedInv'
      BY <2>1, <1>4 DEF UnusedInv
    <2>5. QED
      BY <2>2, <2>3, <2>4, FreshMeans DEF TypeOK, MapInv
  <1>8. CASE k = 3
    <2>1. /\ call'[th] = Idle /\ open' = open \ {s}
          /\ peer'[s] = None /\ mode'[s] = None
      BY <1>3, <1>8, CloseStepEffect
    <2>2. socketMap'[s] = None /\ blockingMap'[s] = None
      BY <1>2, <1>3, <1>8
    <2>3. ClosingInv'
      <3>1. ASSUME NEW u \in Threads, call'[u].op = "close"
            PROVE  /\ call'[u].s \in open'
                   /\ call'[u].step > 1 => blockingMap'[call'[u].s] = None
                   /\ call'[u].step > 2 => socketMap'[call'[u].s] = None
                   /\ \A v \in Threads : call'[v].op = "close" /\ call'[v].s = call'[u].s => v = u
        <4>1. u # th
          BY <3>1, <2>1, IdleIsACall
        <4>2. call'[u] = call[u] /\ call[u].s \in Handles /\ call[u].s # s
          BY <3>1, <4>1, <1>1, <1>2, <1>5
        <4>3. QED
          BY <3>1, <4>1, <4>2, <2>1, <1>1, <1>3, <1>4, IdleIsACall DEF ClosingInv
      <3>2. QED
        BY <3>1 DEF ClosingInv
    <2>4. \A t \in Handles : Fresh(t)'
      BY <2>1, <2>2, <1>3, <1>4, <1>6 DEF Fresh
    <2>5. UnusedInv'
      BY <2>1, <1>3, <1>4 DEF UnusedInv
    <2>6. QED
      BY <2>3, <2>4, <2>5, FreshMeans DEF TypeOK, MapInv
  <1>9. QED
    BY <1>7, <1>8

LEMMA MapStep == TypeOK /\ TypeOK' /\ ThreadInv /\ MapInv /\ [Next]_vars => MapInv'
  <1> SUFFICES ASSUME TypeOK, TypeOK', ThreadInv, MapInv, [Next]_vars PROVE MapInv'
    OBVIOUS
  <1>1. ASSUME UNCHANGED maps, SameCloses
        PROVE  MapInv'
    BY <1>1, MapsKept DEF TypeOK
  <1>2. ASSUME NEW th \in Threads, Looks(th)
        PROVE  MapInv'
    <2>1. PICK c \in Calls : /\ call' = [call EXCEPT ![th] = c]
                             /\ call[th].op # "close" /\ c.op # "close"
                             /\ UNCHANGED maps
      BY <1>2, LooksProperties
    <2>2. SameCloses
      BY <2>1, EnterProperties DEF SameCloses
    <2>3. QED
      BY <2>1, <2>2, <1>1
  <1>3. ASSUME NEW th \in Threads, HandleInput(th)
        PROVE  MapInv'
    <2>1. call[th].op = "send" /\ call' = [call EXCEPT ![th] = Idle] /\ UNCHANGED maps
      BY <1>3 DEF HandleInput, Leave
    <2>2. SameCloses
      BY <2>1, EnterProperties, IdleIsACall DEF SameCloses
    <2>3. QED
      BY <2>1, <2>2, <1>1
  <1>4. ASSUME NEW th \in Threads, HandleOutput(th)
        PROVE  MapInv'
    <2> DEFINE srv == call[th].srv
               n   == Smaller(call[th].len, Len(outQueue[srv]))
    <2>1. /\ call[th].op = "recv" /\ UNCHANGED maps /\ srv \in Servers
          /\ \A u \in Threads : call'[u] = IF u = th THEN Idle
                                           ELSE IF n > 0 THEN Overtaken(call[u], srv)
                                           ELSE call[u]
      BY <1>4, HandleOutputTakes DEF HandleOutput
    <2> HIDE DEF srv, n
    <2>2. \A u \in Threads : /\ Overtaken(call[u], srv).op = call[u].op
                             /\ call[u].op = "close" => Overtaken(call[u], srv) = call[u]
      BY <2>1, OvertakenProperties DEF TypeOK
    <2>3. SameCloses
      BY <2>1, <2>2, IdleIsACall DEF SameCloses
    <2>4. QED
      BY <2>1, <2>3, <1>1
  <1>5. CASE ResetExit \/ TestExit \/ TakePacket \/ LeaveServer \/ EndRound \/ Handle
             \/ UNCHANGED vars
    <2>1. UNCHANGED maps /\ call' = call
      BY <1>5 DEF ResetExit, TestExit, TakePacket, LeaveServer, EndRound, Handle, vars, queues
    <2>2. QED
      BY <2>1, <1>1 DEF SameCloses
  <1>6. CASE Lives
    <2>1. UNCHANGED maps
      BY <1>6, LivesProperties
    <2>2. SameCloses
      <3>1. CASE call' = call
        BY <3>1 DEF SameCloses
      <3>2. ASSUME NEW th \in Threads, call[th] = Idle,
                   call' = [call EXCEPT ![th] = [op |-> "destroy"]]
            PROVE  SameCloses
        <4>1. [op |-> "destroy"] \in Calls
          BY DEF Calls
        <4>2. QED
          BY <3>2, <4>1, EnterProperties, IdleIsACall DEF SameCloses
      <3>3. QED
        BY <1>6, <3>1, <3>2, LivesProperties
    <2>3. QED
      BY <2>1, <2>2, <1>1
  <1>7. QED
    BY <1>2, <1>3, <1>4, <1>5, <1>6, NextGroups, HandleStepMaps, CloseSocketMaps, CloseStepMaps

-----------------------------------------------------------------------------
(* The packets. *)

LEMMA PacketsKept ==
    ASSUME NEW srv \in Servers, PacketInv(srv), UNCHANGED <<inQueue, asked, answered, popped>>,
           Hand(srv)' = Hand(srv)
    PROVE  PacketInv(srv)'
  BY DEF PacketInv

(* handle_input appends a packet. *)
LEMMA HandleInputPackets ==
    ASSUME TypeOK, NEW srv \in Servers, PacketInv(srv), NEW th \in Threads, HandleInput(th)
    PROVE  PacketInv(srv)'
  <1> DEFINE to == call[th].srv
             q  == inQueue[srv]
             longer == Append(q, asked[srv] + 1)
  <1>1. /\ to \in Servers
        /\ inQueue' = [inQueue EXCEPT ![to] = Append(inQueue[to], asked[to] + 1)]
        /\ asked' = [asked EXCEPT ![to] = asked[to] + 1]
        /\ UNCHANGED <<answered, server, turn, popped>>
    BY CallTypes DEF HandleInput, TypeOK, thread
  <1> HIDE DEF to
  <1>2. /\ q \in Seq(Nat) /\ Len(q) \in Nat /\ asked[srv] \in Nat /\ answered[srv] \in Nat
        /\ Hand(srv) \in Nat /\ Hand(srv)' = Hand(srv) /\ answered' = answered
    BY <1>1, LenProperties DEF TypeOK, Hand
  <1>3. CASE srv # to
    <2>1. inQueue'[srv] = inQueue[srv] /\ asked'[srv] = asked[srv]
      BY <1>1, <1>3 DEF TypeOK
    <2>2. QED
      BY <1>1, <1>2, <2>1 DEF PacketInv
  <1>4. CASE srv = to
    <2>1. inQueue'[srv] = longer /\ asked'[srv] = asked[srv] + 1
      BY <1>1, <1>4 DEF TypeOK
    <2>2. /\ Len(longer) = Len(q) + 1
          /\ \A i \in 1..Len(q) : longer[i] = q[i]
          /\ longer[Len(q) + 1] = asked[srv] + 1
      BY <1>2, AppendFacts
    <2>3. /\ asked[srv] = answered[srv] + Hand(srv) + Len(q)
          /\ \A i \in 1..Len(q) : q[i] = answered[srv] + Hand(srv) + i
          /\ Hand(srv) = 1 => popped = answered[srv] + 1
      BY DEF PacketInv
    <2> HIDE DEF longer, q
    <2>4. ASSUME NEW i \in 1..Len(longer)
          PROVE  longer[i] = answered[srv] + Hand(srv) + i
      <3>1. i \in 1..Len(q) \/ i = Len(q) + 1
        BY <1>2, <2>2
      <3>2. CASE i \in 1..Len(q)
        BY <3>2, <2>2, <2>3
      <3>3. CASE i = Len(q) + 1
        BY <3>3, <1>2, <2>2, <2>3
      <3>4. QED
        BY <3>1, <3>2, <3>3
    <2>5. asked[srv] + 1 = answered[srv] + Hand(srv) + Len(longer)
      BY <1>2, <2>2, <2>3
    <2>6. QED
      BY <1>1, <1>2, <2>1, <2>3, <2>4, <2>5 DEF PacketInv
  <1>5. QED
    BY <1>3, <1>4

(* tcp_server::frame pops the oldest packet. *)
LEMMA TakePacketPackets ==
    ASSUME TypeOK, NEW srv \in Servers, PacketInv(srv), TakePacket
    PROVE  PacketInv(srv)'
  <1> DEFINE from == FrameOrder[turn]
             q    == inQueue[srv]
  <1>1. /\ from \in Servers /\ inQueue[from] # <<>>
        /\ inQueue' = [inQueue EXCEPT ![from] = Tail(inQueue[from])]
        /\ popped' = Head(inQueue[from])
        /\ server = "frame" /\ server' = "handle"
        /\ UNCHANGED <<asked, answered, turn>>
    BY ServerTypes DEF TakePacket, Popped
  <1>2. /\ q \in Seq(Nat) /\ Len(q) \in Nat /\ asked[srv] \in Nat /\ answered[srv] \in Nat
    BY LenProperties DEF TypeOK
  <1>3. Hand(srv) = 0 /\ Hand(srv)' = IF srv = from THEN 1 ELSE 0
    BY <1>1 DEF Hand
  <1> HIDE DEF from
  <1>4. /\ asked[srv] = answered[srv] + Len(q)
        /\ \A i \in 1..Len(q) : q[i] = answered[srv] + i
    BY <1>2, <1>3 DEF PacketInv
  <1>5. CASE srv # from
    <2>1. inQueue'[srv] = inQueue[srv] /\ Hand(srv)' = 0
      BY <1>1, <1>3, <1>5 DEF TypeOK
    <2>2. QED
      BY <1>1, <1>3, <2>1 DEF PacketInv
  <1>6. CASE srv = from
    <2>1. /\ inQueue'[srv] = Tail(q) /\ popped' = Head(q) /\ q # <<>> /\ Hand(srv)' = 1
      BY <1>1, <1>3, <1>6 DEF TypeOK
    <2>2. /\ Len(Tail(q)) = Len(q) - 1
          /\ \A i \in 1..Len(Tail(q)) : Tail(q)[i] = q[i + 1]
          /\ Head(q) = q[1] /\ Len(q) \in Nat \ {0}
      BY <1>2, <2>1, HeadTailProperties, EmptySeq
    <2> HIDE DEF q
    <2>3. ASSUME NEW i \in 1..Len(Tail(q))
          PROVE  Tail(q)[i] = answered[srv] + 1 + i
      <3>1. i + 1 \in 1..Len(q)
        BY <2>2
      <3>2. Tail(q)[i] = answered[srv] + (i + 1)
        BY <2>2, <3>1, <1>4
      <3>3. QED
        BY <3>2, <1>2
    <2>4. asked[srv] = answered[srv] + 1 + Len(Tail(q)) /\ Head(q) = answered[srv] + 1
      BY <1>2, <1>4, <2>2
    <2>5. QED
      BY <1>1, <2>1, <2>3, <2>4 DEF PacketInv
  <1>7. QED
    BY <1>5, <1>6

(* The packet in hand is answered. *)
LEMMA HandlePackets ==
    ASSUME TypeOK, ThreadInv, NEW srv \in Servers, PacketInv(srv), Handle
    PROVE  PacketInv(srv)'
  <1> DEFINE at == FrameOrder[turn]
  <1>1. /\ server = "handle" /\ server' = "frame"
        /\ answered' = [answered EXCEPT ![at] = answered[at] + 1] /\ at \in Servers
        /\ UNCHANGED <<inQueue, asked>>
    BY HandleSends DEF Handle
  <1>2. Hand(srv) = (IF srv = at THEN 1 ELSE 0) /\ Hand(srv)' = 0
    BY <1>1 DEF Hand
  <1> HIDE DEF at
  <1>3. answered[srv] \in Nat /\ answered'[srv] = answered[srv] + Hand(srv)
    BY <1>1, <1>2 DEF TypeOK
  <1>4. answered'[srv] + Hand(srv)' = answered[srv] + Hand(srv)
    BY <1>2, <1>3
  <1>5. QED
    BY <1>1, <1>2, <1>4 DEF PacketInv

LEMMA PacketStep ==
    ASSUME TypeOK, ThreadInv, [Next]_vars, NEW srv \in Servers, PacketInv(srv)
    PROVE  PacketInv(srv)'
  <1>1. ASSUME UNCHANGED <<inQueue, asked, answered, server, turn, popped>>
        PROVE  PacketInv(srv)'
    BY <1>1, PacketsKept DEF Hand
  <1>2. ASSUME NEW th \in Threads, Looks(th)
        PROVE  PacketInv(srv)'
    BY <1>2, <1>1, LooksProperties DEF queues, thread
  <1>3. CASE \/ \E s \in Handles : Socket(s)
             \/ \E s \in Handles, th \in Threads, to \in Servers : Connect(th, s, to)
             \/ \E s \in Handles, th \in Threads, block \in BOOLEAN : IoctlSocket(th, s, block)
             \/ \E th \in Threads, s \in Handles : CloseSocket(th, s)
             \/ \E th \in Threads : CloseStep(th)
             \/ \E th \in Threads : HandleOutput(th)
             \/ UNCHANGED vars
    <2>1. UNCHANGED <<inQueue, asked, answered, server, turn, popped>>
      BY <1>3 DEF Socket, Connect, IoctlSocket, CloseSocket, CloseStep, HandleOutput, vars,
                  queues, thread
    <2>2. QED
      BY <2>1, <1>1
  <1>4. CASE ResetExit \/ TestExit \/ LeaveServer \/ EndRound
    <2>1. /\ UNCHANGED <<inQueue, asked, answered, popped>>
          /\ server # "handle" /\ server' # "handle"
      BY <1>4 DEF ResetExit, TestExit, LeaveServer, EndRound, queues, ExitSeen
    <2>2. Hand(srv)' = Hand(srv)
      BY <2>1 DEF Hand
    <2>3. QED
      BY <2>1, <2>2, PacketsKept
  <1>5. CASE Lives
    <2>1. /\ UNCHANGED <<inQueue, asked, answered, turn, popped>>
          /\ server' = server \/ (server = "none" /\ server' = "created")
      BY <1>5, LivesProperties DEF queues
    <2>2. Hand(srv)' = Hand(srv)
      BY <2>1 DEF Hand
    <2>3. QED
      BY <2>1, <2>2, PacketsKept
  <1>6. QED
    BY <1>2, <1>3, <1>4, <1>5, NextGroups, HandleInputPackets, TakePacketPackets, HandlePackets

(* By position or as a whole: what waits is numbered on from the answered ones. *)
LEMMA PacketInvMeans ==
    ASSUME TypeOK, \A srv \in Servers : PacketInv(srv)
    PROVE  EveryPacketOnce
  <1> SUFFICES ASSUME NEW srv \in Servers
               PROVE  InHand(srv) \o inQueue[srv]
                         = [i \in 1..asked[srv] - answered[srv] |-> answered[srv] + i]
    BY DEF EveryPacketOnce
  <1> DEFINE q == inQueue[srv]
             h == InHand(srv)
             all == h \o q
             k == answered[srv]
             n == asked[srv] - answered[srv]
  <1>1. /\ q \in Seq(Nat) /\ Len(q) \in Nat /\ k \in Nat /\ asked[srv] \in Nat
        /\ asked[srv] = k + Hand(srv) + Len(q)
        /\ \A i \in 1..Len(q) : q[i] = k + Hand(srv) + i
        /\ Hand(srv) = 1 => popped = k + 1
        /\ Hand(srv) \in {0, 1}
    BY LenProperties DEF TypeOK, PacketInv, Hand
  <1>2. CASE Hand(srv) = 0
    <2>1. h = <<>>
      BY <1>2 DEF Hand, InHand
    <2>2. all = q
      BY <1>1, <2>1, ConcatEmptySeq
    <2> HIDE DEF h, q, k, all
    <2>3. n \in Nat /\ Len(q) = n /\ \A i \in 1..n : q[i] = k + i
      BY <1>1, <1>2 DEF k
    <2>4. q = [i \in 1..n |-> k + i]
      BY <1>1, <2>3, NumbersAreEqual
    <2>5. QED
      BY <2>2, <2>4 DEF all, h, q, k
  <1>3. CASE Hand(srv) = 1
    <2>1. h = <<k + 1>>
      BY <1>1, <1>3 DEF Hand, InHand
    <2>2. h \in Seq(Nat) /\ Len(h) = 1 /\ h[1] = k + 1
      BY <2>1, <1>1
    <2> HIDE DEF h, q, k
    <2>3. /\ h \o q \in Seq(Nat) /\ Len(h \o q) = Len(h) + Len(q)
          /\ \A i \in 1..Len(h \o q) :
                \/ i \in 1..Len(h) /\ (h \o q)[i] = h[i]
                \/ i - Len(h) \in 1..Len(q) /\ (h \o q)[i] = q[i - Len(h)]
      <3>1. h \in Seq(Nat) /\ q \in Seq(Nat)
        BY <1>1, <2>2
      <3>2. QED
        BY ONLY <3>1, ConcatFacts
    <2>4. /\ all \in Seq(Nat) /\ Len(all) = 1 + Len(q)
          /\ \A i \in 1..Len(all) : \/ i \in 1..1 /\ all[i] = h[i]
                                    \/ i - 1 \in 1..Len(q) /\ all[i] = q[i - 1]
      BY <2>2, <2>3
    <2> HIDE DEF all
    <2>5. n \in Nat /\ Len(all) = n
      BY <1>1, <1>3, <2>4 DEF k
    <2>6. ASSUME NEW i \in 1..n
          PROVE  all[i] = k + i
      <3>1. CASE i \in 1..1 /\ all[i] = h[i]
        BY <3>1, <2>2, <1>1
      <3>2. CASE i - 1 \in 1..Len(q) /\ all[i] = q[i - 1]
        <4>1. all[i] = k + 1 + (i - 1)
          BY <3>2, <1>1, <1>3
        <4>2. QED
          BY <4>1, <1>1, <2>5
      <3>3. QED
        BY <2>4, <2>5, <3>1, <3>2
    <2>7. all = [i \in 1..n |-> k + i]
      BY <1>1, <2>4, <2>5, <2>6, NumbersAreEqual
    <2>8. QED
      BY <2>7 DEF all, h, q, k
  <1>4. QED
    BY <1>1, <1>2, <1>3

-----------------------------------------------------------------------------
(* The bytes. *)

LEMMA BytesKept ==
    ASSUME NEW srv \in Servers, ByteInv(srv), UNCHANGED <<outQueue, sent, read>>
    PROVE  ByteInv(srv)'
  BY DEF ByteInv

(* recv moves the first bytes of the queue to the game. *)
LEMMA HandleOutputBytes ==
    ASSUME TypeOK, NEW srv \in Servers, ByteInv(srv), NEW th \in Threads, HandleOutput(th)
    PROVE  ByteInv(srv)'
  <1> DEFINE from == call[th].srv
             n == Smaller(call[th].len, Len(outQueue[from]))
             q == outQueue[from]
             r == read[from]
             taken == Copied(q, n)
             left  == Remaining(q, n)
  <1>1. /\ from \in Servers /\ n \in 0..Len(q) /\ q \in Seq(Nat) /\ r \in Seq(Nat)
        /\ taken \in Seq(Nat) /\ left \in Seq(Nat)
    BY HandleOutputTakes
  <1>2. /\ read' = [read EXCEPT ![from] = r \o taken]
        /\ outQueue' = [outQueue EXCEPT ![from] = left]
        /\ UNCHANGED sent
    BY DEF HandleOutput
  <1> HIDE DEF from, n
  <1>3. CASE srv # from
    <2>1. read'[srv] = read[srv] /\ outQueue'[srv] = outQueue[srv] /\ sent'[srv] = sent[srv]
      BY <1>1, <1>2, <1>3 DEF TypeOK
    <2>2. QED
      BY <2>1 DEF ByteInv
  <1>4. CASE srv = from
    <2>1. read'[srv] = r \o taken /\ outQueue'[srv] = left /\ sent'[srv] = sent[srv]
      BY <1>1, <1>2, <1>4 DEF TypeOK
    <2>2. /\ sent[srv] = Len(r) + Len(q)
          /\ \A i \in 1..Len(r) : r[i] = i
          /\ \A i \in 1..Len(q) : q[i] = Len(r) + i
      BY <1>4 DEF ByteInv
    <2>3. /\ Len(taken) = n /\ \A i \in 1..n : taken[i] = q[i]
          /\ Len(left) = Len(q) - n /\ \A i \in 1..Len(q) - n : left[i] = q[n + i]
      <3>1. q \in Seq(Nat) /\ n \in 0..Len(q)
        BY <1>1
      <3>2. taken = SubSeq(q, 1, n) /\ left = SubSeq(q, n + 1, Len(q))
        BY DEF Copied, Remaining
      <3> HIDE DEF q, taken, left
      <3>3. QED
        BY ONLY <3>1, <3>2, SplitProperties
    <2> HIDE DEF q, r, taken, left
    <2>4. /\ Len(r \o taken) = Len(r) + Len(taken)
          /\ \A i \in 1..Len(r \o taken) :
                \/ i \in 1..Len(r) /\ (r \o taken)[i] = r[i]
                \/ i - Len(r) \in 1..Len(taken) /\ (r \o taken)[i] = taken[i - Len(r)]
      BY <1>1, ConcatFacts
    <2>5. Len(r) \in Nat /\ Len(q) \in Nat
      BY <1>1, LenProperties
    <2>6. ASSUME NEW i \in 1..Len(r \o taken)
          PROVE  (r \o taken)[i] = i
      <3>1. CASE i \in 1..Len(r) /\ (r \o taken)[i] = r[i]
        BY <3>1, <2>2
      <3>2. CASE i - Len(r) \in 1..Len(taken) /\ (r \o taken)[i] = taken[i - Len(r)]
        <4>1. i - Len(r) \in 1..n /\ i - Len(r) \in 1..Len(q)
          BY <3>2, <2>3, <2>5, <1>1
        <4>2. (r \o taken)[i] = Len(r) + (i - Len(r))
          BY <3>2, <4>1, <2>2, <2>3
        <4>3. QED
          BY <4>2, <2>5, <2>4
      <3>3. QED
        BY <2>4, <3>1, <3>2
    <2>7. ASSUME NEW i \in 1..Len(left)
          PROVE  left[i] = Len(r \o taken) + i
      <3>1. n + i \in 1..Len(q) /\ i \in 1..Len(q) - n
        BY <2>3, <2>5, <1>1
      <3>2. left[i] = Len(r) + (n + i)
        BY <3>1, <2>2, <2>3
      <3>3. QED
        BY <3>2, <2>3, <2>4, <2>5, <1>1
    <2>8. sent[srv] = Len(r \o taken) + Len(left)
      BY <2>2, <2>3, <2>4, <2>5, <1>1
    <2>9. QED
      BY <2>1, <2>6, <2>7, <2>8 DEF ByteInv
  <1>5. QED
    BY <1>3, <1>4

(* tcp_server::send pushes the next bytes. *)
LEMMA HandleBytes ==
    ASSUME TypeOK, ThreadInv, NEW srv \in Servers, ByteInv(srv), Handle
    PROVE  ByteInv(srv)'
  <1> DEFINE at == FrameOrder[turn]
  <1>1. PICK n \in Nat :
           /\ outQueue' = [outQueue EXCEPT ![at] = @ \o [i \in 1..n |-> sent[at] + i]]
           /\ sent' = [sent EXCEPT ![at] = @ + n]
    BY HandleSends
  <1>2. /\ at \in Servers /\ sent[at] \in Nat /\ outQueue[at] \in Seq(Nat) /\ read' = read
    BY HandleSends DEF Handle
  <1> HIDE DEF at
  <1> DEFINE q == outQueue[at]
             new == [i \in 1..n |-> sent[at] + i]
             r == read[at]
  <1>3. outQueue' = [outQueue EXCEPT ![at] = q \o new] /\ sent' = [sent EXCEPT ![at] = sent[at] + n]
    BY <1>1
  <1>4. new \in Seq(Nat) /\ Len(new) = n /\ \A i \in 1..n : new[i] = sent[at] + i
    BY <1>2, NumbersProperties
  <1> HIDE DEF new
  <1>5. CASE srv # at
    <2>1. outQueue'[srv] = outQueue[srv] /\ sent'[srv] = sent[srv]
      BY <1>2, <1>3, <1>5 DEF TypeOK
    <2>2. QED
      BY <1>2, <2>1 DEF ByteInv
  <1>6. CASE srv = at
    <2>1. outQueue'[srv] = q \o new /\ sent'[srv] = sent[at] + n /\ read'[srv] = r
      BY <1>2, <1>3, <1>6 DEF TypeOK
    <2>2. /\ sent[at] = Len(r) + Len(q)
          /\ \A i \in 1..Len(r) : r[i] = i
          /\ \A i \in 1..Len(q) : q[i] = Len(r) + i
      BY <1>6 DEF ByteInv
    <2>3. r \in Seq(Nat) /\ Len(r) \in Nat /\ Len(q) \in Nat /\ q \in Seq(Nat)
      BY <1>2, LenProperties DEF TypeOK
    <2> HIDE DEF q, r
    <2>4. /\ Len(q \o new) = Len(q) + Len(new)
          /\ \A i \in 1..Len(q \o new) :
                \/ i \in 1..Len(q) /\ (q \o new)[i] = q[i]
                \/ i - Len(q) \in 1..Len(new) /\ (q \o new)[i] = new[i - Len(q)]
      <3>1. q \in Seq(Nat) /\ new \in Seq(Nat)
        BY <1>4, <2>3
      <3>2. QED
        BY ONLY <3>1, ConcatFacts
    <2>5. ASSUME NEW i \in 1..Len(q \o new)
          PROVE  (q \o new)[i] = Len(r) + i
      <3>1. CASE i \in 1..Len(q) /\ (q \o new)[i] = q[i]
        BY <3>1, <2>2
      <3>2. CASE i - Len(q) \in 1..Len(new) /\ (q \o new)[i] = new[i - Len(q)]
        <4>1. (q \o new)[i] = sent[at] + (i - Len(q))
          BY <3>2, <1>4
        <4>2. QED
          BY <4>1, <2>2, <2>3, <2>4
      <3>3. QED
        BY <2>4, <3>1, <3>2
    <2>6. sent[at] + n = Len(r) + Len(q \o new)
      BY <2>2, <2>3, <2>4, <1>4
    <2>7. QED
      BY <2>1, <2>2, <2>5, <2>6 DEF ByteInv
  <1>7. QED
    BY <1>5, <1>6

(* All other steps leave the queues out and what has been read alone. *)
LEMMA OutQueueKept ==
    ASSUME TypeOK, [Next]_vars, ~\E th \in Threads : HandleOutput(th), ~Handle
    PROVE  UNCHANGED <<outQueue, sent, read>>
  <1>1. ASSUME NEW th \in Threads, Looks(th)
        PROVE  UNCHANGED <<outQueue, sent, read>>
    BY <1>1, LooksProperties DEF queues
  <1>2. CASE Lives
    BY <1>2, LivesProperties DEF queues
  <1>3. CASE \/ \E s \in Handles : Socket(s)
             \/ \E s \in Handles, th \in Threads, to \in Servers : Connect(th, s, to)
             \/ \E s \in Handles, th \in Threads, block \in BOOLEAN : IoctlSocket(th, s, block)
             \/ \E th \in Threads, s \in Handles : CloseSocket(th, s)
             \/ \E th \in Threads : CloseStep(th)
             \/ \E th \in Threads : HandleInput(th)
             \/ ResetExit \/ TestExit \/ TakePacket \/ LeaveServer \/ EndRound
             \/ UNCHANGED vars
    BY <1>3 DEF Socket, Connect, IoctlSocket, CloseSocket, CloseStep, HandleInput, ResetExit,
                TestExit, TakePacket, LeaveServer, EndRound, vars, queues
  <1>4. QED
    BY <1>1, <1>2, <1>3, NextGroups

LEMMA ByteStep ==
    ASSUME TypeOK, ThreadInv, [Next]_vars, NEW srv \in Servers, ByteInv(srv)
    PROVE  ByteInv(srv)'
  BY OutQueueKept, BytesKept, HandleOutputBytes, HandleBytes

LEMMA ByteInvMeans ==
    ASSUME TypeOK, \A srv \in Servers : ByteInv(srv)
    PROVE  BytesInOrder
  <1> SUFFICES ASSUME NEW srv \in Servers
               PROVE  read[srv] \o outQueue[srv] = [i \in 1..sent[srv] |-> i]
    BY DEF BytesInOrder
  <1> DEFINE r == read[srv]
             q == outQueue[srv]
             n == sent[srv]
  <1>1. /\ r \in Seq(Nat) /\ q \in Seq(Nat) /\ n \in Nat
        /\ n = Len(r) + Len(q)
        /\ \A i \in 1..Len(r) : r[i] = i
        /\ \A i \in 1..Len(q) : q[i] = Len(r) + i
    BY DEF TypeOK, ByteInv
  <1>2. Len(r) \in Nat /\ Len(q) \in Nat
    BY <1>1, LenProperties
  <1> HIDE DEF r, q, n
  <1>3. /\ r \o q \in Seq(Nat) /\ Len(r \o q) = Len(r) + Len(q)
        /\ \A i \in 1..Len(r \o q) :
              \/ i \in 1..Len(r) /\ (r \o q)[i] = r[i]
              \/ i - Len(r) \in 1..Len(q) /\ (r \o q)[i] = q[i - Len(r)]
    BY <1>1, ConcatFacts
  <1>4. ASSUME NEW i \in 1..n
        PROVE  (r \o q)[i] = 0 + i
    <2>1. CASE i \in 1..Len(r) /\ (r \o q)[i] = r[i]
      BY <2>1, <1>1
    <2>2. CASE i - Len(r) \in 1..Len(q) /\ (r \o q)[i] = q[i - Len(r)]
      <3>1. (r \o q)[i] = Len(r) + (i - Len(r))
        BY <2>2, <1>1
      <3>2. QED
        BY <3>1, <1>2
    <2>3. \/ i \in 1..Len(r) /\ (r \o q)[i] = r[i]
          \/ i - Len(r) \in 1..Len(q) /\ (r \o q)[i] = q[i - Len(r)]
      BY <1>1, <1>3
    <2>4. QED
      BY <2>1, <2>2, <2>3
  <1>5. r \o q = [i \in 1..n |-> 0 + i]
    <2> DEFINE w == r \o q
    <2>1. w \in Seq(Nat) /\ n \in Nat /\ Len(w) = n /\ \A i \in 1..n : w[i] = 0 + i
      BY <1>1, <1>3, <1>4
    <2> HIDE DEF w
    <2>2. w = [i \in 1..n |-> 0 + i]
      BY <2>1, NumbersAreEqual
    <2> QED BY <2>2 DEF w
  <1>6. [i \in 1..n |-> 0 + i] = [i \in 1..n |-> i]
    OBVIOUS
  <1>7. QED
    BY <1>5, <1>6 DEF r, q, n

-----------------------------------------------------------------------------
(* What the unlocked tests found. *)

(* What a thread in call c believes of the queue of srv. *)
Believes(c, srv) ==
    \/ c.op = "recv" /\ c.checked /\ ~c.raced /\ c.srv = srv
    \/ c.op = "select" /\ srv \in c.ready \ c.drained

LEMMA ReadinessMeans ==
    /\ call \in [Threads -> Calls] =>
          (ReadinessHolds <=>
              \A th \in Threads, srv \in Servers : Believes(call[th], srv) => outQueue[srv] # <<>>)
    /\ call' \in [Threads -> Calls] =>
          (ReadinessHolds' <=>
              \A th \in Threads, srv \in Servers :
                  Believes(call'[th], srv) => outQueue'[srv] # <<>>)
  <1>1. ASSUME NEW c \in Calls, NEW Q
        PROVE  (/\ c.op = "recv" /\ c.checked /\ ~c.raced => Q[c.srv] # <<>>
                /\ c.op = "select" => \A srv \in c.ready \ c.drained : Q[srv] # <<>>)
                  <=> \A srv \in Servers : Believes(c, srv) => Q[srv] # <<>>
    BY CallTypes DEF Believes
  <1>2. QED
    BY <1>1 DEF ReadinessHolds

LEMMA IdleBelievesNothing ==
    ASSUME NEW c, c.op \notin {"recv", "select"}, NEW srv
    PROVE  ~Believes(c, srv)
  BY DEF Believes

(* The calls go on as they are, or believe nothing; the queues grow. *)
LEMMA ReadinessKept ==
    ASSUME TypeOK, call' \in [Threads -> Calls], ReadinessHolds,
           \A th \in Threads : call'[th] = call[th] \/ call'[th].op \notin {"recv", "select"},
           \A srv \in Servers : outQueue[srv] # <<>> => outQueue'[srv] # <<>>
    PROVE  ReadinessHolds'
  BY ReadinessMeans, IdleBelievesNothing DEF TypeOK

LEMMA LooksReadiness ==
    ASSUME TypeOK, call' \in [Threads -> Calls], ReadinessHolds, NEW th \in Threads, Looks(th)
    PROVE  ReadinessHolds'
  <1>1. PICK c \in Calls :
           /\ call' = [call EXCEPT ![th] = c]
           /\ UNCHANGED queues
           /\ \/ c.op \in {"none", "send"}
              \/ c.op = "recv" /\ ~c.checked
              \/ c.op = "recv" /\ outQueue[c.srv] # <<>>
              \/ c.op = "select" /\ \A srv \in c.ready : outQueue[srv] # <<>>
    BY LooksProperties
  <1>2. call'[th] = c /\ \A u \in Threads : u # th => call'[u] = call[u]
    BY <1>1, EnterProperties
  <1>3. \A srv \in Servers : Believes(c, srv) => outQueue[srv] # <<>>
    BY <1>1 DEF Believes
  <1>4. QED
    BY <1>1, <1>2, <1>3, ReadinessMeans DEF TypeOK, queues

(* A thread that takes bytes marks the others. *)
LEMMA HandleOutputReadiness ==
    ASSUME TypeOK, call' \in [Threads -> Calls], ReadinessHolds, NEW th \in Threads,
           HandleOutput(th)
    PROVE  ReadinessHolds'
  <1> DEFINE from == call[th].srv
             n    == Smaller(call[th].len, Len(outQueue[from]))
  <1>1. /\ from \in Servers
        /\ n \in 0..Len(outQueue[from]) /\ (n = 0 <=> outQueue[from] = <<>>)
    BY HandleOutputTakes
  <1>2. /\ \A u \in Threads : call'[u] = IF u = th THEN Idle
                                         ELSE IF n > 0 THEN Overtaken(call[u], from)
                                         ELSE call[u]
        /\ outQueue' = [outQueue EXCEPT ![from] = Remaining(outQueue[from], n)]
    BY DEF HandleOutput
  <1> HIDE DEF from, n
  <1>3. \A srv \in Servers : srv # from => outQueue'[srv] = outQueue[srv]
    BY <1>1, <1>2 DEF TypeOK
  <1>4. ASSUME NEW u \in Threads, NEW srv \in Servers, Believes(call'[u], srv)
        PROVE  outQueue'[srv] # <<>>
    <2>1. call[u] \in Calls
      BY DEF TypeOK
    <2>2. u # th
      BY <1>2, <1>4, IdleBelievesNothing, IdleIsACall
    <2>3. CASE n > 0
      <3>1. Believes(Overtaken(call[u], from), srv)
        BY <1>2, <1>4, <2>2, <2>3
      <3>2. srv # from /\ Believes(call[u], srv)
        <4>1. CASE call[u].op = "recv"
          <5> DEFINE c == call[u]
                     o == Overtaken(c, from)
          <5> HIDE DEF c, o
          <5>1. /\ o.op = "recv" /\ o.srv = c.srv /\ o.checked = c.checked
                /\ o.raced = (c.raced \/ (c.srv = from /\ c.checked))
            BY <1>1, <2>1, <4>1, OvertakenProperties DEF c, o
          <5>2. o.checked /\ ~o.raced /\ o.srv = srv
            BY <3>1, <5>1 DEF Believes, c, o
          <5>3. c.checked /\ ~(c.raced \/ (c.srv = from /\ c.checked)) /\ c.srv = srv
            BY <5>1, <5>2, Zenon
          <5>4. srv # from /\ c.op = "recv" /\ c.checked /\ ~c.raced /\ c.srv = srv
            BY <4>1, <5>3, Zenon DEF c
          <5>5. QED
            BY <5>4, Zenon DEF Believes, c
        <4>2. CASE call[u].op = "select"
          BY <1>1, <2>1, <3>1, <4>2, OvertakenProperties DEF Believes
        <4>3. CASE call[u].op \notin {"recv", "select"}
          BY <1>1, <2>1, <3>1, <4>3, OvertakenProperties DEF Believes
        <4>4. QED
          BY <4>1, <4>2, <4>3
      <3>3. QED
        BY <1>3, <3>2, ReadinessMeans DEF TypeOK
    <2>4. CASE ~(n > 0)
      <3>1. outQueue[from] = <<>>
        BY <1>1, <2>4
      <3>2. Believes(call[u], srv)
        BY <1>2, <1>4, <2>2, <2>4
      <3>3. outQueue[srv] # <<>>
        BY <3>2, ReadinessMeans DEF TypeOK
      <3>4. QED
        BY <1>3, <3>1, <3>3
    <2>5. QED
      BY <2>3, <2>4
  <1>5. QED
    BY <1>4, ReadinessMeans

LEMMA HandleReadiness ==
    ASSUME TypeOK, ThreadInv, call' \in [Threads -> Calls], ReadinessHolds, Handle
    PROVE  ReadinessHolds'
  <1> DEFINE at == FrameOrder[turn]
  <1>1. PICK n \in Nat : outQueue' = [outQueue EXCEPT ![at] = @ \o [i \in 1..n |-> sent[at] + i]]
    BY HandleSends
  <1>2. at \in Servers /\ sent[at] \in Nat /\ outQueue[at] \in Seq(Nat) /\ call' = call
    BY HandleSends DEF Handle
  <1> HIDE DEF at
  <1> DEFINE q == outQueue[at]
             new == [i \in 1..n |-> sent[at] + i]
  <1>3. outQueue' = [outQueue EXCEPT ![at] = q \o new] /\ new \in Seq(Nat) /\ q \in Seq(Nat)
    BY <1>1, <1>2, NumbersProperties
  <1> HIDE DEF new
  <1>4. q # <<>> => q \o new # <<>>
    BY <1>3, ConcatEqualIffEmpty
  <1>5. \A srv \in Servers : outQueue[srv] # <<>> => outQueue'[srv] # <<>>
    BY <1>2, <1>3, <1>4 DEF TypeOK
  <1>6. QED
    BY <1>2, <1>5, ReadinessKept

LEMMA ReadinessStep ==
    TypeOK /\ TypeOK' /\ ThreadInv /\ ReadinessHolds /\ [Next]_vars => ReadinessHolds'
  <1> SUFFICES ASSUME TypeOK, call' \in [Threads -> Calls], ThreadInv, ReadinessHolds, [Next]_vars
               PROVE  ReadinessHolds'
    BY DEF TypeOK
  <1>1. CASE (\E th \in Threads : HandleOutput(th)) \/ Handle \/ \E th \in Threads : Looks(th)
    BY <1>1, HandleOutputReadiness, HandleReadiness, LooksReadiness
  <1>2. CASE ~(\E th \in Threads : HandleOutput(th)) /\ ~Handle /\ ~\E th \in Threads : Looks(th)
    <2>1. outQueue' = outQueue
      BY <1>2, OutQueueKept
    <2>2. \A u \in Threads : call'[u] = call[u] \/ call'[u].op \notin {"recv", "select"}
      <3>1. ASSUME NEW th \in Threads, NEW c \in Calls, c.op \notin {"recv", "select"},
                   call' = [call EXCEPT ![th] = c]
            PROVE  \A u \in Threads : call'[u] = call[u] \/ call'[u].op \notin {"recv", "select"}
        BY <3>1, EnterProperties
      <3>2. ASSUME NEW th \in Threads, NEW s \in Handles, CloseSocket(th, s)
            PROVE  \A u \in Threads : call'[u] = call[u] \/ call'[u].op \notin {"recv", "select"}
        <4> DEFINE c == [op |-> "close", s |-> s, step |-> 1]
        <4>1. c \in Calls /\ call' = [call EXCEPT ![th] = c] /\ c.op = "close"
          BY <3>2, CloseSocketEnters
        <4> HIDE DEF c
        <4>2. QED
          BY <3>1, <4>1
      <3>3. ASSUME NEW th \in Threads, CloseStep(th)
            PROVE  \A u \in Threads : call'[u] = call[u] \/ call'[u].op \notin {"recv", "select"}
        <4>1. call'[th].op \in {"close", "none"} /\ \A u \in Threads : u # th => call'[u] = call[u]
          BY <3>3, CloseStepEffect, IdleIsACall
        <4>2. QED
          BY <4>1
      <3>4. ASSUME NEW th \in Threads, HandleInput(th)
            PROVE  \A u \in Threads : call'[u] = call[u] \/ call'[u].op \notin {"recv", "select"}
        <4>1. call' = [call EXCEPT ![th] = Idle]
          BY <3>4 DEF HandleInput, Leave
        <4>2. QED
          BY <3>1, <4>1, IdleIsACall
      <3>5. CASE Lives
        <4>1. [op |-> "destroy"] \in Calls
          BY DEF Calls
        <4>2. QED
          BY <3>1, <3>5, <4>1, LivesProperties
      <3>6. CASE \/ \E s \in Handles : Socket(s)
                 \/ \E s \in Handles, th \in Threads, to \in Servers : Connect(th, s, to)
                 \/ \E s \in Handles, th \in Threads, block \in BOOLEAN : IoctlSocket(th, s, block)
                 \/ ResetExit \/ TestExit \/ TakePacket \/ LeaveServer \/ EndRound
                 \/ UNCHANGED vars
        <4>1. call' = call
          BY <3>6 DEF Socket, Connect, IoctlSocket, ResetExit, TestExit, TakePacket, LeaveServer,
                      EndRound, vars
        <4>2. QED
          BY <4>1
      <3>7. QED
        BY <1>2, <3>2, <3>3, <3>4, <3>5, <3>6, NextGroups
    <2>3. QED
      BY <2>1, <2>2, ReadinessKept
  <1>3. QED
    BY <1>1, <1>2

-----------------------------------------------------------------------------
(* The inductive invariant, and what follows from it. *)

LEMMA InitIInv == Init => IInv
  <1> SUFFICES ASSUME Init PROVE IInv
    OBVIOUS
  <1>1. TypeOK /\ ThreadInv
    BY InitType
  <1>2. ClosingInv /\ UnusedInv /\ ReadinessHolds /\ MapsAreFresh
    BY IdleIsACall DEF Init, ClosingInv, UnusedInv, ReadinessHolds, MapsAreFresh
  <1>3. \A srv \in Servers : PacketInv(srv) /\ ByteInv(srv)
    BY EmptySeq DEF Init, PacketInv, ByteInv, Hand
  <1>4. QED
    BY <1>1, <1>2, <1>3 DEF IInv

LEMMA NextIInv == IInv /\ [Next]_vars => IInv'
  <1> SUFFICES ASSUME IInv, [Next]_vars PROVE IInv'
    OBVIOUS
  <1>1. TypeOK' /\ ThreadInv'
    BY TypeStep DEF IInv
  <1>2. MapInv'
    BY <1>1, MapStep DEF IInv, MapInv
  <1>3. ASSUME NEW srv \in Servers
        PROVE  PacketInv(srv)' /\ ByteInv(srv)'
    BY PacketStep, ByteStep DEF IInv
  <1>4. ReadinessHolds'
    BY <1>1, ReadinessStep DEF IInv
  <1>5. QED
    BY <1>1, <1>2, <1>3, <1>4 DEF IInv, MapInv

(* The inductive invariant behind the theorems below, for any threads,      *)
(* handles, servers and lengths.                                            *)
THEOREM Invariance == Spec => []IInv
  BY InitIInv, NextIInv, PTL DEF Spec

(* The variables have their types: among them that a thread handles a packet *)
(* only of a server of the registry.                                        *)
THEOREM TypeCorrect == Spec => []TypeOK
  <1>1. IInv => TypeOK
    BY DEF IInv
  <1>2. QED
    BY <1>1, Invariance, PTL

(* A handle the operating system gives out again has neither the server nor  *)
(* the blocking mode of its earlier life, whichever threads connect and      *)
(* close (closesocket_stub undoes both before it closes).                    *)
THEOREM HandlesStartAfresh == Spec => []MapsAreFresh
  <1>1. IInv => MapsAreFresh
    BY DEF IInv
  <1>2. QED
    BY <1>1, Invariance, PTL

(* Every server handles the packets sent to it in their order, each once.    *)
THEOREM PacketsOnce == Spec => []EveryPacketOnce
  <1>1. IInv => EveryPacketOnce
    BY PacketInvMeans DEF IInv
  <1>2. QED
    BY <1>1, Invariance, PTL

(* What the game reads of a server are its bytes in order, none twice and    *)
(* none missing, whatever the lengths of answers and buffers.                *)
THEOREM BytesOnce == Spec => []BytesInOrder
  <1>1. IInv => BytesInOrder
    BY ByteInvMeans DEF IInv
  <1>2. QED
    BY <1>1, Invariance, PTL

(* A test of pending_data made without the lock is still right when the      *)
(* thread acts on it, unless another thread has read from that server.       *)
THEOREM UnlockedTestsHold == Spec => []ReadinessHolds
  <1>1. IInv => ReadinessHolds
    BY DEF IInv
  <1>2. QED
    BY <1>1, Invariance, PTL

-----------------------------------------------------------------------------
(* Servers that answer. *)

LEMMA PromiseInit == Init => Promise!Init
  BY DEF Init, Promise!Init

LEMMA HandleInputAsks ==
    ASSUME TypeOK, NEW th \in Threads, HandleInput(th)
    PROVE  Promise!Next
  <1>1. call[th].srv \in Servers /\ Promise!Ask(call[th].srv)
    BY CallTypes DEF HandleInput, TypeOK, Promise!Ask
  <1>2. QED
    BY <1>1 DEF Promise!Next

(* A packet that is handled has been asked for. *)
LEMMA HandleReplies ==
    ASSUME TypeOK, ThreadInv, \A srv \in Servers : PacketInv(srv), Handle
    PROVE  Promise!Next
  <1> DEFINE srv == FrameOrder[turn]
  <1>1. srv \in Servers
    BY HandleSends
  <1>2. Hand(srv) = 1 /\ Len(inQueue[srv]) \in Nat
    BY <1>1, LenProperties DEF Handle, Hand, TypeOK
  <1>3. answered[srv] < asked[srv]
    BY <1>1, <1>2 DEF PacketInv, TypeOK
  <1>4. Promise!Reply(srv)
    BY <1>3 DEF Handle, Promise!Reply
  <1>5. QED
    BY <1>1, <1>4 DEF Promise!Next

(* The bytes handed to the game are the next ones. *)
LEMMA HandleOutputReads ==
    ASSUME TypeOK, \A srv \in Servers : ByteInv(srv), NEW th \in Threads, HandleOutput(th)
    PROVE  Promise!Next \/ UNCHANGED <<asked, answered, sent, read>>
  <1> DEFINE srv == call[th].srv
             n == Smaller(call[th].len, Len(outQueue[srv]))
             q == outQueue[srv]
             r == read[srv]
             taken == Copied(q, n)
  <1>1. /\ srv \in Servers /\ n \in 0..Len(q) /\ q \in Seq(Nat) /\ r \in Seq(Nat)
        /\ taken \in Seq(Nat)
    BY HandleOutputTakes
  <1>2. read' = [read EXCEPT ![srv] = r \o taken] /\ UNCHANGED <<asked, answered, sent>>
    BY DEF HandleOutput
  <1> HIDE DEF srv, n
  <1>3. /\ sent[srv] = Len(r) + Len(q)
        /\ \A i \in 1..Len(q) : q[i] = Len(r) + i
        /\ Len(r) \in Nat /\ Len(q) \in Nat /\ n \in Nat
    <2>1. ByteInv(srv)
      BY <1>1
    <2>2. Len(r) \in Nat /\ Len(q) \in Nat
      BY <1>1, LenProperties
    <2>3. n \in Nat
      BY <1>1, <2>2
    <2>4. QED
      BY <2>1, <2>2, <2>3, Zenon DEF ByteInv
  <1>4. Len(taken) = n /\ \A i \in 1..n : taken[i] = q[i]
    <2>1. q \in Seq(Nat) /\ n \in 0..Len(q)
      BY <1>1
    <2>2. taken = SubSeq(q, 1, n)
      BY DEF Copied
    <2> HIDE DEF q, taken
    <2>3. QED
      BY ONLY <2>1, <2>2, SplitProperties
  <1> HIDE DEF q, taken
  <1>5. \A i \in 1..n : taken[i] = Len(r) + i
    <2>1. \A i \in 1..n : i \in 1..Len(q)
      BY <1>1, <1>3
    <2>2. QED
      BY <1>3, <1>4, <2>1, Zenon
  <1>6. taken = [i \in 1..n |-> Len(r) + i]
    BY <1>1, <1>3, <1>4, <1>5, NumbersAreEqual
  <1>7. CASE n = 0
    <2>1. taken = <<>>
      BY <1>1, <1>4, <1>7, EmptySeq
    <2>2. r \o taken = r
      BY <1>1, <2>1, ConcatEmptySeq
    <2>3. read' = read
      BY <1>1, <1>2, <2>2 DEF TypeOK
    <2>4. QED
      BY <1>2, <2>3
  <1>8. CASE n # 0
    <2>1. n \in 1..sent[srv] - Len(r)
      BY <1>1, <1>3, <1>8
    <2>2. read' = [read EXCEPT ![srv] = r \o [i \in 1..n |-> Len(r) + i]]
      BY <1>2, <1>6
    <2>3. Promise!Read(srv)
      BY <1>2, <2>1, <2>2 DEF Promise!Read
    <2>4. QED
      BY <1>1, <2>3 DEF Promise!Next
  <1>9. QED
    BY <1>7, <1>8

LEMMA PromiseStep ==
    IInv /\ [Next]_vars => [Promise!Next]_<<asked, answered, sent, read>>
  <1> SUFFICES ASSUME IInv, [Next]_vars
               PROVE  Promise!Next \/ UNCHANGED <<asked, answered, sent, read>>
    OBVIOUS
  <1>1. CASE (\E th \in Threads : HandleOutput(th) \/ HandleInput(th)) \/ Handle
    BY <1>1, HandleOutputReads, HandleInputAsks, HandleReplies DEF IInv
  <1>2. CASE ~(\E th \in Threads : HandleOutput(th) \/ HandleInput(th)) /\ ~Handle
    <2>1. UNCHANGED <<outQueue, sent, read>>
      BY <1>2, OutQueueKept DEF IInv
    <2>2. UNCHANGED <<asked, answered>>
      <3>1. ASSUME NEW th \in Threads, Looks(th)
            PROVE  UNCHANGED <<asked, answered>>
        BY <3>1, LooksProperties DEF IInv, queues
      <3>2. CASE Lives
        BY <3>2, LivesProperties DEF IInv, queues
      <3>3. CASE \/ \E s \in Handles : Socket(s)
                 \/ \E s \in Handles, th \in Threads, to \in Servers : Connect(th, s, to)
                 \/ \E s \in Handles, th \in Threads, block \in BOOLEAN : IoctlSocket(th, s, block)
                 \/ \E th \in Threads, s \in Handles : CloseSocket(th, s)
                 \/ \E th \in Threads : CloseStep(th)
                 \/ ResetExit \/ TestExit \/ TakePacket \/ LeaveServer \/ EndRound
                 \/ UNCHANGED vars
        BY <3>3 DEF Socket, Connect, IoctlSocket, CloseSocket, CloseStep, ResetExit, TestExit,
                    TakePacket, LeaveServer, EndRound, vars, queues
      <3>4. QED
        BY <1>2, <3>1, <3>2, <3>3, NextGroups
    <2>3. QED
      BY <2>1, <2>2
  <1>3. QED
    BY <1>1, <1>2

(* To the game the socket map, the queues and the thread are servers that    *)
(* answer its packets one after the other and whose bytes arrive in order.   *)
THEOREM Refinement == Spec => ImplementsRequestReply
  BY PromiseInit, PromiseStep, Invariance, PTL DEF Spec, ImplementsRequestReply, Promise!Spec
==============================================================================
