-------------------------- MODULE DemonwareUdpProofs --------------------------
(***************************************************************************)
(* DemonwareUdp, for any threads, sockets and servers and any number of    *)
(* packets: every discovery has its one answer, the answers of one server  *)
(* to one socket are taken in the order of the questions, and an answer is *)
(* lost only to one of a later server.                                     *)
(*                                                                         *)
(* The argument: packets are numbered as they are sent, so every queue is  *)
(* increasing, and of two packets of one server the later one waits at     *)
(* least as long (WaitInv).  An answer is made when its question no longer *)
(* waits, and moves from the queue to a call, and on to what was received  *)
(* or lost, without being at two places (PlaceInv).                        *)
(***************************************************************************)
EXTENDS DemonwareUdp, SequenceFacts, FiniteSetTheorems, TLAPS

Increasing(q) == \A i, j \in DOMAIN q : i < j => q[i] < q[j]

(* A number greater than all others goes to the end of an increasing       *)
(* sequence (queue.push of handle_input and send).                         *)
LEMMA AppendIncreasing ==
    ASSUME NEW q \in Seq(Nat), Increasing(q), NEW k \in Nat, \A x \in ToSet(q) : x < k
    PROVE  Increasing(Append(q, k)) /\ ToSet(Append(q, k)) = ToSet(q) \cup {k}
<1>1. /\ Append(q, k) \in Seq(Nat) /\ Len(q) \in Nat
      /\ DOMAIN q = 1..Len(q) /\ DOMAIN Append(q, k) = 1..Len(q) + 1
      /\ \A j \in 1..Len(q) : Append(q, k)[j] = q[j]
      /\ Append(q, k)[Len(q) + 1] = k
      /\ \A j \in 1..Len(q) : q[j] \in Nat
  BY AppendFacts, DomainOfSeq
<1> DEFINE r == Append(q, k)
<1> HIDE DEF r
<1>2. Increasing(r)
  <2> SUFFICES ASSUME NEW i \in 1..Len(q) + 1, NEW j \in 1..Len(q) + 1, i < j
               PROVE  r[i] < r[j]
    BY <1>1 DEF Increasing, r
  <2>1. CASE j = Len(q) + 1
    <3>1. i \in 1..Len(q)
      BY <1>1, <2>1
    <3>2. q[i] \in ToSet(q)
      BY <1>1, <3>1 DEF ToSet
    <3> QED BY <1>1, <2>1, <3>1, <3>2 DEF r
  <2>2. CASE j # Len(q) + 1
    <3>1. i \in 1..Len(q) /\ j \in 1..Len(q)
      BY <1>1, <2>2
    <3> QED BY <1>1, <3>1 DEF Increasing, r
  <2> QED BY <2>1, <2>2
<1>3. ToSet(r) = ToSet(q) \cup {k}
  <2>1. ASSUME NEW x \in ToSet(r) PROVE x \in ToSet(q) \cup {k}
    <3>1. PICK i \in 1..Len(q) + 1 : x = r[i]
      BY <1>1, <2>1 DEF ToSet, r
    <3>2. CASE i = Len(q) + 1
      BY <1>1, <3>1, <3>2 DEF r
    <3>3. CASE i \in 1..Len(q)
      BY <1>1, <3>1, <3>3 DEF ToSet, r
    <3> QED BY <1>1, <3>2, <3>3
  <2>2. ASSUME NEW x \in ToSet(q) PROVE x \in ToSet(r)
    <3>1. PICK i \in 1..Len(q) : x = q[i]
      BY <1>1, <2>2 DEF ToSet
    <3>2. r[i] = x /\ i \in DOMAIN r
      BY <1>1, <3>1 DEF r
    <3> QED BY <3>2 DEF ToSet
  <2>3. k \in ToSet(r)
    <3>1. Len(q) + 1 \in DOMAIN r /\ r[Len(q) + 1] = k
      BY <1>1 DEF r
    <3> QED BY <3>1 DEF ToSet
  <2> QED BY <2>1, <2>2, <2>3
<1> QED BY <1>2, <1>3 DEF r

(* The first of an increasing sequence is its least, and taking it away    *)
(* leaves the others (queue.pop).                                          *)
LEMMA FirstIsLeast ==
    ASSUME NEW q \in Seq(Nat), Increasing(q), q # <<>>, NEW r \in Seq(Nat),
           Len(r) = Len(q) - 1, \A j \in 1..Len(r) : r[j] = q[j + 1]
    PROVE  /\ q[1] \in ToSet(q)
           /\ \A x \in ToSet(q) : x = q[1] \/ q[1] < x
           /\ Increasing(r)
           /\ ToSet(r) = ToSet(q) \ {q[1]}
<1>1. /\ Len(q) \in Nat /\ Len(q) # 0 /\ DOMAIN q = 1..Len(q) /\ DOMAIN r = 1..Len(r)
      /\ \A j \in 1..Len(q) : q[j] \in Nat
      /\ \A i, j \in 1..Len(q) : i < j => q[i] < q[j]
  <2>1. DOMAIN q = 1..Len(q) /\ Len(q) \in Nat /\ DOMAIN r = 1..Len(r)
    BY DomainOfSeq
  <2>2. Len(q) # 0
    BY EmptySeq, <2>1
  <2>3. \A j \in 1..Len(q) : q[j] \in Nat
    BY <2>1
  <2>4. \A i, j \in 1..Len(q) : i < j => q[i] < q[j]
    BY <2>1, Zenon DEF Increasing
  <2> QED BY <2>1, <2>2, <2>3, <2>4
<1>2. q[1] \in ToSet(q)
  <2>1. 1 \in DOMAIN q
    BY <1>1
  <2> QED BY <2>1, Zenon DEF ToSet
<1>3. \A x \in ToSet(q) : x = q[1] \/ q[1] < x
  <2> SUFFICES ASSUME NEW i \in DOMAIN q PROVE q[i] = q[1] \/ q[1] < q[i]
    BY Zenon DEF ToSet
  <2>1. i \in 1..Len(q) /\ 1 \in 1..Len(q) /\ (i = 1 \/ 1 < i)
    BY <1>1
  <2> QED BY <1>1, <2>1, Zenon
<1>4. Increasing(r)
  <2> SUFFICES ASSUME NEW i \in 1..Len(r), NEW j \in 1..Len(r), i < j
               PROVE  r[i] < r[j]
    BY <1>1 DEF Increasing
  <2>1. i + 1 \in 1..Len(q) /\ j + 1 \in 1..Len(q) /\ i + 1 < j + 1
    BY <1>1
  <2> QED BY <1>1, <2>1
<1>5. ToSet(r) = ToSet(q) \ {q[1]}
  <2>1. ASSUME NEW x \in ToSet(r) PROVE x \in ToSet(q) \ {q[1]}
    <3>1. PICK i \in 1..Len(r) : x = r[i]
      BY <1>1, <2>1 DEF ToSet
    <3>2. i + 1 \in 1..Len(q) /\ x = q[i + 1] /\ 1 < i + 1 /\ 1 \in 1..Len(q)
      <4>1. i \in 1..(Len(q) - 1) /\ Len(q) \in Nat /\ x = q[i + 1]
        BY <1>1, <3>1
      <4> QED BY <4>1
    <3>3. q[1] < x /\ q[1] \in Nat /\ x \in Nat
      BY <1>1, <3>2
    <3>4. x \in ToSet(q)
      BY <1>1, <3>2 DEF ToSet
    <3> QED BY <3>3, <3>4
  <2>2. ASSUME NEW x \in ToSet(q), x # q[1] PROVE x \in ToSet(r)
    <3>1. PICK i \in 1..Len(q) : x = q[i]
      BY <1>1, <2>2 DEF ToSet
    <3>2. i - 1 \in 1..Len(r)
      BY <1>1, <2>2, <3>1
    <3>3. r[i - 1] = x
      <4>1. r[i - 1] = q[(i - 1) + 1] /\ (i - 1) + 1 = i
        BY <3>2
      <4> QED BY <3>1, <4>1
    <3> QED BY <1>1, <3>2, <3>3 DEF ToSet
  <2> QED BY <2>1, <2>2
<1> QED BY <1>2, <1>3, <1>4, <1>5

------------------------------------------------------------------------------
(* Types                                                                   *)

(* The list of servers can be visited from the first to the last. *)
LEMMA OrderFacts ==
    /\ Len(Order) \in Nat \ {0} /\ DOMAIN Order = 1..Len(Order)
    /\ \A i \in DOMAIN Order : Order[i] \in Servers
    /\ \A srv \in Servers : \E i \in DOMAIN Order : Order[i] = srv
<1>1. DOMAIN Order = 1..Len(Order) /\ Len(Order) \in Nat
  BY UdpAssumption, DomainOfSeq DEF UdpAssumption
<1>2. Len(Order) # 0
  BY UdpAssumption, EmptySeq DEF UdpAssumption
<1> QED BY <1>1, <1>2 DEF Servers

(* Nothing is asked, queued or read at first. *)
LEMMA TypeInit == Init => TypeOK
<1> SUFFICES ASSUME Init PROVE TypeOK
  OBVIOUS
<1>1. 0 \in 0..MaxPackets /\ 1 \in DOMAIN Order
  BY OrderFacts, UdpAssumption DEF UdpAssumption
<1> QED BY <1>1 DEF Init, TypeOK, Calls, Idle

(* A recvfrom under way goes on to the next server, or notes that a server *)
(* has something for its socket.                                           *)
LEMMA CallFacts ==
    ASSUME NEW c \in Calls, c # Idle
    PROVE  /\ c.s \in Sockets /\ c.at \in 1..Len(Order) + 1 /\ c.pending \in BOOLEAN
           /\ c.result \in Packets \cup {None}
           /\ c = [s |-> c.s, at |-> c.at, pending |-> c.pending, result |-> c.result]
  BY DEF Calls

LEMMA NextCallFacts ==
    ASSUME NEW c \in Calls, c # Idle, c.at \in DOMAIN Order, NEW k \in Packets \cup {None}
    PROVE  /\ [c EXCEPT !.pending = TRUE] \in Calls
           /\ [c EXCEPT !.at = c.at + 1] \in Calls
           /\ [s |-> c.s, at |-> c.at + 1, pending |-> FALSE, result |-> k] \in Calls
<1>1. PICK s \in Sockets, at \in 1..Len(Order) + 1, pending \in BOOLEAN,
           result \in Packets \cup {None} :
              c = [s |-> s, at |-> at, pending |-> pending, result |-> result]
  BY DEF Calls
<1>2. c.at = at /\ at + 1 \in 1..Len(Order) + 1
  BY <1>1, OrderFacts
<1>3. [c EXCEPT !.pending = TRUE] = [s |-> s, at |-> at, pending |-> TRUE, result |-> result]
  <2>1. \A v \in BOOLEAN : [c EXCEPT !.pending = v]
           = [s |-> s, at |-> at, pending |-> v, result |-> result]
    BY <1>1
  <2> QED BY <2>1, Zenon
<1>4. [c EXCEPT !.at = c.at + 1]
         = [s |-> s, at |-> at + 1, pending |-> pending, result |-> result]
  BY <1>1, <1>2
<1>5. [s |-> s, at |-> at + 1, pending |-> FALSE, result |-> k] \in Calls
  BY <1>2 DEF Calls
<1> QED BY <1>1, <1>2, <1>3, <1>4, <1>5 DEF Calls

(* Every call keeps the types; a recvfrom visits the servers in order. *)
LEMMA TypeStep == TypeOK /\ [Next]_vars => TypeOK'
<1> SUFFICES ASSUME TypeOK, [Next]_vars PROVE TypeOK'
  OBVIOUS
<1> USE DEF TypeOK
<1>0. /\ MaxPackets \in Nat /\ Packets = 1..MaxPackets
      /\ Order[turn] \in Servers
  BY OrderFacts, UdpAssumption DEF UdpAssumption, Packets
<1>1. ASSUME NEW th \in Threads, NEW s \in Sockets, NEW srv \in Servers, NEW type \in Types,
             SendTo(th, s, srv, type)
      PROVE  TypeOK'
  <2>1. asked + 1 \in Packets /\ asked' \in 0..MaxPackets
    BY <1>0, <1>1 DEF SendTo
  <2>2. packet' \in [Packets -> [srv : Servers, s : Sockets, type : Types] \cup {None}]
    BY <1>1 DEF SendTo
  <2>3. inQueue' \in [Servers -> Seq(Packets)]
    <3>1. Append(inQueue[srv], asked + 1) \in Seq(Packets)
      BY <2>1
    <3> QED BY <1>1, <3>1 DEF SendTo
  <2> QED BY <1>1, <2>1, <2>2, <2>3 DEF SendTo
<1>2. CASE PopPacket
  <2>1. /\ Head(inQueue[Order[turn]]) \in Packets
        /\ Tail(inQueue[Order[turn]]) \in Seq(Packets)
    BY <1>0, <1>2, HeadTailProperties DEF PopPacket
  <2> QED BY <1>2, <2>1 DEF PopPacket
<1>3. CASE NextServer
  BY <1>3, OrderFacts DEF NextServer, After
<1>4. CASE HandlePacket
  <2>1. outQueue' \in [Servers -> [Sockets -> Seq(Packets)]]
    <3>1. CASE outQueue' = outQueue
      BY <3>1
    <3>2. CASE outQueue' = [outQueue EXCEPT ![Order[turn]][ReplyTo(popped)] = Append(@, popped)]
      <4>1. popped \in Packets
        BY <1>4 DEF HandlePacket
      <4>2. \A s \in Sockets : Append(outQueue[Order[turn]][s], popped) \in Seq(Packets)
        BY <1>0, <4>1
      <4> QED BY <3>2, <4>2
    <3> QED BY <1>4, <3>1, <3>2 DEF HandlePacket
  <2> QED BY <1>4, <2>1 DEF HandlePacket
<1>5. ASSUME NEW th \in Threads, NEW s \in Sockets, RecvFrom(th, s) PROVE TypeOK'
  <2>1. [s |-> s, at |-> 1, pending |-> FALSE, result |-> None] \in Calls
    BY OrderFacts DEF Calls
  <2> QED BY <1>5, <2>1 DEF RecvFrom
<1>6. ASSUME NEW th \in Threads, PendingData(th) PROVE TypeOK'
  <2>1. call[th] \in Calls \ {Idle} /\ call[th].at \in 1..Len(Order)
    BY <1>6, OrderFacts DEF PendingData, Visiting
  <2>2. /\ [call[th] EXCEPT !.pending = TRUE] \in Calls
        /\ [call[th] EXCEPT !.at = @ + 1] \in Calls
    BY <2>1, OrderFacts, NextCallFacts
  <2>3. call' \in [Threads -> Calls]
    BY <1>6, <2>2 DEF PendingData
  <2> QED BY <1>6, <2>3 DEF PendingData
<1>7. ASSUME NEW th \in Threads, HandleOutput(th) PROVE TypeOK'
  <2>1. call[th] \in Calls \ {Idle} /\ call[th].at \in 1..Len(Order)
    BY <1>7, OrderFacts DEF HandleOutput, Visiting
  <2>2. call[th].s \in Sockets /\ call[th].result \in Packets \cup {None}
    BY <2>1 DEF Calls
  <2> DEFINE srv == Order[call[th].at]
             s   == call[th].s
             q   == outQueue[srv][s]
             new == IF q = <<>> THEN None ELSE q[Oldest(q)]
  <2>3. srv \in Servers /\ q \in Seq(Packets)
    BY <2>1, <2>2, OrderFacts
  <2>4. /\ outQueue' = IF q = <<>> THEN outQueue
                       ELSE [outQueue EXCEPT ![srv][s] = Popped(@)]
        /\ call' = [call EXCEPT ![th] = [s |-> s, at |-> @.at + 1, pending |-> FALSE,
                                         result |-> new]]
        /\ lost' = lost \cup ({call[th].result} \ {None})
        /\ UNCHANGED <<asked, packet, inQueue, turn, popped, received>>
    BY <1>7, Zenon DEF HandleOutput
  <2> HIDE DEF srv, s
  <2>5. q # <<>> => q[1] \in Packets /\ Popped(q) \in Seq(Packets)
    <3> SUFFICES ASSUME q # <<>> PROVE q[1] \in Packets /\ Popped(q) \in Seq(Packets)
      OBVIOUS
    <3>1. 1 \in 1..Len(q) /\ DOMAIN q = 1..Len(q)
      BY <2>3, EmptySeq, DomainOfSeq
    <3> HIDE DEF q
    <3> QED BY <2>3, <3>1, EraseFacts DEF Popped, Oldest
  <2>6. outQueue' \in [Servers -> [Sockets -> Seq(Packets)]]
    BY <2>2, <2>3, <2>4, <2>5 DEF s
  <2>7. new \in Packets \cup {None}
    BY <2>5 DEF Oldest
  <2> HIDE DEF new, q
  <2>8. call' \in [Threads -> Calls]
    <3>1. [s |-> s, at |-> call[th].at + 1, pending |-> FALSE, result |-> new] \in Calls
      BY <2>1, <2>7, OrderFacts, NextCallFacts DEF s
    <3> QED BY <2>4, <3>1
  <2> QED BY <2>2, <2>4, <2>6, <2>8
<1>8. ASSUME NEW th \in Threads, RecvReturns(th) PROVE TypeOK'
  <2>1. call[th] \in Calls \ {Idle}
    BY <1>8 DEF RecvReturns
  <2>2. call[th].s \in Sockets /\ call[th].result \in Packets \cup {None}
    BY <2>1 DEF Calls
  <2>3. received' \in [Sockets -> Seq(Packets)]
    <3>1. CASE call[th].result = None
      BY <1>8, <3>1 DEF RecvReturns
    <3>2. CASE call[th].result # None
      <4>1. Append(received[call[th].s], call[th].result) \in Seq(Packets)
        BY <2>2, <3>2
      <4> QED BY <1>8, <3>2, <4>1 DEF RecvReturns
    <3> QED BY <3>1, <3>2
  <2> QED BY <1>8, <2>3 DEF RecvReturns, Calls
<1>9. CASE UNCHANGED vars
  BY <1>9 DEF vars
<1> QED BY <1>1, <1>2, <1>3, <1>4, <1>5, <1>6, <1>7, <1>8, <1>9, Zenon DEF Next

------------------------------------------------------------------------------
(* Waiting                                                                 *)

(* The queues in are in the order of asking, what is popped came first,    *)
(* and of two packets of a server the later one waits at least as long.    *)
WaitInv ==
    /\ \A k \in Asked : packet[k] \in [srv : Servers, s : Sockets, type : Types]
    /\ \A srv \in Servers : Increasing(inQueue[srv])
    /\ \A srv \in Servers : \A k \in ToSet(inQueue[srv]) : k \in Asked /\ packet[k].srv = srv
    /\ popped # None =>
          /\ popped \in Asked /\ packet[popped].srv = Order[turn]
          /\ \A k \in ToSet(inQueue[Order[turn]]) : popped < k
    /\ \A j, k \in Asked :
          packet[j].srv = packet[k].srv /\ j < k /\ Waiting(j) => Waiting(k)

(* What a step does to the packets: none is changed or forgotten, a new    *)
(* one waits, and only the one that is handled ceases to.                  *)
WaitChange ==
    /\ \A k \in Asked : /\ k \in Asked' /\ packet'[k] = packet[k]
                        /\ Waiting(k)' <=> Waiting(k) /\ (popped = k => popped' = k)
    /\ \A k \in Asked' : k \in Asked \/ Waiting(k)'

(* The numbers of packets are numbers. *)
LEMMA AskedFacts ==
    ASSUME TypeOK
    PROVE  /\ asked \in Nat /\ MaxPackets \in Nat /\ Packets \subseteq Nat
           /\ Asked \subseteq Packets /\ None \notin Asked
           /\ \A srv \in Servers : inQueue[srv] \in Seq(Nat)
           /\ Order[turn] \in Servers
  <1>1. MaxPackets \in Nat /\ Packets \subseteq Nat /\ None \notin Packets
    BY UdpAssumption DEF UdpAssumption, Packets
  <1>2. \A q \in Seq(Packets) : q \in Seq(Nat)
    BY <1>1, SeqMonotonic
  <1> QED BY <1>1, <1>2, OrderFacts DEF TypeOK, Asked, Packets

(* A step that leaves the queues in, the packets and what is popped alone. *)
LEMMA WaitStutter ==
    ASSUME WaitInv, UNCHANGED <<asked, packet, inQueue, popped>>, popped = None \/ turn' = turn
    PROVE  WaitInv' /\ WaitChange
<1>1. Asked' = Asked /\ \A k : Waiting(k)' <=> Waiting(k)
  BY DEF Asked, Waiting
<1>2. WaitChange
  BY <1>1 DEF WaitChange
<1>3. WaitInv'
  BY <1>1 DEF WaitInv
<1> QED BY <1>2, <1>3

(* sendto: the new packet goes behind all others of its server. *)
LEMMA WaitSend ==
    ASSUME TypeOK, WaitInv, NEW th \in Threads, NEW s \in Sockets, NEW srv \in Servers,
           NEW type \in Types, SendTo(th, s, srv, type)
    PROVE  WaitInv' /\ WaitChange
<1>0. PICK new \in Nat : new = asked + 1
  BY AskedFacts
<1>1. /\ asked \in Nat /\ new \in Packets /\ Packets \subseteq Nat /\ new \notin Asked
      /\ Asked' = Asked \cup {new} /\ \A k \in Asked : k \in Nat /\ k < new
  <2>1. asked < MaxPackets /\ asked' = new
    BY <1>0 DEF SendTo
  <2>2. new \in Packets
    BY <1>0, <2>1, AskedFacts DEF Packets
  <2> QED BY <1>0, <2>1, <2>2, AskedFacts DEF Asked
<1>2. /\ inQueue' = [inQueue EXCEPT ![srv] = Append(@, new)]
      /\ packet' = [packet EXCEPT ![new] = [srv |-> srv, s |-> s, type |-> type]]
      /\ UNCHANGED <<popped, turn>>
  BY <1>0 DEF SendTo
<1>3. /\ packet'[new] = [srv |-> srv, s |-> s, type |-> type]
      /\ \A k \in Asked : packet'[k] = packet[k]
  BY <1>1, <1>2 DEF TypeOK, Asked
<1>4. /\ Increasing(inQueue'[srv]) /\ ToSet(inQueue'[srv]) = ToSet(inQueue[srv]) \cup {new}
      /\ \A t \in Servers : t # srv => inQueue'[t] = inQueue[t]
  <2>1. inQueue[srv] \in Seq(Nat) /\ Increasing(inQueue[srv]) /\ new \in Nat
    BY <1>1, AskedFacts DEF WaitInv
  <2>2. \A x \in ToSet(inQueue[srv]) : x < new
    BY <1>1 DEF WaitInv
  <2>3. inQueue'[srv] = Append(inQueue[srv], new) /\ \A t \in Servers : t # srv => inQueue'[t] = inQueue[t]
    BY <1>2 DEF TypeOK
  <2> QED BY <2>1, <2>2, <2>3, AppendIncreasing
<1>5. \A k \in Asked : packet[k].srv \in Servers /\ k # new /\ (Waiting(k)' <=> Waiting(k))
  BY <1>1, <1>2, <1>3, <1>4 DEF Waiting, WaitInv
<1>6. Waiting(new)'
  BY <1>3, <1>4 DEF Waiting
<1>7. WaitChange
  BY <1>1, <1>2, <1>3, <1>5, <1>6 DEF WaitChange
<1>8. WaitInv'
  <2>1. \A k \in Asked' : packet'[k] \in [srv : Servers, s : Sockets, type : Types]
    BY <1>1, <1>3 DEF WaitInv
  <2>2. \A t \in Servers : Increasing(inQueue'[t])
    BY <1>4 DEF WaitInv
  <2>3. \A t \in Servers : \A k \in ToSet(inQueue'[t]) : k \in Asked' /\ packet'[k].srv = t
    BY <1>1, <1>3, <1>4 DEF WaitInv
  <2>4. popped' # None =>
           /\ popped' \in Asked' /\ packet'[popped'].srv = Order[turn']
           /\ \A k \in ToSet(inQueue'[Order[turn']]) : popped' < k
    <3> SUFFICES ASSUME popped # None
                 PROVE  /\ popped \in Asked' /\ packet'[popped].srv = Order[turn]
                        /\ \A k \in ToSet(inQueue'[Order[turn]]) : popped < k
      BY <1>2
    <3>1. popped \in Asked /\ popped < new
      BY <1>1 DEF WaitInv
    <3> QED BY <1>1, <1>3, <1>4, <3>1, AskedFacts DEF WaitInv
  <2>5. \A j, k \in Asked' :
           packet'[j].srv = packet'[k].srv /\ j < k /\ Waiting(j)' => Waiting(k)'
    <3> SUFFICES ASSUME NEW j \in Asked', NEW k \in Asked', packet'[j].srv = packet'[k].srv,
                        j < k, Waiting(j)'
                 PROVE  Waiting(k)'
      OBVIOUS
    <3>1. CASE k = new
      BY <1>6, <3>1
    <3>2. CASE k # new
      <4>1. k \in Asked /\ j \in Asked
        BY <1>1, <3>2
      <4> QED BY <1>3, <1>5, <4>1 DEF WaitInv
    <3> QED BY <3>1, <3>2
  <2> QED BY <2>1, <2>2, <2>3, <2>4, <2>5 DEF WaitInv
<1> QED BY <1>7, <1>8

(* frame: the first of a queue is popped; it still waits. *)
LEMMA WaitPop ==
    ASSUME TypeOK, WaitInv, PopPacket
    PROVE  WaitInv' /\ WaitChange
<1> DEFINE srv == Order[turn]
           q   == inQueue[srv]
           new == Head(q)
<1>1. srv \in Servers /\ q \in Seq(Nat) /\ q # <<>> /\ Increasing(q)
  BY AskedFacts DEF PopPacket, WaitInv
<1>2. /\ popped = None /\ popped' = new /\ UNCHANGED <<asked, packet, turn>>
      /\ inQueue' = [inQueue EXCEPT ![srv] = Tail(q)]
  BY DEF PopPacket
<1> HIDE DEF srv
<1>3. inQueue'[srv] = Tail(q) /\ \A t \in Servers : t # srv => inQueue'[t] = inQueue[t]
  BY <1>1, <1>2 DEF TypeOK
<1> HIDE DEF q
<1>4. /\ new = q[1] /\ Tail(q) \in Seq(Nat) /\ Len(Tail(q)) = Len(q) - 1
      /\ \A j \in 1..Len(Tail(q)) : Tail(q)[j] = q[j + 1]
  BY <1>1, HeadTailProperties
<1>5. /\ new \in ToSet(q) /\ \A x \in ToSet(q) : x = new \/ new < x
      /\ Increasing(Tail(q)) /\ ToSet(Tail(q)) = ToSet(q) \ {new}
  BY <1>1, <1>4, FirstIsLeast
<1> HIDE DEF new
<1>6. new \in Asked /\ packet[new].srv = srv /\ new # None
  BY <1>1, <1>5, AskedFacts DEF WaitInv, q
<1>7. Asked' = Asked /\ \A k \in Asked : Waiting(k)' <=> Waiting(k)
  <2>1. Asked' = Asked
    BY <1>2 DEF Asked
  <2>2. ASSUME NEW k \in Asked PROVE Waiting(k)' <=> Waiting(k)
    <3>1. k # None /\ packet[k].srv \in Servers /\ packet' = packet
      BY <1>2, AskedFacts DEF WaitInv
    <3>2. CASE packet[k].srv = srv
      BY <1>2, <1>3, <1>5, <1>6, <3>1, <3>2 DEF Waiting, q
    <3>3. CASE packet[k].srv # srv
      BY <1>2, <1>3, <1>6, <3>1, <3>3 DEF Waiting
    <3> QED BY <3>2, <3>3
  <2> QED BY <2>1, <2>2
<1>8. WaitChange
  BY <1>2, <1>7, AskedFacts DEF WaitChange
<1>9. WaitInv'
  <2>1. \A t \in Servers : Increasing(inQueue'[t])
    BY <1>3, <1>5 DEF WaitInv
  <2>2. \A t \in Servers : \A k \in ToSet(inQueue'[t]) : k \in Asked /\ packet[k].srv = t
    BY <1>1, <1>3, <1>5 DEF WaitInv, q
  <2>3. \A k \in ToSet(inQueue'[srv]) : new < k
    BY <1>3, <1>5
  <2> QED BY <1>2, <1>6, <1>7, <2>1, <2>2, <2>3 DEF WaitInv, srv
<1> QED BY <1>8, <1>9

(* handle: what was popped waits no longer, and nothing older did. *)
LEMMA WaitHandle ==
    ASSUME TypeOK, WaitInv, HandlePacket
    PROVE  WaitInv' /\ WaitChange
<1>1. popped # None /\ popped' = None /\ UNCHANGED <<asked, packet, inQueue, turn>>
  BY DEF HandlePacket
<1>2. /\ popped \in Asked /\ packet[popped].srv = Order[turn]
      /\ \A k \in ToSet(inQueue[Order[turn]]) : popped < k
  BY <1>1 DEF WaitInv
<1>3. Asked' = Asked /\ \A k \in Asked : Waiting(k)' <=> Waiting(k) /\ k # popped
  <2>1. popped \notin ToSet(inQueue[packet[popped].srv])
    BY <1>2, AskedFacts
  <2> QED BY <1>1, <2>1, AskedFacts DEF Asked, Waiting
<1>4. WaitChange
  BY <1>1, <1>3, AskedFacts DEF WaitChange
<1>5. \A j, k \in Asked :
           packet[j].srv = packet[k].srv /\ j < k /\ Waiting(j)' => Waiting(k)'
  <2> SUFFICES ASSUME NEW j \in Asked, NEW k \in Asked, packet[j].srv = packet[k].srv,
                      j < k, Waiting(j)'
               PROVE  Waiting(k)'
    OBVIOUS
  <2>1. Waiting(j) /\ j # popped /\ Waiting(k)
    BY <1>3 DEF WaitInv
  <2>2. k # popped
    <3> SUFFICES ASSUME k = popped PROVE FALSE
      OBVIOUS
    <3>1. j \in ToSet(inQueue[Order[turn]])
      BY <1>2, <2>1 DEF Waiting
    <3> QED BY <1>2, <3>1, AskedFacts
  <2> QED BY <1>3, <2>1, <2>2
<1>6. WaitInv'
  BY <1>1, <1>3, <1>5 DEF WaitInv
<1> QED BY <1>4, <1>6

(* Every step keeps the order of waiting. *)
LEMMA WaitStep == TypeOK /\ WaitInv /\ [Next]_vars => WaitInv' /\ WaitChange
<1> SUFFICES ASSUME TypeOK, WaitInv, [Next]_vars PROVE WaitInv' /\ WaitChange
  OBVIOUS
<1>1. CASE NextServer
  BY <1>1, WaitStutter DEF NextServer
<1>2. ASSUME NEW th \in Threads, NEW s \in Sockets, RecvFrom(th, s) PROVE WaitInv' /\ WaitChange
  BY <1>2, WaitStutter DEF RecvFrom
<1>3. ASSUME NEW th \in Threads, PendingData(th) \/ HandleOutput(th) \/ RecvReturns(th)
      PROVE  WaitInv' /\ WaitChange
  BY <1>3, WaitStutter DEF PendingData, HandleOutput, RecvReturns
<1>4. CASE UNCHANGED vars
  BY <1>4, WaitStutter DEF vars
<1> QED BY <1>1, <1>2, <1>3, <1>4, WaitSend, WaitPop, WaitHandle, Zenon DEF Next

------------------------------------------------------------------------------
(* Places                                                                  *)

Done(k)     == k \in Asked /\ packet[k].type = "discovery" /\ ~Waiting(k)
Queued(k)   == \E srv \in Servers, s \in Sockets : k \in ToSet(outQueue[srv][s])
Found(k)    == \E th \in Threads : call[th].result = k
Received(k) == \E s \in Sockets : k \in ToSet(received[s])

(* A queue out holds answers of its server to its socket, in order. *)
QueueInv ==
    \A srv \in Servers, s \in Sockets :
        /\ Increasing(outQueue[srv][s])
        /\ \A k \in ToSet(outQueue[srv][s]) : packet[k].srv = srv /\ packet[k].s = s

(* The answers are those of the questions that are done: each is in a      *)
(* queue out, in a call, received or lost.                                 *)
AnsweredInv ==
    \A k \in Packets : Done(k) <=> Queued(k) \/ Found(k) \/ Received(k) \/ k \in lost

(* It is at one place only. *)
OnePlaceInv ==
    /\ \A k \in Packets :
          /\ Queued(k) => ~Found(k) /\ ~Received(k) /\ k \notin lost
          /\ Found(k) => ~Received(k) /\ k \notin lost
          /\ Received(k) => k \notin lost
    /\ \A k \in Packets : \A th, u \in Threads :
          call[th].result = k /\ call[u].result = k => th = u
    /\ \A k \in Packets : \A s, t \in Sockets :
          \A i \in DOMAIN received[s], j \in DOMAIN received[t] :
             received[s][i] = k /\ received[t][j] = k => s = t /\ i = j

PlaceInv == QueueInv /\ AnsweredInv /\ OnePlaceInv

(* A question is done for good, and becomes so when it is handled. *)
LEMMA DoneStep ==
    ASSUME TypeOK, WaitInv, WaitChange
    PROVE  \A k : Done(k)' <=> \/ Done(k)
                               \/ /\ k = popped /\ popped # None /\ popped' # popped
                                  /\ packet[k].type = "discovery"
<1> SUFFICES ASSUME NEW k
             PROVE  Done(k)' <=> \/ Done(k)
                                 \/ /\ k = popped /\ popped # None /\ popped' # popped
                                    /\ packet[k].type = "discovery"
  OBVIOUS
<1>1. CASE k \in Asked
  <2>1. k \in Asked' /\ packet'[k] = packet[k]
        /\ (Waiting(k)' <=> Waiting(k) /\ (popped = k => popped' = k)) /\ k # None
    BY <1>1, AskedFacts DEF WaitChange
  <2>2. popped = k => Waiting(k)
    BY DEF Waiting
  <2> QED BY <1>1, <2>1, <2>2, Zenon DEF Done
<1>2. CASE k \notin Asked
  <2>1. k \in Asked' => Waiting(k)'
    BY <1>2 DEF WaitChange
  <2>2. k # popped \/ popped = None
    BY <1>2 DEF WaitInv
  <2> QED BY <1>2, <2>1, <2>2, Zenon DEF Done
<1> QED BY <1>1, <1>2

(* The answers in the queues out are packets. *)
LEMMA QueueFacts ==
    ASSUME TypeOK, NEW srv \in Servers, NEW s \in Sockets
    PROVE  /\ outQueue[srv][s] \in Seq(Nat)
           /\ \A k \in ToSet(outQueue[srv][s]) : k \in Packets /\ Queued(k)
<1>1. outQueue[srv][s] \in Seq(Packets)
  BY DEF TypeOK
<1>2. outQueue[srv][s] \in Seq(Nat)
  BY <1>1, AskedFacts, SeqMonotonic
<1>3. \A k \in ToSet(outQueue[srv][s]) : k \in Packets
  BY <1>1, DomainOfSeq DEF ToSet
<1>4. \A k \in ToSet(outQueue[srv][s]) : Queued(k)
  BY Zenon DEF Queued
<1> QED BY <1>2, <1>3, <1>4

(* What is in a queue out stays the answer of its server to its socket. *)
LEMMA QueueKept ==
    ASSUME TypeOK, PlaceInv, WaitChange, NEW srv \in Servers, NEW s \in Sockets,
           NEW k \in ToSet(outQueue[srv][s])
    PROVE  packet'[k].srv = srv /\ packet'[k].s = s
<1>1. Done(k)
  BY QueueFacts, Zenon DEF PlaceInv, AnsweredInv
<1>2. packet'[k] = packet[k]
  BY <1>1 DEF Done, WaitChange
<1> QED BY <1>2 DEF PlaceInv, QueueInv

(* A step that moves no answer. *)
LEMMA PlaceStutter ==
    ASSUME TypeOK, PlaceInv, WaitInv, WaitChange, popped = None \/ popped' = popped,
           UNCHANGED <<outQueue, received, lost>>,
           \A th \in Threads : call'[th].result = call[th].result
    PROVE  PlaceInv'
<1>1. \A k : Done(k)' <=> Done(k)
  BY DoneStep
<1>2. \A k : /\ Queued(k)' <=> Queued(k)
             /\ Found(k)' <=> Found(k)
             /\ Received(k)' <=> Received(k)
             /\ k \in lost' <=> k \in lost
  BY DEF Queued, Found, Received
<1>3. QueueInv'
  BY QueueKept DEF PlaceInv, QueueInv
<1>4. AnsweredInv'
  BY <1>1, <1>2, Zenon DEF PlaceInv, AnsweredInv
<1>5. OnePlaceInv'
  <2>1. \A k \in Packets :
          /\ Queued(k)' => ~Found(k)' /\ ~Received(k)' /\ k \notin lost'
          /\ Found(k)' => ~Received(k)' /\ k \notin lost'
          /\ Received(k)' => k \notin lost'
    BY <1>2, Zenon DEF PlaceInv, OnePlaceInv
  <2>2. /\ \A k \in Packets : \A th, u \in Threads :
              call'[th].result = k /\ call'[u].result = k => th = u
        /\ \A k \in Packets : \A s, t \in Sockets :
              \A i \in DOMAIN received'[s], j \in DOMAIN received'[t] :
                 received'[s][i] = k /\ received'[t][j] = k => s = t /\ i = j
    BY DEF PlaceInv, OnePlaceInv
  <2> QED BY <2>1, <2>2 DEF OnePlaceInv
<1> QED BY <1>3, <1>4, <1>5 DEF PlaceInv

(* The handler of a discovery files its answer behind those of earlier     *)
(* ones; the answer to anything else is none (stun_server::handle).        *)
LEMMA PlaceHandle ==
    ASSUME TypeOK, PlaceInv, WaitInv, WaitChange, HandlePacket
    PROVE  PlaceInv'
<1> DEFINE srv == Order[turn]
           s   == packet[popped].s
           q   == outQueue[srv][s]
<1>1. /\ popped # None /\ popped' # popped /\ UNCHANGED <<call, received, lost>>
      /\ outQueue' = IF packet[popped].type = "discovery"
                     THEN [outQueue EXCEPT ![srv][s] = Append(@, popped)]
                     ELSE outQueue
  BY DEF HandlePacket, Answers, ReplyTo
<1>2. /\ popped \in Packets /\ popped \in Nat /\ srv \in Servers /\ s \in Sockets
      /\ packet[popped].srv = srv /\ packet'[popped] = packet[popped] /\ popped \in Asked
  BY <1>1, AskedFacts DEF WaitInv, WaitChange
<1>3. Waiting(popped) /\ ~Done(popped) /\ ~Queued(popped)
  BY <1>2, Zenon DEF Waiting, Done, PlaceInv, AnsweredInv
<1>4. CASE packet[popped].type # "discovery"
  <2>1. outQueue' = outQueue
    BY <1>1, <1>4
  <2>2. \A k : Done(k)' <=> Done(k)
    BY <1>4, DoneStep
  <2>3. \A k : /\ Queued(k)' <=> Queued(k)
               /\ Found(k)' <=> Found(k)
               /\ Received(k)' <=> Received(k)
               /\ k \in lost' <=> k \in lost
    BY <1>1, <2>1 DEF Queued, Found, Received
  <2>4. QueueInv'
    BY <2>1, QueueKept DEF PlaceInv, QueueInv
  <2>5. AnsweredInv'
    BY <2>2, <2>3, Zenon DEF PlaceInv, AnsweredInv
  <2>6. OnePlaceInv'
    BY <1>1, <2>3 DEF PlaceInv, OnePlaceInv
  <2> QED BY <2>4, <2>5, <2>6 DEF PlaceInv
<1>5. CASE packet[popped].type = "discovery"
  <2>1. \A x \in ToSet(q) : x < popped
    <3> SUFFICES ASSUME NEW x \in ToSet(q) PROVE x < popped
      OBVIOUS
    <3>1. x \in Packets /\ Queued(x) /\ packet[x].srv = srv
      BY <1>2, QueueFacts DEF PlaceInv, QueueInv
    <3>2. Done(x)
      BY <3>1, Zenon DEF PlaceInv, AnsweredInv
    <3>3. x \in Asked /\ ~Waiting(x) /\ x # popped
      BY <1>3, <3>2 DEF Done
    <3>4. ~(popped < x)
      BY <1>2, <1>3, <3>1, <3>3 DEF WaitInv
    <3> QED BY <1>2, <3>1, <3>3, <3>4, AskedFacts
  <2>2. q \in Seq(Nat) /\ Increasing(q)
    BY <1>2, QueueFacts DEF PlaceInv, QueueInv
  <2>3. Increasing(Append(q, popped)) /\ ToSet(Append(q, popped)) = ToSet(q) \cup {popped}
    BY <1>2, <2>1, <2>2, AppendIncreasing
  <2>4. \A a \in Servers, b \in Sockets :
           outQueue'[a][b] = IF a = srv /\ b = s THEN Append(q, popped) ELSE outQueue[a][b]
    BY <1>1, <1>2, <1>5 DEF TypeOK
  <2> HIDE DEF srv, s, q
  <2>5. \A k : Queued(k)' <=> Queued(k) \/ k = popped
    <3> SUFFICES ASSUME NEW k PROVE Queued(k)' <=> Queued(k) \/ k = popped
      OBVIOUS
    <3>1. ASSUME NEW a \in Servers, NEW b \in Sockets
          PROVE  k \in ToSet(outQueue'[a][b])
                   <=> k \in ToSet(outQueue[a][b]) \/ (a = srv /\ b = s /\ k = popped)
      BY <2>3, <2>4 DEF q
    <3> QED BY <1>2, <3>1, Zenon DEF Queued
  <2>6. \A k : Done(k)' <=> Done(k) \/ k = popped
    BY <1>1, <1>5, DoneStep
  <2>7. \A k : /\ Found(k)' <=> Found(k)
               /\ Received(k)' <=> Received(k)
               /\ k \in lost' <=> k \in lost
    BY <1>1 DEF Found, Received
  <2>8. QueueInv'
    <3> SUFFICES ASSUME NEW a \in Servers, NEW b \in Sockets
                 PROVE  /\ Increasing(outQueue'[a][b])
                        /\ \A k \in ToSet(outQueue'[a][b]) :
                              packet'[k].srv = a /\ packet'[k].s = b
      BY DEF QueueInv
    <3>1. CASE a = srv /\ b = s
      BY <1>2, <2>3, <2>4, <3>1, QueueKept DEF s, q
    <3>2. CASE ~(a = srv /\ b = s)
      BY <2>4, <3>2, QueueKept DEF PlaceInv, QueueInv
    <3> QED BY <3>1, <3>2
  <2>9. AnsweredInv'
    BY <2>5, <2>6, <2>7, Zenon DEF PlaceInv, AnsweredInv
  <2>10. OnePlaceInv'
    <3>1. ~Found(popped) /\ ~Received(popped) /\ popped \notin lost
      BY <1>2, <1>3, Zenon DEF PlaceInv, AnsweredInv
    <3>2. \A k \in Packets :
            /\ Queued(k)' => ~Found(k)' /\ ~Received(k)' /\ k \notin lost'
            /\ Found(k)' => ~Received(k)' /\ k \notin lost'
            /\ Received(k)' => k \notin lost'
      BY <2>5, <2>7, <3>1, Zenon DEF PlaceInv, OnePlaceInv
    <3> QED BY <1>1, <3>2 DEF PlaceInv, OnePlaceInv
  <2> QED BY <2>8, <2>9, <2>10 DEF PlaceInv
<1> QED BY <1>4, <1>5

(* handle_output: the first of the queue out, if there is one, takes the   *)
(* place of what the call had found before.                                *)
Takes(th, srv, s, new) ==
    /\ srv = Order[call[th].at] /\ s = call[th].s /\ call[th].at \in DOMAIN Order
    /\ call[th].pending = TRUE /\ call[th].result \in Packets \cup {None}
    /\ UNCHANGED <<asked, packet, inQueue, turn, popped, received>>
    /\ lost' = lost \cup ({call[th].result} \ {None})
    /\ \A u \in Threads : call'[u] =
          IF u = th THEN [s |-> s, at |-> call[th].at + 1, pending |-> FALSE, result |-> new]
          ELSE call[u]
    /\ \/ new = None /\ outQueue' = outQueue
       \/ /\ new \in ToSet(outQueue[srv][s])
          /\ \A x \in ToSet(outQueue[srv][s]) : x = new \/ new < x
          /\ \A a \in Servers, b \in Sockets :
                /\ Increasing(outQueue'[a][b])
                /\ ToSet(outQueue'[a][b]) =
                      IF a = srv /\ b = s THEN ToSet(outQueue[a][b]) \ {new}
                      ELSE ToSet(outQueue[a][b])

LEMMA OutputEffect ==
    ASSUME TypeOK, QueueInv, NEW th \in Threads, HandleOutput(th)
    PROVE  \E srv \in Servers, s \in Sockets, new \in Packets \cup {None} :
              Takes(th, srv, s, new)
<1> DEFINE srv == Order[call[th].at]
           s   == call[th].s
           q   == outQueue[srv][s]
           new == IF q = <<>> THEN None ELSE q[Oldest(q)]
<1>1. call[th] \in Calls /\ call[th] # Idle /\ call[th].at \in DOMAIN Order /\ call[th].pending
  BY DEF HandleOutput, Visiting, TypeOK
<1>2. /\ srv \in Servers /\ s \in Sockets /\ call[th].result \in Packets \cup {None}
      /\ call[th].pending = TRUE
  BY <1>1, CallFacts, OrderFacts
<1>3. /\ UNCHANGED <<asked, packet, inQueue, turn, popped, received>>
      /\ lost' = lost \cup ({call[th].result} \ {None})
      /\ outQueue' = IF q = <<>> THEN outQueue
                     ELSE [outQueue EXCEPT ![srv][s] = Popped(@)]
      /\ call' = [call EXCEPT ![th] = [s |-> s, at |-> @.at + 1, pending |-> FALSE,
                                       result |-> new]]
  BY Zenon DEF HandleOutput
<1>4. q \in Seq(Nat) /\ Increasing(q)
  BY <1>2, QueueFacts DEF QueueInv
<1> HIDE DEF srv, s
<1>5. \A u \in Threads : call'[u] =
         IF u = th THEN [s |-> s, at |-> call[th].at + 1, pending |-> FALSE, result |-> new]
         ELSE call[u]
  BY <1>3 DEF TypeOK
<1>6. CASE q = <<>>
  <2>1. new = None /\ outQueue' = outQueue
    BY <1>3, <1>6
  <2>2. Takes(th, srv, s, new)
    <3> HIDE DEF new, q
    <3> QED BY <1>1, <1>2, <1>3, <1>5, <2>1 DEF Takes, srv, s
  <2> HIDE DEF new
  <2> QED BY <1>2, <2>1, <2>2
<1>7. CASE q # <<>>
  <2>1. new = q[1] /\ Popped(q) = RemoveAt(q, 1)
    BY <1>7 DEF Oldest, Popped
  <2>2. /\ Popped(q) \in Seq(Nat) /\ Len(Popped(q)) = Len(q) - 1
        /\ \A j \in 1..Len(Popped(q)) : Popped(q)[j] = q[j + 1]
    <3>1. 1 \in 1..Len(q)
      BY <1>4, <1>7, EmptySeq, DomainOfSeq
    <3> HIDE DEF q
    <3>2. /\ RemoveAt(q, 1) \in Seq(Nat) /\ Len(RemoveAt(q, 1)) = Len(q) - 1
          /\ \A j \in 1..Len(RemoveAt(q, 1)) :
                \/ j < 1 /\ RemoveAt(q, 1)[j] = q[j]
                \/ j >= 1 /\ RemoveAt(q, 1)[j] = q[j + 1]
      BY <1>4, <3>1, EraseFacts
    <3> QED BY <2>1, <3>2
  <2>3. /\ new \in ToSet(q) /\ \A x \in ToSet(q) : x = new \/ new < x
        /\ Increasing(Popped(q)) /\ ToSet(Popped(q)) = ToSet(q) \ {new}
    <3> HIDE DEF q
    <3> QED BY <1>4, <1>7, <2>1, <2>2, FirstIsLeast
  <2>4. \A a \in Servers, b \in Sockets :
           outQueue'[a][b] = IF a = srv /\ b = s THEN Popped(q) ELSE outQueue[a][b]
    BY <1>2, <1>3, <1>7 DEF TypeOK
  <2> HIDE DEF new
  <2>5. \A a \in Servers, b \in Sockets :
           /\ Increasing(outQueue'[a][b])
           /\ ToSet(outQueue'[a][b]) = IF a = srv /\ b = s THEN ToSet(outQueue[a][b]) \ {new}
                                       ELSE ToSet(outQueue[a][b])
    <3> SUFFICES ASSUME NEW a \in Servers, NEW b \in Sockets
                 PROVE  /\ Increasing(outQueue'[a][b])
                        /\ ToSet(outQueue'[a][b]) =
                              IF a = srv /\ b = s THEN ToSet(outQueue[a][b]) \ {new}
                              ELSE ToSet(outQueue[a][b])
      OBVIOUS
    <3>1. CASE a = srv /\ b = s
      <4>1. outQueue'[a][b] = Popped(q) /\ outQueue[a][b] = q
        BY <2>4, <3>1
      <4> HIDE DEF q
      <4> QED BY <2>3, <3>1, <4>1
    <3>2. CASE ~(a = srv /\ b = s)
      <4>1. outQueue'[a][b] = outQueue[a][b]
        BY <2>4, <3>2
      <4> QED BY <3>2, <4>1 DEF QueueInv
    <3> QED BY <3>1, <3>2
  <2>6. new \in Packets
    BY <1>2, <2>3, QueueFacts
  <2>7. Takes(th, srv, s, new)
    BY <1>1, <1>2, <1>3, <1>5, <2>3, <2>5 DEF Takes, srv, s
  <2> QED BY <1>2, <2>6, <2>7
<1> QED BY <1>6, <1>7

(* An answer leaves its queue as a call finds it, and what the call had    *)
(* found before is lost: neither is anywhere else.                         *)
LEMMA PlaceOutput ==
    ASSUME TypeOK, PlaceInv, WaitInv, WaitChange, NEW th \in Threads, HandleOutput(th)
    PROVE  PlaceInv'
<1> DEFINE old == call[th].result
<1>1. PICK srv \in Servers, s \in Sockets, new \in Packets \cup {None} :
         /\ old \in Packets \cup {None} /\ UNCHANGED <<popped, received>>
         /\ lost' = lost \cup ({old} \ {None})
         /\ \A u \in Threads : call'[u].result = IF u = th THEN new ELSE call[u].result
         /\ \/ new = None /\ outQueue' = outQueue
            \/ /\ new \in ToSet(outQueue[srv][s])
               /\ \A a \in Servers, b \in Sockets :
                     /\ Increasing(outQueue'[a][b])
                     /\ ToSet(outQueue'[a][b]) =
                           IF a = srv /\ b = s THEN ToSet(outQueue[a][b]) \ {new}
                           ELSE ToSet(outQueue[a][b])
  <2>1. QueueInv
    BY DEF PlaceInv
  <2>2. PICK srv \in Servers, s \in Sockets, new \in Packets \cup {None} :
           Takes(th, srv, s, new)
    BY <2>1, OutputEffect
  <2>3. /\ old \in Packets \cup {None} /\ UNCHANGED <<popped, received>>
        /\ lost' = lost \cup ({old} \ {None})
        /\ \A u \in Threads : call'[u] =
              IF u = th THEN [s |-> s, at |-> call[th].at + 1, pending |-> FALSE, result |-> new]
              ELSE call[u]
    BY <2>2, Zenon DEF Takes
  <2>4. \A u \in Threads : call'[u].result = IF u = th THEN new ELSE call[u].result
    BY <2>3
  <2>5. \/ new = None /\ outQueue' = outQueue
        \/ /\ new \in ToSet(outQueue[srv][s])
           /\ \A a \in Servers, b \in Sockets :
                 /\ Increasing(outQueue'[a][b])
                 /\ ToSet(outQueue'[a][b]) =
                       IF a = srv /\ b = s THEN ToSet(outQueue[a][b]) \ {new}
                       ELSE ToSet(outQueue[a][b])
    BY <2>2 DEF Takes
  <2> QED BY <2>3, <2>4, <2>5, Zenon
<1>2. None \notin Packets
  BY UdpAssumption DEF UdpAssumption
<1>3. new # None => Queued(new)
  BY <1>1, <1>2, QueueFacts
<1>4. old # None => Found(old)
  BY DEF Found
<1>5. \A k \in Packets : Queued(k)' <=> Queued(k) /\ k # new
  <2> SUFFICES ASSUME NEW k \in Packets PROVE Queued(k)' <=> Queued(k) /\ k # new
    OBVIOUS
  <2>1. CASE new = None
    BY <1>1, <1>2, <2>1, QueueFacts DEF Queued
  <2>2. CASE new # None
    <3>1. /\ new \in ToSet(outQueue[srv][s])
          /\ \A a \in Servers, b \in Sockets :
                ToSet(outQueue'[a][b]) =
                   IF a = srv /\ b = s THEN ToSet(outQueue[a][b]) \ {new}
                   ELSE ToSet(outQueue[a][b])
      BY <1>1, <2>2
    <3>2. packet[new].srv = srv /\ packet[new].s = s
      BY <3>1 DEF PlaceInv, QueueInv
    <3>3. \A a \in Servers, b \in Sockets :
             new \in ToSet(outQueue[a][b]) => a = srv /\ b = s
      BY <3>2 DEF PlaceInv, QueueInv
    <3>4. \A a \in Servers, b \in Sockets :
             k \in ToSet(outQueue'[a][b]) <=> k \in ToSet(outQueue[a][b]) /\ k # new
      BY <3>1, <3>3
    <3> QED BY <3>4, Zenon DEF Queued
  <2> QED BY <2>1, <2>2
<1>6. \A k \in Packets : \A u \in Threads :
         call'[u].result = k <=> IF u = th THEN k = new ELSE call[u].result = k
  BY <1>1
<1>7. \A k \in Packets : \A u \in Threads : call[u].result = k /\ k = old => u = th
  BY DEF PlaceInv, OnePlaceInv
<1> HIDE DEF old
<1>8. \A k \in Packets : Found(k)' <=> (Found(k) /\ k # old) \/ k = new
  <2> SUFFICES ASSUME NEW k \in Packets PROVE Found(k)' <=> (Found(k) /\ k # old) \/ k = new
    OBVIOUS
  <2>1. Found(k)' <=> \E u \in Threads : IF u = th THEN k = new ELSE call[u].result = k
    BY <1>6 DEF Found
  <2>2. ASSUME NEW u \in Threads, u # th, call[u].result = k PROVE Found(k) /\ k # old
    BY <1>7, <2>2 DEF Found
  <2>3. ASSUME Found(k), k # old PROVE \E u \in Threads : u # th /\ call[u].result = k
    BY <2>3 DEF Found, old
  <2> QED BY <2>1, <2>2, <2>3
<1>9. \A k \in Packets : /\ Received(k)' <=> Received(k)
                         /\ k \in lost' <=> k \in lost \/ k = old
  BY <1>1, <1>2 DEF Received
<1>10. \A k : Done(k)' <=> Done(k)
  BY <1>1, DoneStep
<1>11. QueueInv'
  <2> SUFFICES ASSUME NEW a \in Servers, NEW b \in Sockets
               PROVE  /\ Increasing(outQueue'[a][b])
                      /\ \A k \in ToSet(outQueue'[a][b]) :
                            packet'[k].srv = a /\ packet'[k].s = b
    BY DEF QueueInv
  <2>1. Increasing(outQueue[a][b])
    BY Zenon DEF PlaceInv, QueueInv
  <2>2. \/ outQueue' = outQueue
        \/ /\ Increasing(outQueue'[a][b])
           /\ ToSet(outQueue'[a][b]) \subseteq ToSet(outQueue[a][b])
    BY <1>1
  <2>3. Increasing(outQueue'[a][b]) /\ ToSet(outQueue'[a][b]) \subseteq ToSet(outQueue[a][b])
    BY <2>1, <2>2
  <2> QED BY <2>3, QueueKept
<1>12. AnsweredInv'
  <2> SUFFICES ASSUME NEW k \in Packets
               PROVE  Done(k)' <=> Queued(k)' \/ Found(k)' \/ Received(k)' \/ k \in lost'
    BY DEF AnsweredInv
  <2>1. Done(k) <=> Queued(k) \/ Found(k) \/ Received(k) \/ k \in lost
    BY DEF PlaceInv, AnsweredInv
  <2>2. (k = new => Queued(k)) /\ (k = old => Found(k))
    BY <1>2, <1>3, <1>4
  <2> QED BY <1>5, <1>8, <1>9, <1>10, <2>1, <2>2, Zenon
<1>13. OnePlaceInv'
  <2>1. \A k \in Packets :
          /\ Queued(k)' => ~Found(k)' /\ ~Received(k)' /\ k \notin lost'
          /\ Found(k)' => ~Received(k)' /\ k \notin lost'
          /\ Received(k)' => k \notin lost'
    <3> SUFFICES ASSUME NEW k \in Packets
                 PROVE  /\ Queued(k)' => ~Found(k)' /\ ~Received(k)' /\ k \notin lost'
                        /\ Found(k)' => ~Received(k)' /\ k \notin lost'
                        /\ Received(k)' => k \notin lost'
      OBVIOUS
    <3>1. /\ Queued(k) => ~Found(k) /\ ~Received(k) /\ k \notin lost
          /\ Found(k) => ~Received(k) /\ k \notin lost
          /\ Received(k) => k \notin lost
      BY DEF PlaceInv, OnePlaceInv
    <3>2. (k = new => Queued(k)) /\ (k = old => Found(k))
      BY <1>2, <1>3, <1>4
    <3> QED BY <1>5, <1>8, <1>9, <3>1, <3>2, Zenon
  <2>2. \A k \in Packets : \A u, v \in Threads :
           call'[u].result = k /\ call'[v].result = k => u = v
    <3> SUFFICES ASSUME NEW k \in Packets, NEW u \in Threads, NEW v \in Threads,
                        call'[u].result = k, call'[v].result = k
                 PROVE  u = v
      OBVIOUS
    <3>1. k = new => ~Found(k)
      BY <1>2, <1>3 DEF PlaceInv, OnePlaceInv
    <3> QED BY <1>6, <3>1 DEF PlaceInv, OnePlaceInv, Found
  <2>3. \A k \in Packets : \A a, b \in Sockets :
           \A i \in DOMAIN received'[a], j \in DOMAIN received'[b] :
              received'[a][i] = k /\ received'[b][j] = k => a = b /\ i = j
    BY <1>1 DEF PlaceInv, OnePlaceInv
  <2> QED BY <2>1, <2>2, <2>3 DEF OnePlaceInv
<1> QED BY <1>11, <1>12, <1>13 DEF PlaceInv

(* recvfrom returns what it has found, after what the socket received.     *)
LEMMA PlaceReturn ==
    ASSUME TypeOK, PlaceInv, WaitInv, WaitChange, NEW th \in Threads, RecvReturns(th)
    PROVE  PlaceInv'
<1> DEFINE k0 == call[th].result
           s  == call[th].s
<1>1. /\ UNCHANGED <<outQueue, popped, lost>>
      /\ call' = [call EXCEPT ![th] = Idle]
      /\ received' = IF k0 = None THEN received
                     ELSE [received EXCEPT ![s] = Append(@, k0)]
  BY DEF RecvReturns
<1>2. s \in Sockets /\ k0 \in Packets \cup {None}
  BY CallFacts DEF TypeOK, RecvReturns
<1>3. None \notin Packets
  BY UdpAssumption DEF UdpAssumption
<1>4. \A u \in Threads : call'[u].result = IF u = th THEN None ELSE call[u].result
  BY <1>1 DEF TypeOK, Idle
<1>5. CASE k0 = None
  <2>1. \A u \in Threads : call'[u].result = call[u].result
    BY <1>4, <1>5
  <2> QED BY <1>1, <1>5, <2>1, PlaceStutter
<1>6. CASE k0 # None
  <2>1. /\ received[s] \in Seq(Packets) /\ Len(received[s]) \in Nat
        /\ DOMAIN received[s] = 1..Len(received[s])
        /\ \A t \in Sockets : received'[t] = IF t = s THEN Append(received[s], k0) ELSE received[t]
    BY <1>1, <1>2, <1>6, DomainOfSeq DEF TypeOK
  <2>2. k0 \in Packets /\ Found(k0)
    BY <1>2, <1>6 DEF Found
  <2>3. \A k \in Packets : \A u \in Threads : call[u].result = k /\ k = k0 => u = th
    BY DEF PlaceInv, OnePlaceInv
  <2> HIDE DEF k0, s
  <2>4. /\ Len(Append(received[s], k0)) = Len(received[s]) + 1
        /\ DOMAIN Append(received[s], k0) = 1..Len(received[s]) + 1
        /\ \A j \in 1..Len(received[s]) : Append(received[s], k0)[j] = received[s][j]
        /\ Append(received[s], k0)[Len(received[s]) + 1] = k0
    BY <2>1, <2>2, AppendFacts, DomainOfSeq
  <2>5. \A k \in Packets : Found(k)' <=> Found(k) /\ k # k0
    <3> SUFFICES ASSUME NEW k \in Packets PROVE Found(k)' <=> Found(k) /\ k # k0
      OBVIOUS
    <3>1. Found(k)' <=> \E u \in Threads : u # th /\ call[u].result = k
      BY <1>3, <1>4 DEF Found
    <3> QED BY <2>3, <3>1 DEF Found, k0
  <2>6. \A k \in Packets : Received(k)' <=> Received(k) \/ k = k0
    <3> SUFFICES ASSUME NEW k \in Packets PROVE Received(k)' <=> Received(k) \/ k = k0
      OBVIOUS
    <3>1. ToSet(Append(received[s], k0)) = ToSet(received[s]) \cup {k0}
      BY <2>1, <2>4 DEF ToSet
    <3>2. \A t \in Sockets : k \in ToSet(received'[t])
                                <=> k \in ToSet(received[t]) \/ (t = s /\ k = k0)
      BY <2>1, <3>1
    <3> QED BY <1>2, <3>2, Zenon DEF Received, s
  <2>7. \A k : Queued(k)' <=> Queued(k)
    BY <1>1 DEF Queued
  <2>8. \A k : Done(k)' <=> Done(k)
    BY <1>1, DoneStep
  <2>9. QueueInv'
    BY <1>1, QueueKept DEF PlaceInv, QueueInv
  <2>10. AnsweredInv'
    BY <1>1, <2>2, <2>5, <2>6, <2>7, <2>8, Zenon DEF PlaceInv, AnsweredInv
  <2>11. OnePlaceInv'
    <3>1. \A k \in Packets :
            /\ Queued(k)' => ~Found(k)' /\ ~Received(k)' /\ k \notin lost'
            /\ Found(k)' => ~Received(k)' /\ k \notin lost'
            /\ Received(k)' => k \notin lost'
      BY <1>1, <2>2, <2>5, <2>6, <2>7, Zenon DEF PlaceInv, OnePlaceInv
    <3>2. \A k \in Packets : \A u, v \in Threads :
             call'[u].result = k /\ call'[v].result = k => u = v
      BY <1>3, <1>4 DEF PlaceInv, OnePlaceInv
    <3>3. ASSUME NEW k \in Packets, NEW a \in Sockets, NEW b \in Sockets,
                 NEW i \in DOMAIN received'[a], NEW j \in DOMAIN received'[b],
                 received'[a][i] = k, received'[b][j] = k
          PROVE  a = b /\ i = j
      <4>1. ASSUME NEW t \in Sockets, NEW n \in DOMAIN received'[t], received'[t][n] = k
            PROVE  \/ n \in DOMAIN received[t] /\ received[t][n] = k
                   \/ t = s /\ n = Len(received[s]) + 1 /\ k = k0
        <5>1. CASE t # s
          BY <2>1, <4>1, <5>1
        <5>2. CASE t = s
          <6>1. received'[t] = Append(received[s], k0)
            BY <2>1, <5>2
          <6>2. n \in 1..Len(received[s]) + 1 /\ Append(received[s], k0)[n] = k
            BY <2>4, <4>1, <6>1
          <6>3. DOMAIN received[s] = 1..Len(received[s]) /\ Len(received[s]) \in Nat
            BY <2>1
          <6> QED BY <2>4, <5>2, <6>2, <6>3
        <5> QED BY <5>1, <5>2
      <4>2. \A t \in Sockets : \A n \in DOMAIN received[t] :
                received[t][n] = k => k # k0
        <5>1. ~Received(k0)
          BY <2>2 DEF PlaceInv, OnePlaceInv
        <5> QED BY <5>1 DEF Received, ToSet
      <4> QED BY <3>3, <4>1, <4>2 DEF PlaceInv, OnePlaceInv
    <3> QED BY <3>1, <3>2, <3>3 DEF OnePlaceInv
  <2> QED BY <2>9, <2>10, <2>11 DEF PlaceInv
<1> QED BY <1>5, <1>6
(* Whatever the threads of the game and of the servers do next.            *)
LEMMA PlaceStep == TypeOK /\ WaitInv /\ PlaceInv /\ [Next]_vars => PlaceInv'
<1> SUFFICES ASSUME TypeOK, WaitInv, PlaceInv, [Next]_vars PROVE PlaceInv'
  OBVIOUS
<1>0. WaitChange
  BY WaitStep
<1>1. ASSUME NEW th \in Threads, NEW s \in Sockets, NEW srv \in Servers, NEW type \in Types,
             SendTo(th, s, srv, type)
      PROVE  PlaceInv'
  BY <1>0, <1>1, PlaceStutter DEF SendTo
<1>2. CASE PopPacket
  BY <1>0, <1>2, PlaceStutter DEF PopPacket
<1>3. CASE NextServer
  BY <1>0, <1>3, PlaceStutter DEF NextServer
<1>4. ASSUME NEW th \in Threads, NEW s \in Sockets, RecvFrom(th, s) PROVE PlaceInv'
  <2>1. \A u \in Threads : call'[u].result = call[u].result
    BY <1>4 DEF RecvFrom, TypeOK, Idle
  <2> QED BY <1>0, <1>4, <2>1, PlaceStutter DEF RecvFrom
<1>5. ASSUME NEW th \in Threads, PendingData(th) PROVE PlaceInv'
  <2>1. call[th] \in Calls /\ call[th] # Idle
    BY <1>5 DEF PendingData, Visiting, TypeOK
  <2>2. /\ [call[th] EXCEPT !.pending = TRUE].result = call[th].result
        /\ [call[th] EXCEPT !.at = @ + 1].result = call[th].result
    BY <2>1 DEF Calls
  <2>3. \A u \in Threads : call'[u].result = call[u].result
    BY <1>5, <2>2 DEF PendingData, TypeOK
  <2> QED BY <1>0, <1>5, <2>3, PlaceStutter DEF PendingData
<1>6. CASE UNCHANGED vars
  BY <1>0, <1>6, PlaceStutter DEF vars
<1> QED BY <1>0, <1>1, <1>2, <1>3, <1>4, <1>5, <1>6, PlaceHandle, PlaceOutput, PlaceReturn, Zenon
        DEF Next

(* Nothing is asked and nothing is answered. *)
LEMMA PlaceInit == Init => WaitInv /\ PlaceInv
<1> SUFFICES ASSUME Init PROVE WaitInv /\ PlaceInv
  OBVIOUS
<1>1. Asked = {} /\ ToSet(<<>>) = {} /\ DOMAIN <<>> = {} /\ None \notin Packets
  BY UdpAssumption DEF Init, Asked, ToSet, UdpAssumption
<1>2. /\ \A srv \in Servers : inQueue[srv] = <<>>
      /\ \A srv \in Servers, s \in Sockets : outQueue[srv][s] = <<>>
      /\ \A s \in Sockets : received[s] = <<>>
      /\ \A th \in Threads : call[th].result = None
      /\ popped = None /\ lost = {}
  BY DEF Init, Idle
<1>3. Increasing(<<>>)
  BY <1>1 DEF Increasing
<1>4. WaitInv
  BY <1>1, <1>2, <1>3 DEF WaitInv
<1>5. \A k \in Packets : ~Done(k) /\ ~Queued(k) /\ ~Found(k) /\ ~Received(k) /\ k \notin lost
  BY <1>1, <1>2 DEF Done, Queued, Found, Received
<1>6. QueueInv /\ AnsweredInv
  BY <1>1, <1>2, <1>3, <1>5 DEF QueueInv, AnsweredInv
<1>7. OnePlaceInv
  <2>1. \A k \in Packets : \A th, u \in Threads :
           call[th].result = k /\ call[u].result = k => th = u
    BY <1>1, <1>2
  <2>2. \A s \in Sockets : DOMAIN received[s] = {}
    BY <1>1, <1>2
  <2> QED BY <1>5, <2>1, <2>2 DEF OnePlaceInv
<1> QED BY <1>4, <1>6, <1>7 DEF PlaceInv

------------------------------------------------------------------------------
(* One answer                                                              *)

(* An answer in a queue out is there once, in the queue of its question.   *)
LEMMA QueuedOnce ==
    ASSUME TypeOK, PlaceInv, NEW k \in Packets
    PROVE  Cardinality(InQueues(k)) = IF Queued(k) THEN 1 ELSE 0
<1>1. \A x : x \in InQueues(k) <=>
                \E p \in Servers \X Sockets :
                   \E i \in Indices(outQueue[p[1]][p[2]], k) : x = <<p, i>>
  BY DEF InQueues
<1>2. ASSUME NEW p \in Servers \X Sockets
      PROVE  /\ p[1] \in Servers /\ p[2] \in Sockets /\ p = <<p[1], p[2]>>
             /\ k \in ToSet(outQueue[p[1]][p[2]])
                   <=> \E i : i \in Indices(outQueue[p[1]][p[2]], k)
  BY DEF ToSet, Indices
<1>3. CASE ~Queued(k)
  <2>1. InQueues(k) = {}
    BY <1>1, <1>2, <1>3 DEF Queued
  <2> QED BY <1>3, <2>1, FS_EmptySet
<1>4. CASE Queued(k)
  <2>1. PICK p \in Servers \X Sockets : k \in ToSet(outQueue[p[1]][p[2]])
    <3>1. PICK srv \in Servers, s \in Sockets : k \in ToSet(outQueue[srv][s])
      BY <1>4 DEF Queued
    <3>2. /\ <<srv, s>> \in Servers \X Sockets
          /\ <<srv, s>>[1] = srv /\ <<srv, s>>[2] = s
      OBVIOUS
    <3> QED BY <3>1, <3>2
  <2>2. PICK i : i \in Indices(outQueue[p[1]][p[2]], k)
    BY <1>2, <2>1
  <2>3. ASSUME NEW r \in Servers \X Sockets, NEW j \in Indices(outQueue[r[1]][r[2]], k)
        PROVE  r = p /\ j = i
    <3>1. r = p
      <4>1. packet[k].srv = p[1] /\ packet[k].s = p[2]
        BY <1>2, <2>1 DEF PlaceInv, QueueInv
      <4>2. packet[k].srv = r[1] /\ packet[k].s = r[2]
        BY <1>2, <2>3 DEF PlaceInv, QueueInv
      <4> QED BY <1>2, <4>1, <4>2
    <3> DEFINE q == outQueue[p[1]][p[2]]
    <3>2. i \in DOMAIN q /\ q[i] = k /\ j \in DOMAIN q /\ q[j] = k
      BY <2>2, <2>3, <3>1 DEF Indices
    <3>3. q \in Seq(Nat) /\ Increasing(q)
      BY <1>2, QueueFacts DEF PlaceInv, QueueInv
    <3> HIDE DEF q
    <3>4. i \in Nat /\ j \in Nat /\ k \in Nat
      BY <3>2, <3>3, DomainOfSeq, AskedFacts
    <3>5. ~(i < j) /\ ~(j < i)
      BY <3>2, <3>3, <3>4 DEF Increasing
    <3> QED BY <3>1, <3>4, <3>5
  <2>4. InQueues(k) = {<<p, i>>}
    BY <1>1, <2>2, <2>3
  <2> QED BY <1>4, <2>4, FS_Singleton
<1> QED BY <1>3, <1>4

(* At most one call has found it. *)
LEMMA FoundOnce ==
    ASSUME TypeOK, PlaceInv, NEW k \in Packets
    PROVE  Cardinality(InCalls(k)) = IF Found(k) THEN 1 ELSE 0
<1>1. CASE ~Found(k)
  <2>1. InCalls(k) = {}
    BY <1>1 DEF Found, InCalls
  <2> QED BY <1>1, <2>1, FS_EmptySet
<1>2. CASE Found(k)
  <2>1. PICK th \in Threads : call[th].result = k
    BY <1>2 DEF Found
  <2>2. InCalls(k) = {th}
    BY <2>1 DEF PlaceInv, OnePlaceInv, InCalls
  <2> QED BY <1>2, <2>2, FS_Singleton
<1> QED BY <1>1, <1>2

(* It was returned at most once. *)
LEMMA ReceivedOnce ==
    ASSUME TypeOK, PlaceInv, NEW k \in Packets
    PROVE  Cardinality(Returned(k)) = IF Received(k) THEN 1 ELSE 0
<1>1. \A x : x \in Returned(k) <=> \E s \in Sockets :
                                      \E i \in Indices(received[s], k) : x = <<s, i>>
  BY DEF Returned
<1>2. ASSUME NEW s \in Sockets
      PROVE  k \in ToSet(received[s]) <=> \E i : i \in Indices(received[s], k)
  BY DEF ToSet, Indices
<1>3. CASE ~Received(k)
  <2>1. Returned(k) = {}
    BY <1>1, <1>2, <1>3 DEF Received
  <2> QED BY <1>3, <2>1, FS_EmptySet
<1>4. CASE Received(k)
  <2>1. PICK s \in Sockets : k \in ToSet(received[s])
    BY <1>4 DEF Received
  <2>2. PICK i : i \in Indices(received[s], k)
    BY <1>2, <2>1
  <2>3. ASSUME NEW b \in Sockets, NEW j \in Indices(received[b], k) PROVE b = s /\ j = i
    BY <2>2, <2>3 DEF PlaceInv, OnePlaceInv, Indices
  <2>4. Returned(k) = {<<s, i>>}
    BY <1>1, <2>2, <2>3
  <2> QED BY <1>4, <2>4, FS_Singleton
<1> QED BY <1>3, <1>4

(* So there is one answer to each question that is done, and none to       *)
(* another.                                                                *)
LEMMA OneAnswer == TypeOK /\ PlaceInv => EveryAnswerOnce
<1> SUFFICES ASSUME TypeOK, PlaceInv, NEW k \in Asked
             PROVE  Copies(k) = IF packet[k].type = "discovery" /\ ~Waiting(k) THEN 1 ELSE 0
  BY DEF EveryAnswerOnce
<1>1. k \in Packets
  BY AskedFacts
<1>2. Copies(k) = (IF Queued(k) THEN 1 ELSE 0) + (IF Found(k) THEN 1 ELSE 0)
                  + (IF Received(k) THEN 1 ELSE 0) + (IF k \in lost THEN 1 ELSE 0)
  BY <1>1, QueuedOnce, FoundOnce, ReceivedOnce DEF Copies
<1>3. (packet[k].type = "discovery" /\ ~Waiting(k))
         <=> Queued(k) \/ Found(k) \/ Received(k) \/ k \in lost
  BY <1>1 DEF PlaceInv, AnsweredInv, Done
<1>4. /\ Queued(k) => ~Found(k) /\ ~Received(k) /\ k \notin lost
      /\ Found(k) => ~Received(k) /\ k \notin lost
      /\ Received(k) => k \notin lost
  BY <1>1 DEF PlaceInv, OnePlaceInv
<1> HIDE DEF Queued, Found, Received
<1> QED BY <1>2, <1>3, <1>4

------------------------------------------------------------------------------
(* Order                                                                   *)

(* An answer that is not taken waits or is in some queue: it is its own.   *)
LEMMA UntakenFacts ==
    ASSUME TypeOK, WaitInv, QueueInv, NEW k \in Asked
    PROVE  Untaken(k) <=> Waiting(k) \/ Queued(k)
<1>1. packet[k].srv \in Servers /\ packet[k].s \in Sockets
  BY DEF WaitInv
<1> QED BY <1>1 DEF Untaken, Queued, QueueInv

LEMMA UntakenNext ==
    ASSUME TypeOK', WaitInv', QueueInv'
    PROVE  \A k \in Asked' : Untaken(k)' <=> Waiting(k)' \/ Queued(k)'
<1> SUFFICES ASSUME NEW k \in Asked' PROVE Untaken(k)' <=> Waiting(k)' \/ Queued(k)'
  OBVIOUS
<1>1. packet'[k].srv \in Servers /\ packet'[k].s \in Sockets
  BY DEF WaitInv
<1> QED BY <1>1 DEF Untaken, Queued, QueueInv

(* Steps that take no answer, or only one before which there is none.      *)
LEMMA OrderKept ==
    ASSUME TypeOK, TypeOK', WaitChange, OldestFirst,
           \A k \in Asked : Untaken(k)' => Untaken(k),
           \A j, k \in Asked :
              j < k /\ SameLine(j, k) /\ Untaken(j)' /\ Untaken(k) => Untaken(k)'
    PROVE  OldestFirst'
<1> SUFFICES ASSUME NEW j \in Asked', NEW k \in Asked', j < k, SameLine(j, k)', Untaken(j)'
             PROVE  Untaken(k)'
  BY DEF OldestFirst
<1>1. CASE k \in Asked
  <2>1. j \in Asked
    BY <1>1 DEF Asked, TypeOK
  <2>2. SameLine(j, k)
    BY <1>1, <2>1 DEF SameLine, WaitChange
  <2> QED BY <1>1, <2>1, <2>2 DEF OldestFirst
<1>2. CASE k \notin Asked
  BY <1>2 DEF WaitChange, Untaken
<1> QED BY <1>1, <1>2

(* Answers are taken from the front of their queue, behind which and in    *)
(* the queue in wait only later ones.                                      *)
LEMMA OrderStep ==
    ASSUME TypeOK, WaitInv, PlaceInv, OldestFirst, [Next]_vars
    PROVE  OldestFirst'
<1>0. WaitChange /\ TypeOK' /\ WaitInv' /\ PlaceInv'
  BY WaitStep, TypeStep, PlaceStep
<1>1. /\ \A k \in Asked : Untaken(k) <=> Waiting(k) \/ Queued(k)
      /\ \A k \in Asked : Untaken(k)' <=> Waiting(k)' \/ Queued(k)'
      /\ \A k \in Asked : Waiting(k)' => Waiting(k)
  BY <1>0, UntakenFacts, UntakenNext DEF PlaceInv, WaitChange
<1>2. CASE UNCHANGED outQueue /\ (popped = None \/ popped' = popped)
  <2>1. \A k : Queued(k)' <=> Queued(k)
    BY <1>2 DEF Queued
  <2>2. \A k \in Asked : Waiting(k)' <=> Waiting(k)
    BY <1>0, <1>2, AskedFacts DEF WaitChange
  <2>3. \A k \in Asked : Untaken(k)' <=> Untaken(k)
    BY <1>1, <2>1, <2>2, Zenon
  <2> QED BY <1>0, <2>3, OrderKept
<1>3. CASE HandlePacket
  <2>1. \A k \in Asked : packet[k].type = "discovery" => (Untaken(k)' <=> Untaken(k))
    <3> SUFFICES ASSUME NEW k \in Asked, packet[k].type = "discovery"
                 PROVE  Untaken(k)' <=> Untaken(k)
      OBVIOUS
    <3>1. /\ Done(k) <=> Queued(k) \/ Found(k) \/ Received(k) \/ k \in lost
          /\ Done(k)' <=> Queued(k)' \/ Found(k)' \/ Received(k)' \/ k \in lost'
      BY <1>0, AskedFacts DEF PlaceInv, AnsweredInv
    <3>2. /\ Found(k)' <=> Found(k)
          /\ Received(k)' <=> Received(k)
          /\ k \in lost' <=> k \in lost
      BY <1>3 DEF HandlePacket, Found, Received
    <3>3. /\ Queued(k) => ~Found(k) /\ ~Received(k) /\ k \notin lost
          /\ Queued(k)' => ~Found(k)' /\ ~Received(k)' /\ k \notin lost'
      BY <1>0, AskedFacts DEF PlaceInv, OnePlaceInv
    <3>4. /\ Done(k) <=> ~Waiting(k)
          /\ Done(k)' <=> ~Waiting(k)'
      BY <1>0 DEF Done, WaitChange
    <3> QED BY <1>1, <3>1, <3>2, <3>3, <3>4, Zenon
  <2>2. \A k \in Asked : packet[k].type # "discovery" => (Untaken(k)' => Untaken(k))
    <3> SUFFICES ASSUME NEW k \in Asked, packet[k].type # "discovery", Untaken(k)'
                 PROVE  Untaken(k)
      OBVIOUS
    <3>1. ~Done(k)'
      BY <1>0 DEF Done, WaitChange
    <3>2. ~Queued(k)'
      BY <1>0, <3>1, AskedFacts DEF PlaceInv, AnsweredInv
    <3> QED BY <1>1, <3>2
  <2>3. \A j, k \in Asked : SameLine(j, k) => packet[k].type = "discovery"
    BY DEF SameLine
  <2> QED BY <1>0, <2>1, <2>2, <2>3, OrderKept
<1>4. ASSUME NEW th \in Threads, HandleOutput(th) PROVE OldestFirst'
  <2>1. QueueInv
    BY DEF PlaceInv
  <2>2. PICK srv \in Servers, s \in Sockets, new \in Packets \cup {None} :
           Takes(th, srv, s, new)
    BY <1>4, <2>1, OutputEffect
  <2>3. CASE UNCHANGED outQueue
    BY <1>2, <2>2, <2>3 DEF Takes
  <2>4. CASE ~UNCHANGED outQueue
    <3>1. /\ new \in ToSet(outQueue[srv][s])
          /\ \A x \in ToSet(outQueue[srv][s]) : x = new \/ new < x
          /\ \A a \in Servers, b \in Sockets :
                ToSet(outQueue'[a][b]) = IF a = srv /\ b = s THEN ToSet(outQueue[a][b]) \ {new}
                                         ELSE ToSet(outQueue[a][b])
          /\ popped' = popped
      BY <2>2, <2>4 DEF Takes
    <3>2. /\ \A k : Queued(k)' => Queued(k)
          /\ \A k : Queued(k) /\ k # new => Queued(k)'
      BY <3>1 DEF Queued
    <3>3. \A k \in Asked : Waiting(k)' <=> Waiting(k)
      BY <1>0, <3>1 DEF WaitChange
    <3>4. \A k \in Asked : Untaken(k)' => Untaken(k)
      BY <1>1, <3>2, Zenon
    <3>5. new \in Packets /\ Done(new) /\ packet[new].srv = srv /\ packet[new].s = s
      BY <3>1, QueueFacts, Zenon DEF PlaceInv, AnsweredInv, QueueInv
    <3>6. ASSUME NEW j \in Asked, NEW k \in Asked, j < k, SameLine(j, k), Untaken(j)', Untaken(k)
          PROVE  Untaken(k)'
      <4>1. CASE k # new
        BY <1>1, <3>2, <3>3, <3>6, <4>1, Zenon
      <4>2. CASE k = new
        <5>1. CASE Waiting(j)
          BY <3>5, <3>6, <4>2, <5>1 DEF WaitInv, SameLine, Done
        <5>2. CASE ~Waiting(j)
          <6>1. Queued(j)' /\ j \in Nat /\ k \in Nat
            BY <1>1, <3>3, <3>6, <5>2, AskedFacts
          <6>2. j \in ToSet(outQueue[srv][s])
            <7>1. Queued(j)
              BY <3>2, <6>1
            <7>2. packet[j].srv = srv /\ packet[j].s = s
              BY <3>5, <3>6, <4>2 DEF SameLine
            <7> QED BY <7>1, <7>2, <2>1 DEF Queued, QueueInv
          <6> QED BY <3>1, <3>6, <4>2, <6>1, <6>2
        <5> QED BY <5>1, <5>2
      <4> QED BY <4>1, <4>2
    <3> QED BY <1>0, <3>4, <3>6, OrderKept
  <2> QED BY <2>3, <2>4
<1> QED BY <1>2, <1>3, <1>4, Zenon
        DEF Next, SendTo, PopPacket, NextServer, RecvFrom, PendingData, RecvReturns, vars

------------------------------------------------------------------------------
(* Loss                                                                    *)

(* A recvfrom has what an earlier server answered to its socket, and goes  *)
(* on to take something only where there was an answer to its socket.      *)
FromEarlier(th) ==
    call[th].result # None =>
        /\ packet[call[th].result].s = call[th].s
        /\ \E m \in DOMAIN Order :
              m < call[th].at /\ Order[m] = packet[call[th].result].srv
SawAnswer(th) ==
    call[th].pending =>
        \E j \in Asked : Done(j) /\ packet[j].s = call[th].s
                                 /\ packet[j].srv = Order[call[th].at]

CallInv == \A th \in Threads : FromEarlier(th) /\ SawAnswer(th)

(* What was found or seen does not change. *)
LEMMA CallKept ==
    ASSUME TypeOK, WaitInv, PlaceInv, WaitChange, CallInv, NEW th \in Threads,
           call'[th] = call[th]
    PROVE  FromEarlier(th)' /\ SawAnswer(th)'
<1>1. /\ FromEarlier(th) /\ SawAnswer(th)
      /\ call[th].result \in Packets \cup {None}
  BY DEF CallInv, TypeOK, Calls, Idle
<1>2. FromEarlier(th)'
  <2> SUFFICES ASSUME call[th].result # None
               PROVE  /\ packet'[call[th].result].s = call[th].s
                      /\ \E m \in DOMAIN Order :
                            m < call[th].at /\ Order[m] = packet'[call[th].result].srv
    BY DEF FromEarlier
  <2>1. Found(call[th].result) /\ call[th].result \in Packets
    BY <1>1 DEF Found
  <2>2. Done(call[th].result)
    BY <2>1, Zenon DEF PlaceInv, AnsweredInv
  <2>3. packet'[call[th].result] = packet[call[th].result]
    BY <2>2 DEF Done, WaitChange
  <2> QED BY <1>1, <2>3 DEF FromEarlier
<1>3. SawAnswer(th)'
  <2> SUFFICES ASSUME call[th].pending
               PROVE  \E j \in Asked' : /\ Done(j)' /\ packet'[j].s = call[th].s
                                        /\ packet'[j].srv = Order[call[th].at]
    BY DEF SawAnswer
  <2>1. PICK j \in Asked : Done(j) /\ packet[j].s = call[th].s
                           /\ packet[j].srv = Order[call[th].at]
    BY <1>1 DEF SawAnswer
  <2>2. j \in Asked' /\ Done(j)' /\ packet'[j] = packet[j]
    BY <2>1, DoneStep DEF WaitChange
  <2> QED BY <2>1, <2>2
<1> QED BY <1>2, <1>3

(* What pending_data saw was the answer of its server to the socket.       *)
LEMMA CallStep ==
    ASSUME TypeOK, WaitInv, PlaceInv, CallInv, [Next]_vars
    PROVE  CallInv'
<1>0. WaitChange /\ None \notin Packets
  BY WaitStep, UdpAssumption DEF UdpAssumption
<1>1. CASE UNCHANGED call
  BY <1>0, <1>1, CallKept DEF CallInv
<1>2. ASSUME NEW th \in Threads, \A u \in Threads : u # th => call'[u] = call[u],
             FromEarlier(th)', SawAnswer(th)'
      PROVE  CallInv'
  <2>1. \A u \in Threads : FromEarlier(u)' /\ SawAnswer(u)'
    BY <1>0, <1>2, CallKept
  <2> QED BY <2>1 DEF CallInv, FromEarlier, SawAnswer
<1>3. ASSUME NEW th \in Threads, NEW s \in Sockets, RecvFrom(th, s) PROVE CallInv'
  <2>1. /\ \A u \in Threads : u # th => call'[u] = call[u]
        /\ call'[th].result = None /\ ~call'[th].pending
    BY <1>3 DEF RecvFrom, TypeOK
  <2> QED BY <1>2, <2>1 DEF FromEarlier, SawAnswer
<1>4. ASSUME NEW th \in Threads, RecvReturns(th) PROVE CallInv'
  <2>1. /\ \A u \in Threads : u # th => call'[u] = call[u]
        /\ call'[th].result = None /\ ~call'[th].pending
    BY <1>4 DEF RecvReturns, TypeOK, Idle
  <2> QED BY <1>2, <2>1 DEF FromEarlier, SawAnswer
<1>5. ASSUME NEW th \in Threads, PendingData(th) PROVE CallInv'
  <2> DEFINE c == call[th]
  <2>1. c \in Calls /\ c # Idle /\ c.at \in DOMAIN Order /\ ~c.pending
    BY <1>5 DEF PendingData, Visiting, TypeOK
  <2>2. /\ c.s \in Sockets /\ Order[c.at] \in Servers /\ c.at \in Nat
        /\ c.result \in Packets \cup {None}
    BY <2>1, CallFacts, OrderFacts
  <2>3. /\ \A u \in Threads : u # th => call'[u] = call[u]
        /\ packet' = packet
        /\ \/ /\ outQueue[Order[c.at]][c.s] # <<>>
              /\ call'[th] = [c EXCEPT !.pending = TRUE]
           \/ call'[th] = [c EXCEPT !.at = c.at + 1]
    BY <1>5 DEF PendingData, HasPending, TypeOK
  <2>4. FromEarlier(th)
    BY DEF CallInv
  <2> HIDE DEF c
  <2>5. CASE /\ outQueue[Order[c.at]][c.s] # <<>>
             /\ call'[th] = [c EXCEPT !.pending = TRUE]
    <3>1. call'[th].result = c.result /\ call'[th].s = c.s /\ call'[th].at = c.at
      BY <2>1, <2>5 DEF Calls
    <3>2. FromEarlier(th)'
      BY <2>3, <2>4, <3>1 DEF FromEarlier, c
    <3> DEFINE q == outQueue[Order[c.at]][c.s]
    <3>3. q \in Seq(Nat) /\ q # <<>> /\ \A k \in ToSet(q) : k \in Packets /\ Queued(k)
      BY <2>2, <2>5, QueueFacts
    <3> HIDE DEF q
    <3>4. PICK k : k \in ToSet(q)
      <4>1. q[1] \in ToSet(q)
        BY <3>3, EmptySeq, DomainOfSeq DEF ToSet
      <4> QED BY <4>1
    <3>5. Done(k)
      BY <3>3, <3>4, Zenon DEF PlaceInv, AnsweredInv
    <3>6. packet[k].srv = Order[c.at] /\ packet[k].s = c.s
      BY <2>2, <3>4 DEF PlaceInv, QueueInv, q
    <3>7. k \in Asked' /\ Done(k)'
      BY <1>0, <3>5, DoneStep DEF Done, WaitChange
    <3>8. SawAnswer(th)'
      BY <2>3, <3>1, <3>6, <3>7 DEF SawAnswer, c
    <3> QED BY <1>2, <2>3, <3>2, <3>8
  <2>6. CASE call'[th] = [c EXCEPT !.at = c.at + 1]
    <3>1. /\ call'[th].result = c.result /\ call'[th].s = c.s /\ call'[th].at = c.at + 1
          /\ ~call'[th].pending
      BY <2>1, <2>6 DEF Calls
    <3>2. FromEarlier(th)'
      BY <2>2, <2>3, <2>4, <3>1, OrderFacts DEF FromEarlier, c
    <3>3. SawAnswer(th)'
      BY <3>1 DEF SawAnswer, c
    <3> QED BY <1>2, <2>3, <3>2, <3>3
  <2> QED BY <2>3, <2>5, <2>6
<1>6. ASSUME NEW th \in Threads, HandleOutput(th) PROVE CallInv'
  <2>1. QueueInv
    BY DEF PlaceInv
  <2>2. PICK srv \in Servers, s \in Sockets, new \in Packets \cup {None} :
           Takes(th, srv, s, new)
    BY <1>6, <2>1, OutputEffect
  <2>3. /\ \A u \in Threads : u # th => call'[u] = call[u]
        /\ call'[th] = [s |-> s, at |-> call[th].at + 1, pending |-> FALSE, result |-> new]
        /\ srv = Order[call[th].at] /\ call[th].at \in DOMAIN Order /\ packet' = packet
        /\ new = None \/ new \in ToSet(outQueue[srv][s])
    BY <2>2 DEF Takes
  <2>4. call[th].at < call[th].at + 1
    BY <2>3, OrderFacts
  <2>5. new # None => packet[new].srv = srv /\ packet[new].s = s
    BY <2>1, <2>3 DEF QueueInv
  <2>6. FromEarlier(th)'
    BY <2>3, <2>4, <2>5 DEF FromEarlier
  <2>7. SawAnswer(th)'
    BY <2>3 DEF SawAnswer
  <2> QED BY <1>2, <2>3, <2>6, <2>7
<1> QED BY <1>1, <1>3, <1>4, <1>5, <1>6, Zenon
        DEF Next, SendTo, PopPacket, NextServer, HandlePacket, vars

(* What is lost makes place for the answer of a later server.              *)
LEMMA LossStep ==
    ASSUME TypeOK, WaitInv, PlaceInv, CallInv, LossNeedsTwoServers, [Next]_vars
    PROVE  LossNeedsTwoServers'
<1>0. WaitChange
  BY WaitStep
<1> DEFINE Excused(k) ==
               \E j \in Asked, m, n \in DOMAIN Order :
                   /\ packet[j].s = packet[k].s
                   /\ packet[j].type = "discovery" /\ ~Waiting(j)
                   /\ Order[m] = packet[k].srv
                   /\ Order[n] = packet[j].srv
                   /\ m < n
<1>1. LossNeedsTwoServers <=> \A k \in lost : Excused(k)
  BY DEF LossNeedsTwoServers
<1>2. LossNeedsTwoServers' <=> \A k \in lost' : Excused(k)'
  BY DEF LossNeedsTwoServers
<1>3. ASSUME NEW k \in Packets, Done(k), Excused(k) PROVE Excused(k)'
  <2>1. PICK j \in Asked, m \in DOMAIN Order, n \in DOMAIN Order :
           /\ packet[j].s = packet[k].s
           /\ packet[j].type = "discovery" /\ ~Waiting(j)
           /\ Order[m] = packet[k].srv
           /\ Order[n] = packet[j].srv
           /\ m < n
    BY <1>3
  <2>2. packet'[k] = packet[k]
    BY <1>0, <1>3 DEF WaitChange, Done
  <2>3. j \in Asked' /\ packet'[j] = packet[j] /\ ~Waiting(j)'
    BY <1>0, <2>1 DEF WaitChange
  <2> QED BY <2>1, <2>2, <2>3
<1>4. \A k \in lost : Excused(k) /\ k \in Packets /\ Done(k)
  BY <1>1, Zenon DEF PlaceInv, AnsweredInv, TypeOK
<1> HIDE DEF Excused
<1>5. CASE UNCHANGED lost
  BY <1>2, <1>3, <1>4, <1>5
<1>6. ASSUME NEW th \in Threads, HandleOutput(th) PROVE LossNeedsTwoServers'
  <2> DEFINE c == call[th]
  <2>1. QueueInv
    BY DEF PlaceInv
  <2>2. PICK srv \in Servers, s \in Sockets, new \in Packets \cup {None} :
           Takes(th, srv, s, new)
    BY <1>6, <2>1, OutputEffect
  <2>3. /\ lost' = lost \cup ({c.result} \ {None}) /\ c.result \in Packets \cup {None}
        /\ c.pending = TRUE /\ c.at \in DOMAIN Order
    BY <2>2 DEF Takes
  <2>4. FromEarlier(th) /\ SawAnswer(th)
    BY DEF CallInv
  <2>5. ASSUME c.result # None PROVE Done(c.result) /\ Excused(c.result) /\ c.result \in Packets
    <3>1. PICK m \in DOMAIN Order : m < c.at /\ Order[m] = packet[c.result].srv
      BY <2>4, <2>5 DEF FromEarlier
    <3>2. PICK j \in Asked : Done(j) /\ packet[j].s = c.s /\ packet[j].srv = Order[c.at]
      BY <2>3, <2>4 DEF SawAnswer
    <3>3. packet[c.result].s = c.s
      BY <2>4, <2>5 DEF FromEarlier
    <3>4. Found(c.result) /\ c.result \in Packets
      BY <2>3, <2>5 DEF Found
    <3>5. Done(c.result)
      BY <3>4, Zenon DEF PlaceInv, AnsweredInv
    <3> HIDE DEF c
    <3>6. Excused(c.result)
      BY <2>3, <3>1, <3>2, <3>3 DEF Excused, Done
    <3> QED BY <3>4, <3>5, <3>6
  <2> HIDE DEF c
  <2> QED BY <1>2, <1>3, <1>4, <2>3, <2>5
<1> QED BY <1>5, <1>6, Zenon
        DEF Next, SendTo, PopPacket, NextServer, HandlePacket, RecvFrom, PendingData, RecvReturns,
            vars

------------------------------------------------------------------------------
(* The servers                                                             *)

UdpInv == TypeOK /\ WaitInv /\ PlaceInv /\ OldestFirst /\ CallInv /\ LossNeedsTwoServers

LEMMA UdpInit == Init => UdpInv
<1> SUFFICES ASSUME Init PROVE UdpInv
  OBVIOUS
<1>1. TypeOK /\ WaitInv /\ PlaceInv
  BY TypeInit, PlaceInit
<1>2. Asked = {} /\ lost = {} /\ \A th \in Threads : call[th] = Idle
  BY DEF Init, Asked
<1>3. OldestFirst /\ LossNeedsTwoServers
  BY <1>2 DEF OldestFirst, LossNeedsTwoServers
<1>4. CallInv
  BY <1>2 DEF CallInv, FromEarlier, SawAnswer, Idle
<1> QED BY <1>1, <1>3, <1>4 DEF UdpInv

(* Packets and what the servers and calls keep of them are what they are   *)
(* declared to be, however often and from wherever the stubs are called.   *)
THEOREM TypeCorrect == Spec => []TypeOK
<1>1. TypeOK /\ [Next]_vars => TypeOK'
  BY TypeStep
<1> QED BY <1>1, TypeInit, PTL DEF Spec

(* sendto_stub, udp_server and recvfrom_stub, for any number of threads    *)
(* and sockets: each discovery has one answer, those of a server to a      *)
(* socket are read in order, and one is lost only to a later server's.     *)
THEOREM AnswersAreOnceInOrder == Spec => []AnswersOnceInOrder
<1>1. UdpInv /\ [Next]_vars => UdpInv'
  BY TypeStep, WaitStep, PlaceStep, OrderStep, CallStep, LossStep, Zenon DEF UdpInv
<1>2. UdpInv => AnswersOnceInOrder
  BY OneAnswer, Zenon DEF UdpInv, AnswersOnceInOrder
<1> QED BY <1>1, <1>2, UdpInit, PTL DEF Spec
===============================================================================
