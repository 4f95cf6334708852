---------------------------- MODULE NameResolution ----------------------------
(***************************************************************************)
(* component/demonware.cpp: the stubs that answer for the names of the     *)
(* emulated servers and leave all others to the operating system, with the *)
(* registries of the servers and the allocator of utilities/memory.cpp     *)
(* whose blocks the answers are made of.                                   *)
(*                                                                         *)
(* Hash stands for jenkins_one_at_a_time.  A block of memory is its        *)
(* address; whoever allocates takes one that nobody holds.                 *)
(***************************************************************************)
EXTENDS Integers

CONSTANTS
    Threads, Sockets,
    Names,       \* that the game asks for
    TcpNames, UdpNames, blocked_hosts,
    Hash,        \* from names to addresses
    Blocks,      \* of memory
    None

VARIABLES
    pool_,       \* the blocks of the allocator
    system,      \* the blocks of the operating system's answers
    answers,     \* the addrinfo the game holds: [ai, addr, address, name, own]
    call,        \* per thread: the step of its call of a stub, and the answer in hand
    host,        \* per thread: the static hostent, [address, name]
    socket_map,  \* from sockets to the address of their server
    asked        \* history: the last question about an address and its answer

nameVars == <<pool_, system, answers, call, host, socket_map, asked>>

Free == Blocks \ (pool_ \cup system)

------------------------------------------------------------------------------
(* server_registry::find, by the address only *)

Registered(servers) == {Hash[n] : n \in servers}

FindServer(name) ==
    CASE Hash[name] \in Registered(TcpNames) \cup Registered(UdpNames) -> Hash[name]
      [] OTHER -> None

Idle == [step |-> "idle", answer |-> None]

NameInit ==
    /\ pool_ = {} /\ system = {} /\ answers = {}
    /\ call = [t \in Threads |-> Idle]
    /\ host = [t \in Threads |-> None]
    /\ socket_map = [s \in Sockets |-> None]
    /\ asked = None

\* An answer has two blocks if it is of the stubs (own), else one; a block that
\* is not yet allocated, or already freed, is None.
Answer(ai, addr, address, name, own) ==
    [ai |-> ai, addr |-> addr, address |-> address, name |-> name, own |-> own]

During(t, step, answer) == [call EXCEPT ![t] = [step |-> step, answer |-> answer]]

\* getaddrinfo_stub: the address is allocated, or the operating system asked ...
GetAddrInfo(t) ==
    /\ call[t] = Idle
    /\ \E name \in Names \ blocked_hosts, b \in Free :
         \/ /\ FindServer(name) # None
            /\ pool_' = pool_ \cup {b}
            /\ call' = During(t, "address", Answer(None, b, FindServer(name), name, TRUE))
            /\ UNCHANGED <<system, answers>>
         \/ /\ FindServer(name) = None
            /\ system' = system \cup {b}
            /\ answers' = answers \cup {Answer(b, b, Hash[name], name, FALSE)}
            /\ UNCHANGED <<pool_, call>>
    /\ UNCHANGED <<host, socket_map, asked>>

\* ... and then the addrinfo, for which the allocator is locked again.
GetAddrInfoEnd(t) ==
    /\ call[t].step = "address"
    /\ \E ai \in Free :
         /\ pool_' = pool_ \cup {ai}
         /\ answers' = answers \cup {[call[t].answer EXCEPT !.ai = ai]}
    /\ call' = [call EXCEPT ![t] = Idle]
    /\ UNCHANGED <<system, host, socket_map, asked>>

\* A blocked host is not found, whatever the registries and the system know.
GetBlocked(t) ==
    /\ call[t] = Idle
    /\ \E name \in Names \cap blocked_hosts : asked' = [kind |-> "blocked", name |-> name]
    /\ UNCHANGED <<pool_, system, answers, call, host, socket_map>>

\* Mutant: every answer is freed by the operating system.
IsOwn_Never(ai) == FALSE

\* allocator::find
IsOwn(ai) == ai \in pool_

\* freeaddrinfo_stub looks whose the answer is ...
FreeAddrInfo(t) ==
    /\ call[t] = Idle
    /\ \E a \in answers :
         /\ answers' = answers \ {a}
         /\ call' = During(t, IF IsOwn(a.ai) THEN "found" ELSE "missing", a)
    /\ UNCHANGED <<pool_, system, host, socket_map, asked>>

\* ... leaves it to the operating system, or frees the address ...
FreeAddress(t) ==
    /\ \/ /\ call[t].step = "missing"
          /\ system' = system \ {call[t].answer.ai}
          /\ call' = [call EXCEPT ![t] = Idle]
          /\ UNCHANGED pool_
       \/ /\ call[t].step = "found"
          /\ pool_' = pool_ \ {call[t].answer.addr}
          /\ call' = During(t, "rest", [call[t].answer EXCEPT !.addr = None])
          /\ UNCHANGED system
    /\ UNCHANGED <<answers, host, socket_map, asked>>

\* ... and then the addrinfo; allocator::free takes the mutex once per block.
FreeRest(t) ==
    /\ call[t].step = "rest"
    /\ pool_' = pool_ \ {call[t].answer.ai}
    /\ call' = [call EXCEPT ![t] = Idle]
    /\ UNCHANGED <<system, answers, host, socket_map, asked>>

\* Mutant: the answers of all threads are in one place.
HostAfter_Shared(t, answer) == [u \in Threads |-> answer]

HostAfter(t, answer) == [host EXCEPT ![t] = answer]

\* gethostbyname_stub; the system keeps its answer per thread as well.
GetHostByName(t) ==
    /\ call[t] = Idle
    /\ \E name \in Names :
         host' = HostAfter(t, [address |-> Hash[name], name |-> name, thread |-> t])
    /\ UNCHANGED <<pool_, system, answers, call, socket_map, asked>>

\* connect_stub, with the address of an answer: only of a TCP server it links.
Connect(t, s) ==
    /\ call[t] = Idle
    /\ \E address \in {a.address : a \in answers} \cup (IF host[t] = None THEN {} ELSE {host[t].address}) :
         socket_map' = [socket_map EXCEPT ![s] =
             IF address \in Registered(TcpNames) THEN address ELSE @]
    /\ UNCHANGED <<pool_, system, answers, call, host, asked>>

\* closesocket_stub: socket_unlink
Close(s) ==
    /\ socket_map[s] # None
    /\ socket_map' = [socket_map EXCEPT ![s] = None]
    /\ UNCHANGED <<pool_, system, answers, call, host, asked>>

\* getpeername_stub and getsockname_stub give the same address.
GetPeerName(s) ==
    /\ socket_map[s] # None
    /\ asked' = [kind |-> "peer", address |-> socket_map[s]]
    /\ UNCHANGED <<pool_, system, answers, call, host, socket_map>>

NameNext ==
    \/ \E t \in Threads :
         \/ GetAddrInfo(t) \/ GetAddrInfoEnd(t) \/ GetBlocked(t)
         \/ FreeAddrInfo(t) \/ FreeAddress(t) \/ FreeRest(t) \/ GetHostByName(t)
         \/ \E s \in Sockets : Connect(t, s)
    \/ \E s \in Sockets : Close(s) \/ GetPeerName(s)

NameSpec ==
    NameInit /\ [][NameNext]_<<pool_, system, answers, call, host, socket_map, asked>>

------------------------------------------------------------------------------
(* Properties *)

\* The blocks that an answer, or a thread in the middle of a call, has.
Of(answer) == {answer.ai, answer.addr} \ {None}
In(t) == IF call[t] = Idle THEN {} ELSE Of(call[t].answer)

\* Each block of memory is held by one answer, or by one thread that is making
\* or freeing an answer, and returns to whom it came from: the operating system
\* never keeps or frees a block of the allocator, nor the allocator one of the
\* system, whatever other threads allocate and free between the calls.
BlocksReturn ==
    LET Held(own) == UNION ({Of(a) : a \in {b \in answers : b.own = own}}
                            \cup {In(t) : t \in {u \in Threads : call[u] # Idle
                                                                  /\ call[u].answer.own = own}})
    IN /\ pool_ = Held(TRUE) /\ system = Held(FALSE)
       /\ \A a \in answers : a.own <=> a.ai # a.addr
       /\ \A a, b \in answers : a # b => Of(a) \cap Of(b) = {}
       /\ \A a \in answers, t \in Threads : Of(a) \cap In(t) = {}
       /\ \A t, u \in Threads : t # u => In(t) \cap In(u) = {}

\* What a thread has been told of a host is of the name it has asked for, until
\* it asks again, and a socket that is linked has a server of its own address.
HostsAreOwn ==
    /\ \A t \in Threads : host[t] # None => host[t].thread = t /\ host[t].address = Hash[host[t].name]
    /\ asked # None /\ asked.kind = "peer" => asked.address \in Registered(TcpNames)
===============================================================================
