------------------------------ MODULE MCStorage -------------------------------
(* What the client keeps for the game: behind the emulated services, and    *)
(* for the names of their servers.  A behaviour explores one of the parts.  *)
(*   - PooledStorage: two films, which can share a second, a name and the   *)
(*     upload under way;                                                    *)
(*   - ObjectStore: two objects and the profile, with two contents and the  *)
(*     empty one, in batches of two;                                        *)
(*   - NameResolution: two threads, three names and three blocks.           *)
EXTENDS PooledStorage, TLC

MCCategory == [u \in Uploads |-> "demo"]
MCSymmetry == Permutations(Uploads)

CONSTANTS ObjectNames, Profile, Contents, Empty, MaxBatch

VARIABLES objectDirectory, objectFiles, response, known, unsure

Objects == INSTANCE ObjectStore
    WITH Objects <- ObjectNames, directory <- objectDirectory, files <- objectFiles

objectVars == <<objectDirectory, objectFiles, response, known, unsure>>

CONSTANTS Threads, Sockets, HostNames, TcpNames, UdpNames, blocked_hosts, Hash, Blocks

VARIABLES pool_, system, answers, call, host, socket_map, asked

Hosts == INSTANCE NameResolution WITH Names <- HostNames

hostVars == <<pool_, system, answers, call, host, socket_map, asked>>

MCHash == [lobby |-> 1, stun |-> 2, web |-> 3, ads |-> 4]

MCInit == Init /\ Objects!Init /\ Hosts!NameInit

\* The other parts are in one of the states they start in, and stay there.
Rest(part) ==
    /\ part = "uploads" \/ (Init /\ UNCHANGED vars)
    /\ part = "objects" \/ (~objectDirectory /\ Objects!Init /\ UNCHANGED objectVars)
    /\ part = "hosts" \/ (Hosts!NameInit /\ UNCHANGED hostVars)

MCNext ==
    \/ Rest("uploads") /\ Next
    \/ Rest("objects") /\ Objects!Next
    \/ Rest("hosts") /\ Hosts!NameNext

MCSpec == MCInit /\ [][MCNext]_<<vars, objectVars, hostVars>>

(* Object store: what the game is told of its files is true.                *)
ResponsesAreTrue == Objects!ResponsesAreTrue

(* Name resolution: each block of memory goes back to whom it came from,    *)
(* whatever other threads resolve and free meanwhile, and what a thread or  *)
(* a socket is told of a host is its own.                                   *)
ResolverIsTrue == Hosts!BlocksReturn /\ Hosts!HostsAreOwn
===============================================================================
