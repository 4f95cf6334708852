----------------------------- MODULE RequestReply -----------------------------
(***************************************************************************)
(* What an emulated TCP server promises the game, whatever threads, queues *)
(* and sockets carry it: packets are answered one after the other in the   *)
(* order they were sent, none twice, and every byte of the answers is read *)
(* once, in order.  Packets and bytes are numbered from 1 per server.      *)
(***************************************************************************)
EXTENDS Naturals, Sequences

CONSTANTS
    Servers,
    ReplyLens   \* ReplyLens[srv]: the lengths an answer of the server can have

VARIABLES
    asked,      \* asked[srv]: packets sent to it
    answered,   \* answered[srv]: how many of them it has dealt with
    sent,       \* sent[srv]: bytes it has sent back
    read        \* read[srv]: bytes the game has received, in this order

Init ==
    /\ asked = [srv \in Servers |-> 0]
    /\ answered = [srv \in Servers |-> 0]
    /\ sent = [srv \in Servers |-> 0]
    /\ read = [srv \in Servers |-> <<>>]

Ask(srv) ==
    /\ asked' = [asked EXCEPT ![srv] = @ + 1]
    /\ UNCHANGED <<answered, sent, read>>

Reply(srv) ==
    /\ answered[srv] < asked[srv]
    /\ answered' = [answered EXCEPT ![srv] = @ + 1]
    /\ \E n \in ReplyLens[srv] : sent' = [sent EXCEPT ![srv] = @ + n]
    /\ UNCHANGED <<asked, read>>

Read(srv) ==
    /\ \E n \in 1..sent[srv] - Len(read[srv]) :
          read' = [read EXCEPT ![srv] = @ \o [i \in 1..n |-> Len(@) + i]]
    /\ UNCHANGED <<asked, answered, sent>>

Next == \E srv \in Servers : Ask(srv) \/ Reply(srv) \/ Read(srv)

Spec == Init /\ [][Next]_<<asked, answered, sent, read>>
==============================================================================
