---------------------------- MODULE MCDemonwareUdp ----------------------------
(* DemonwareUdp with two of the four STUN servers. *)
EXTENDS DemonwareUdp

CONSTANTS Us, Eu

TwoServers == <<Us, Eu>>
==============================================================================
