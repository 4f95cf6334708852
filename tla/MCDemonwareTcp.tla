---------------------------- MODULE MCDemonwareTcp ----------------------------
(* DemonwareTcp with two servers: the lobby answers every packet, the file  *)
(* share may also answer with nothing.                                      *)
EXTENDS DemonwareTcp

CONSTANTS Lobby, Fileshare

BothServers   == <<Lobby, Fileshare>>
BothReplyLens == Lobby :> {1} @@ Fileshare :> {0, 3}
==============================================================================
