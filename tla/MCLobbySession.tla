-------------------------- MODULE MCLobbySession --------------------------
EXTENDS LobbySession

\* A task of every kind: plain, with objects or an error, that can throw, that
\* is no reply, structured, not registered, and of a service that is missing.
MCRequests == {<<4, 1>>, <<8, 1>>, <<52, 5>>, <<18, 1>>, <<125, 9>>, <<4, 9>>, <<99, 7>>}
===========================================================================
