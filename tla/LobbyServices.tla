--------------------------- MODULE LobbyServices ---------------------------
(***************************************************************************)
(* The services of the lobby and what each of their tasks answers.  A      *)
(* service is a function from the task ids it registers to the set of the  *)
(* outcomes its handler can have:                                          *)
(*   "plain"    a reply without error and without objects                  *)
(*   "objects"  a reply with at least one result object                    *)
(*   "struct"   a structured reply                                         *)
(*   "error"    a reply with an error code                                 *)
(*   "message"  a message that is no reply, without transaction id         *)
(*   "none"     the handler throws before it replies: std::filesystem      *)
(*              throws when a directory it lists does not exist, or one it *)
(*              needs for a file it writes cannot be made                  *)
(* The arguments of a task and the contents of the objects are abstracted. *)
(***************************************************************************)
EXTENDS Naturals

Outcome == {"plain", "objects", "struct", "error", "message", "none"}

AllPlain(tasks) == [t \in tasks |-> {"plain"}]

bdStats == AllPlain((1 .. 8) \cup (10 .. 13))

\* 1 reads a profile, that may not exist; 3 writes one.
bdProfiles ==
    [t \in 1 .. 8 |-> CASE t = 1 -> {"objects", "error"}
                        [] t = 3 -> {"plain", "none"}
                        [] OTHER -> {"plain"}]

\* 6 is the time.
bdTitleUtilities ==
    [t \in {1, 2} \cup (6 .. 10) |-> IF t = 6 THEN {"objects"} ELSE {"plain"}]

bdKeyArchive == AllPlain({1, 2, 3, 5, 6})

bdCounter == AllPlain({1, 2})

bdDML == [t \in {3} |-> {"objects"}]

bdGroup == AllPlain(1 .. 4)

bdAnticheat == AllPlain(2 .. 6)

\* 5 lists the demos of the file share directory.
bdTags ==
    [t \in 1 .. 5 |-> IF t = 5 THEN {"plain", "objects", "none"} ELSE {"plain"}]

\* 1, 9 read metadata; 5, 6 and 17 write it, and 17 answers that the
\* service is not available whether it wrote or not.
bdPooledStorage ==
    [t \in {1, 5, 6, 8, 9} \cup (17 .. 22) |->
        CASE t = 1        -> {"plain", "objects"}
          [] t \in {5, 6} -> {"objects", "none"}
          [] t = 9        -> {"objects", "error"}
          [] t = 17       -> {"error", "none"}
          [] OTHER        -> {"plain"}]

bdEventLog == AllPlain(1 .. 6)

bdRichPresence == AllPlain({1, 2})

bdMarketplace == [t \in {204, 245} |-> IF t = 245 THEN {"struct"} ELSE {"plain"}]

bdPublisherVariables == AllPlain({1})

bdMarketingComms == AllPlain({6, 7})

bdUNK125 == [t \in {1, 2, 3, 9} |-> {"struct"}]

\* 2 and 7 write files, 9 lists a directory that need not exist, 5 and 8
\* answer that the object was not found.
bdObjectStore ==
    [t \in {2, 3, 16, 18} \cup (5 .. 9) |->
        CASE t \in {2, 7, 9} -> {"struct", "none"}
          [] t \in {5, 8}    -> {"error"}
          [] OTHER           -> {"struct"}]

bdLootGeneration == [t \in {2} |-> {"struct"}]

-----------------------------------------------------------------------------

BandwidthTest == 18   \* the service that has no tasks and does not look at one

\* services_
Services ==
    [s \in {4, 8, 12, 15, 23, 27, 28, 38, 52, 58, 67, 68, 80, 95, 104, 125, 193, 195} |->
        CASE s = 4   -> bdStats              [] s = 8   -> bdProfiles
          [] s = 12  -> bdTitleUtilities     [] s = 15  -> bdKeyArchive
          [] s = 23  -> bdCounter            [] s = 27  -> bdDML
          [] s = 28  -> bdGroup              [] s = 38  -> bdAnticheat
          [] s = 52  -> bdTags               [] s = 58  -> bdPooledStorage
          [] s = 67  -> bdEventLog           [] s = 68  -> bdRichPresence
          [] s = 80  -> bdMarketplace        [] s = 95  -> bdPublisherVariables
          [] s = 104 -> bdMarketingComms     [] s = 125 -> bdUNK125
          [] s = 193 -> bdObjectStore        [] s = 195 -> bdLootGeneration]

Registers(s, t) == s \in DOMAIN Services /\ t \in DOMAIN Services[s]

\* What the lobby does with task t of service s: a service or task it does
\* not know gets a plain reply.
Outcomes(s, t) ==
    IF s = BandwidthTest THEN {"message"}
    ELSE IF Registers(s, t) THEN Services[s][t]
    ELSE {"plain"}
=============================================================================
