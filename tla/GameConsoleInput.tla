---------------------------- MODULE GameConsoleInput ----------------------------
(***************************************************************************)
(* component/game_console.cpp and component/keycatchers.cpp: the line of   *)
(* input of the console inside the game.  The main thread handles keys and *)
(* characters, the renderer draws once a frame.  The line, its history,    *)
(* fixed_input, the matches and the completion are shared by the two       *)
(* without a lock: draw_input takes several steps here and the handlers of *)
(* the main thread, one step each, fall between them.                      *)
(*                                                                         *)
(* A line is a sequence of characters; find_matches is a choice of how     *)
(* many names match, and the matches are known by the input they were      *)
(* computed for.  The output is in GameConsoleOutput.                      *)
(***************************************************************************)
EXTENDS Integers, SequencesExt

CONSTANTS
    Keys,          \* the characters that are typed, a subset of Chars
    Names,         \* texts of the names in the tables, none empty
    MaxText,       \* bound: strlen that fits the buffer, 255 in the code, at least 1
    MaxHistory,    \* entries of history, 10 in the code, at least 1
    None

Slash == "/"
Space == " "
Chars == Keys \cup {Space} \cup UNION {ToSet(n) : n \in Names}
Texts == UNION {[1..n -> Chars] : n \in 0..MaxText}

ASSUME InputAssumption == Names \subseteq Seq(Chars) /\ MaxHistory \in Nat \ {0}

VARIABLES
    active,       \* bit 0 of keyCatchers
    buffer,       \* con.buffer up to its terminator
    cursor,       \* con.cursor
    history,
    historyIndex, \* history_index
    fixedInput,   \* fixed_input
    matches,      \* [for, count]: the input matches was computed for, and
                  \* whether none, some or too many names match
    mayComplete,  \* may_auto_complete
    choice,       \* auto_complete_choice: [for, name] or None
    draw,         \* [pc, input]: draw_input on the renderer's thread
    overrun,      \* a character was written behind the buffer
    sent,         \* history: the text just given to Cbuf_AddText, or None
    seen          \* history: the line is as it was in a "whole" draw, since
                  \* the "part" of the draw under way, or not ("no")

line    == <<buffer, cursor>>
recall  == <<history, historyIndex>>
suggest == <<fixedInput, matches, mayComplete, choice>>
ghosts  == <<sent, seen>>
vars == <<active, line, recall, suggest, draw, overrun, ghosts>>

Matches == [for : Texts \cup {None}, count : {"none", "some", "many"}]
Cleared == [for |-> None, count |-> "none"]
Resting == [pc |-> "idle", input |-> <<>>]

Init ==
    /\ active = FALSE
    /\ buffer = <<>> /\ cursor = 0
    /\ history = <<>> /\ historyIndex = -1
    /\ fixedInput = <<>> /\ matches = Cleared
    /\ mayComplete = FALSE /\ choice = None
    /\ draw = Resting
    /\ overrun = FALSE
    /\ sent = None /\ seen = "no"

------------------------------------------------------------------------------
(* The line.  ClearInput leaves may_auto_complete and the choice.          *)

ClearedInput ==
    /\ fixedInput' = <<>>
    /\ matches' = Cleared
    /\ UNCHANGED <<mayComplete, choice>>

Edited(b, c) == buffer' = b /\ cursor' = c /\ seen' = "no"

(* ctrl-C *)
ClearConsole ==
    /\ active
    /\ ClearedInput /\ Edited(<<>>, 0)
    /\ history' = <<>> /\ historyIndex' = -1
    /\ sent' = None
    /\ UNCHANGED <<active, draw, overrun>>

(* The grave key, without shift or on a closed console (toggle_console) *)
Toggle ==
    /\ active' = ~active
    /\ ClearedInput /\ Edited(<<>>, 0)
    /\ sent' = None
    /\ UNCHANGED <<recall, draw, overrun>>

(* A printable character, typed or pasted.  With 255 characters in the     *)
(* buffer and the cursor before the last, the terminator is moved behind   *)
(* the buffer: what follows is undefined and the model stops.              *)
TypeChar ==
    /\ active /\ cursor < MaxText
    /\ sent' = None
    /\ IF Len(buffer) = MaxText
         THEN overrun' = TRUE /\ UNCHANGED <<line, seen>>
         ELSE /\ \E k \in Keys : Edited(InsertAt(buffer, cursor + 1, k), cursor + 1)
              /\ UNCHANGED overrun
    /\ UNCHANGED <<recall, suggest, active, draw>>

Backspace ==
    /\ active /\ cursor > 0
    /\ Edited(RemoveAt(buffer, cursor), cursor - 1)
    /\ sent' = None
    /\ UNCHANGED <<recall, suggest, active, draw, overrun>>

MoveCursor ==
    /\ active
    /\ \/ cursor < Len(buffer) /\ cursor' = cursor + 1
       \/ cursor > 0 /\ cursor' = cursor - 1
    /\ sent' = None
    /\ UNCHANGED <<recall, suggest, active, draw, overrun, buffer, seen>>

(* Tab: the completion replaces the line behind a leading slash.  A name   *)
(* has at most 63 characters and always fits; here it must fit MaxText.    *)
Complete ==
    LET name == IF choice = None THEN <<>> ELSE choice.name
        text == (IF buffer # <<>> /\ buffer[1] = Slash THEN <<Slash>> ELSE <<>>) \o name
    IN /\ active /\ mayComplete
       /\ Len(text) < MaxText
       /\ ClearedInput
       /\ Edited(Append(text, Space), Len(text) + 1)
       /\ sent' = None
       /\ UNCHANGED <<recall, active, draw, overrun>>

(* The arrows up and down recall a line of the history *)
Recalled(up) ==
    IF up THEN IF historyIndex + 1 >= Len(history) THEN Len(history) - 1 ELSE historyIndex + 1
          ELSE IF historyIndex = -1 THEN -1 ELSE historyIndex - 1

Recall(up) ==
    LET i == Recalled(up)
        text == IF i + 1 \in DOMAIN history THEN history[i + 1] ELSE <<>>
    IN /\ active
       /\ historyIndex' = i
       /\ ClearedInput /\ Edited(text, Len(text))
       /\ sent' = None
       /\ UNCHANGED <<history, active, draw, overrun>>

(* Enter runs fixed_input, which the renderer computed from the line, and  *)
(* puts the line in front of the history.                            *)
Submit ==
    LET again == historyIndex # -1 /\ history[historyIndex + 1] = buffer
        rest  == IF again THEN RemoveAt(history, historyIndex + 1) ELSE history
        all   == <<buffer>> \o rest
    IN /\ active
       /\ \E i \in DOMAIN buffer : buffer[i] # Space
       /\ history' = SubSeq(all, 1, IF Len(all) > MaxHistory THEN MaxHistory ELSE Len(all))
       /\ historyIndex' = -1
       /\ sent' = fixedInput
       /\ ClearedInput /\ Edited(<<>>, 0)
       /\ UNCHANGED <<active, draw, overrun>>

------------------------------------------------------------------------------
(* The renderer: draw_console, once a frame                                *)

(* A leading slash is not part of the input, if something follows it *)
Stripped(b) == IF Len(b) > 1 /\ b[1] = Slash THEN Tail(b) ELSE b

DrawnBy(whole) ==
    seen' = IF seen = "no" THEN IF whole THEN "whole" ELSE "part" ELSE seen

\* Mutant: matches are looked up again only when the length changed.
Known_SameLength(input) == Len(input) = Len(fixedInput)

(* draw_input compares the line with the input of the last draw *)
Known(input) == input = fixedInput

\* Mutant: the completion of an earlier frame is kept.
DrawBegin_Keep ==
    LET input == Stripped(buffer)
    IN /\ draw.pc = "idle"
       /\ IF active
            THEN /\ UNCHANGED choice
                 /\ IF input = <<>>
                      THEN DrawnBy(TRUE) /\ UNCHANGED draw
                      ELSE /\ DrawnBy(FALSE)
                           /\ draw' = [pc |-> IF Known(input) THEN "suggest" ELSE "find",
                                       input |-> input]
            ELSE UNCHANGED <<choice, draw, seen>>
       /\ UNCHANGED <<active, line, recall, fixedInput, matches, mayComplete,
                      overrun, sent>>

DrawBegin ==
    LET input == Stripped(buffer)
    IN /\ draw.pc = "idle"
       /\ IF active
            THEN /\ choice' = None
                 /\ IF input = <<>>
                      THEN DrawnBy(TRUE) /\ UNCHANGED draw
                      ELSE /\ DrawnBy(FALSE)
                           /\ draw' = [pc |-> IF Known(input) THEN "suggest" ELSE "find",
                                       input |-> input]
            ELSE UNCHANGED <<choice, draw, seen>>
       /\ UNCHANGED <<active, line, recall, fixedInput, matches, mayComplete,
                      overrun, sent>>

(* matches.clear and find_matches *)
DrawFind ==
    /\ draw.pc = "find"
    /\ \E n \in {"none", "some", "many"} : matches' = [for |-> draw.input, count |-> n]
    /\ draw' = [draw EXCEPT !.pc = "fix"]
    /\ UNCHANGED <<active, line, recall, fixedInput, mayComplete, choice,
                   overrun, ghosts>>

DrawFix ==
    /\ draw.pc = "fix"
    /\ fixedInput' = draw.input
    /\ draw' = [draw EXCEPT !.pc = "suggest"]
    /\ UNCHANGED <<active, line, recall, matches, mayComplete, choice,
                   overrun, ghosts>>

(* The tests of the number of matches *)
DrawSuggest ==
    /\ draw.pc = "suggest"
    /\ mayComplete' = FALSE
    /\ IF matches.count = "some"
         THEN draw' = [draw EXCEPT !.pc = "choose"] /\ UNCHANGED seen
         ELSE /\ draw' = Resting
              /\ seen' = IF seen = "part" THEN "whole" ELSE seen
    /\ UNCHANGED <<active, line, recall, fixedInput, matches, choice, overrun,
                   sent>>

(* The use of matches[0].  If the main thread has cleared the matches      *)
(* meanwhile, the name read is that of a destroyed element.                *)
DrawChoose ==
    /\ draw.pc = "choose"
    /\ \E n \in Names : choice' \in {[for |-> matches.for, name |-> n]}
                            \cup (IF matches.for = None THEN {None} ELSE {})
    /\ mayComplete' = TRUE
    /\ draw' = Resting
    /\ seen' = IF seen = "part" THEN "whole" ELSE seen
    /\ UNCHANGED <<active, line, recall, fixedInput, matches, overrun, sent>>

Next ==
    /\ ~overrun
    /\ \/ Toggle \/ ClearConsole
       \/ TypeChar \/ Backspace \/ MoveCursor \/ Complete \/ Submit
       \/ \E up \in BOOLEAN : Recall(up)
       \/ DrawBegin \/ DrawFind \/ DrawFix \/ DrawSuggest \/ DrawChoose

Spec == Init /\ [][Next]_vars

------------------------------------------------------------------------------
(* Properties                                                              *)

(* Types; the cursor is inside the line and the index inside the history.  *)
TypeOK ==
    /\ buffer \in Texts /\ cursor \in 0..Len(buffer)
    /\ history \in Seq(Texts) /\ Len(history) <= MaxHistory
    /\ historyIndex \in -1 .. Len(history) - 1
    /\ fixedInput \in Texts /\ matches \in Matches

(* Enter runs what the player sees: a line that the renderer has drawn     *)
(* since it was last edited is the command that is executed, without its   *)
(* leading slash, although Enter does not read the line but fixed_input.   *)
ExecutedIsSeen ==
    [][sent = None /\ sent' # None /\ seen = "whole" => sent' = Stripped(buffer)]_vars

(* Tab inserts what the player sees: a completion on offer for a line that *)
(* has been drawn since its last edit was found for this line, whatever    *)
(* the two threads did to the matches of earlier lines.                    *)
SuggestionIsSeen ==
    seen = "whole" /\ choice # None /\ draw.pc = "idle"
        => choice.for = Stripped(buffer)

(* Both keys act on the line that the player sees. *)
KeysActOnWhatIsSeen == ExecutedIsSeen /\ []SuggestionIsSeen
================================================================================
