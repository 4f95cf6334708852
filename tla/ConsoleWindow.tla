----------------------------- MODULE ConsoleWindow -----------------------------
(***************************************************************************)
(* component/console.cpp: the console window.  Its own thread waits for    *)
(* input events and edits the line; printf and print, called by any        *)
(* thread, take the line off the screen, print their message and put the   *)
(* line back.  Both hold print_mutex, so each is one step; only a resize   *)
(* releases the mutex between clear and update.                            *)
(*                                                                         *)
(* The screen is the row the cursor is in: a cell holds a space, a         *)
(* character of the prompt or a character of the line.  A line that fills  *)
(* the row, with the prompt, takes the cursor to the next row, and nothing *)
(* takes it back: the row above keeps what it holds.  "wrapped" says that  *)
(* this has happened since a new line was begun.                           *)
(***************************************************************************)
EXTENDS Integers, SequencesExt

CONSTANTS
    Keys,         \* characters that are typed
    PromptLength, \* branding_length, 8 in the code
    Width,        \* cells of a row of the window
    BufferSize,   \* sizeof(con.buffer), 512 in the code
    MaxHistory    \* entries of history, 10 in the code

Blank == " "
Sign  == ">"
Empty == [i \in 1..Width |-> Blank]

VARIABLES
    buffer, cursor, history,
    historyIndex, \* history_index
    row,          \* [1..Width -> cells]
    column,       \* of the screen's cursor, from 0
    wrapped,      \* history: a line filled its row since a new line was begun
    thread,       \* the console thread: "none", "wait", "resize", "ended"
    kill,
    event,        \* kill_event is set; it is never reset
    destroying    \* pre_destroy: "no", "set", "join", "done"

line   == <<buffer, cursor, history, historyIndex>>
screen == <<row, column, wrapped>>
life   == <<thread, kill, event, destroying>>
vars   == <<line, screen, life>>

Init ==
    /\ buffer = <<>> /\ cursor = 0 /\ history = <<>> /\ historyIndex = -1
    /\ row = Empty /\ column = 0 /\ wrapped = FALSE
    /\ thread = "none" /\ kill = FALSE /\ event = FALSE /\ destroying = "no"

------------------------------------------------------------------------------
(* The screen *)

Prompted(text) == [i \in 1..PromptLength |-> Sign] \o text

Over(cells, text) ==
    [i \in 1..Width |-> IF i <= Len(text) THEN text[i] ELSE cells[i]]

(* The console goes to the next row when the last cell of a row is written. *)
Wraps(text) == PromptLength + Len(text) >= Width

(* The row of the cursor after the text was written from its first cell;   *)
(* the rows below are blank, as the cursor never goes up.                  *)
Written(cells, text) ==
    LET n == Len(text)
    IN IF n < Width THEN Over(cells, text)
                    ELSE Over(Empty, SubSeq(text, (n \div Width) * Width + 1, n))

(* clear_output blanks as many cells as the prompt and the line take *)
Cleared(cells, text) == Written(cells, [i \in DOMAIN Prompted(text) |-> Blank])

(* update writes the line over what the row holds; the cursor is not moved *)
(* to a place behind the row.                                              *)
Drawn(cells, text, at) ==
    /\ row' = Written(cells, Prompted(text))
    /\ column' = IF PromptLength + at < Width THEN PromptLength + at
                 ELSE (PromptLength + Len(text)) % Width

Updated(cells, text, at) == Drawn(cells, text, at) /\ wrapped' = (wrapped \/ Wraps(text))

FreshRow == row' = Empty /\ column' = 0 /\ wrapped' = FALSE

(* dispatch_message: the message ends its row, the line begins a new one *)
DispatchMessage ==
    /\ Drawn(Empty, buffer, cursor) /\ wrapped' = Wraps(buffer)
    /\ UNCHANGED <<line, life>>

------------------------------------------------------------------------------
(* handle_input, on the console thread *)

Waiting == thread = "wait" /\ ~kill

Index(up) ==
    IF up THEN IF historyIndex + 1 >= Len(history) THEN Len(history) - 1
                                                   ELSE historyIndex + 1
          ELSE IF historyIndex = -1 THEN -1 ELSE historyIndex - 1

Recall(up) ==
    LET text == IF Index(up) = -1 THEN <<>> ELSE history[Index(up) + 1]
    IN /\ Waiting
       /\ historyIndex' = Index(up)
       /\ buffer' = text /\ cursor' = Len(text)
       /\ Updated(Cleared(row, buffer), text, Len(text))
       /\ UNCHANGED <<history, life>>

MoveCursor ==
    /\ Waiting
    /\ \/ cursor > 0 /\ cursor' = cursor - 1
       \/ cursor < Len(buffer) /\ cursor' = cursor + 1
    /\ column' = IF PromptLength + cursor' < Width THEN PromptLength + cursor' ELSE column
    /\ UNCHANGED <<buffer, history, historyIndex, row, wrapped, life>>

Return ==
    LET again == historyIndex # -1 /\ history[historyIndex + 1] = buffer
        rest  == IF again THEN RemoveAt(history, historyIndex + 1) ELSE history
        all   == IF buffer = <<>> THEN rest ELSE <<buffer>> \o rest
    IN /\ Waiting
       /\ history' = IF Len(all) > MaxHistory THEN RemoveAt(all, MaxHistory + 1) ELSE all
       /\ historyIndex' = -1
       /\ buffer' = <<>> /\ cursor' = 0
       /\ FreshRow
       /\ UNCHANGED life

\* Mutant: the line is taken off the screen after it was shortened.
Backspace_ClearLate ==
    LET text == RemoveAt(buffer, cursor)
    IN /\ Waiting /\ cursor > 0
       /\ buffer' = text /\ cursor' = cursor - 1
       /\ Updated(Cleared(row, text), text, cursor - 1)
       /\ UNCHANGED <<history, historyIndex, life>>

Backspace ==
    LET text == RemoveAt(buffer, cursor)
    IN /\ Waiting /\ cursor > 0
       /\ buffer' = text /\ cursor' = cursor - 1
       /\ Updated(Cleared(row, buffer), text, cursor - 1)
       /\ UNCHANGED <<history, historyIndex, life>>

(* clear_output, and the cursor at the start of its row *)
Blanked == row' = Cleared(row, buffer) /\ column' = 0 /\ wrapped' = (wrapped \/ Wraps(buffer))

(* Escape empties the line and leaves the row blank *)
Escape ==
    /\ Waiting
    /\ buffer' = <<>> /\ cursor' = 0
    /\ Blanked
    /\ UNCHANGED <<history, historyIndex, life>>

(* get_max_input_length: the width of the window leaves no room for the    *)
(* prompt, the size of the buffer does.                                    *)
MaxInputLength == IF Width - 2 < BufferSize - PromptLength THEN Width - 2
                                                           ELSE BufferSize - PromptLength

TypeChar ==
    /\ Waiting
    /\ Len(buffer) + 1 < MaxInputLength
    /\ \E k \in Keys :
          /\ buffer' = InsertAt(buffer, cursor + 1, k)
          /\ Updated(row, buffer', cursor + 1)
    /\ cursor' = cursor + 1
    /\ UNCHANGED <<history, historyIndex, life>>

(* handle_resize: clear, then update *)
Resize ==
    /\ Waiting
    /\ buffer' = <<>> /\ cursor' = 0
    /\ Blanked
    /\ thread' = "resize"
    /\ UNCHANGED <<history, historyIndex, kill, event, destroying>>

Resized ==
    /\ thread = "resize"
    /\ Updated(row, buffer, cursor)
    /\ thread' = "wait"
    /\ UNCHANGED <<line, kill, event, destroying>>

------------------------------------------------------------------------------
(* The thread and the component *)

PreStart ==
    /\ thread = "none" /\ destroying = "no"
    /\ thread' = "wait"
    /\ UNCHANGED <<line, screen, kill, event, destroying>>

(* The wait ends, with the event or with input, and kill is set.  A        *)
(* message that is not input changes nothing here.                         *)
Woken(by) ==
    /\ thread = "wait" /\ kill
    /\ by = "event" => event
    /\ thread' = "ended"
    /\ UNCHANGED <<line, screen, kill, event, destroying>>

PreDestroy ==
    /\ destroying = "no"
    /\ kill' = TRUE
    /\ destroying' = "set"
    /\ UNCHANGED <<line, screen, thread, event>>

SetKillEvent ==
    /\ destroying = "set"
    /\ event' = TRUE
    /\ destroying' = "join"
    /\ UNCHANGED <<line, screen, thread, kill>>

Joined ==
    /\ destroying = "join" /\ thread \in {"none", "ended"}
    /\ destroying' = "done"
    /\ UNCHANGED <<line, screen, thread, kill, event>>

Key ==
    \/ \E up \in BOOLEAN : Recall(up)
    \/ MoveCursor \/ Return \/ Backspace \/ Escape \/ TypeChar

Next ==
    \/ DispatchMessage \/ Key \/ Resize \/ Resized
    \/ PreStart \/ (\E by \in {"event", "input"} : Woken(by))
    \/ PreDestroy \/ SetKillEvent \/ Joined

Spec == Init /\ [][Next]_vars

------------------------------------------------------------------------------
(* Properties *)

(* The row shows the prompt and the line and nothing else, with the        *)
(* cursor at its place, or it is blank and the line is empty, at every     *)
(* moment at which print_mutex is free and whatever other threads print.   *)
(* The exception is a line that filled the row, which leaves parts of      *)
(* itself in the rows above, until Enter or a message begins a new line.   *)
(* The line ends inside its buffer, the cursor inside the line and the     *)
(* index inside the history.                                               *)
RowShowsLine ==
    /\ cursor \in 0..Len(buffer) /\ Len(buffer) < BufferSize
    /\ historyIndex \in -1 .. Len(history) - 1 /\ Len(history) <= MaxHistory
    /\ \/ wrapped
       \/ /\ PromptLength + Len(buffer) < Width
          /\ row = Over(Empty, Prompted(buffer)) /\ column = PromptLength + cursor
       \/ row = Empty /\ column = 0 /\ buffer = <<>>

(* pre_destroy ends, also when no key is ever pressed again and when the   *)
(* thread had just gone back to its wait: the event stays set.             *)
ConsoleEnds == destroying = "set" ~> destroying = "done"
==============================================================================
