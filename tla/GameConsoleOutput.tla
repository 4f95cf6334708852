--------------------------- MODULE GameConsoleOutput ---------------------------
(***************************************************************************)
(* component/game_console.cpp: the output of the console inside the game.  *)
(* Any thread prints into the ring, the main thread scrolls and clears it, *)
(* the renderer sets the height of the window once a frame.  The ring has  *)
(* a lock; the offset of the window and its height are written without it. *)
(* Lines are counted, their text is left out.  The line of input is in     *)
(* GameConsoleInput; a command that is submitted is a PrintLine here.      *)
(***************************************************************************)
EXTENDS Integers

CONSTANTS
    MaxOutput,     \* lines of the ring, 512 in the code
    VisibleCounts  \* values of visible_line_count a viewport can give

VARIABLES
    size,          \* output.size()
    offset,        \* display_line_offset
    visible,       \* visible_line_count
    open,          \* bit 0 of keyCatchers
    outputVisible, \* output_visible
    clearing,      \* the main thread has reset the offset and is about to
                   \* take the lock and clear the ring
    raced          \* history: a line was printed while clearing

vars == <<size, offset, visible, open, outputVisible, clearing, raced>>

Init ==
    /\ size = 0 /\ offset = 0 /\ visible = 0
    /\ open = FALSE /\ outputVisible = FALSE
    /\ clearing = FALSE /\ raced = FALSE

\* Mutant: the test as it would be after the line was added.
Following_AfterPush == visible > 0 /\ offset = size + 1 - visible

(* The window ends with the last line.  size and visible are subtracted as *)
(* unsigned numbers: with less lines than fit, the difference is no offset *)
(* of a window.                                                            *)
Following == visible > 0 /\ offset = size - visible

(* print_internal, for each line of a text, under the lock *)
PrintLine ==
    /\ offset' = offset + (IF Following THEN 1 ELSE 0)
    /\ size' = IF size = MaxOutput THEN size ELSE size + 1
    /\ raced' = (raced \/ clearing)
    /\ UNCHANGED <<visible, open, outputVisible, clearing>>

PageUp ==
    /\ open /\ ~clearing
    /\ size > visible /\ offset > 0
    /\ offset' = offset - 1
    /\ UNCHANGED <<size, visible, open, outputVisible, clearing, raced>>

PageDown ==
    /\ open /\ ~clearing
    /\ size > visible /\ offset < size - visible
    /\ offset' = offset + 1
    /\ UNCHANGED <<size, visible, open, outputVisible, clearing, raced>>

(* ctrl-C: the offset first, then the ring under its lock *)
ClearBegin ==
    /\ open /\ ~clearing
    /\ offset' = 0
    /\ clearing' = TRUE
    /\ UNCHANGED <<size, visible, open, outputVisible, raced>>

ClearEnd ==
    /\ clearing
    /\ size' = 0
    /\ clearing' = FALSE
    /\ UNCHANGED <<offset, visible, open, outputVisible, raced>>

(* The grave key; with shift it opens a closed console and then shows or   *)
(* hides the output.                                                       *)
Toggle(shift) ==
    /\ ~clearing
    /\ IF shift /\ open
         THEN outputVisible' = ~outputVisible /\ UNCHANGED open
         ELSE open' = ~open /\ outputVisible' = shift
    /\ UNCHANGED <<size, offset, visible, clearing, raced>>

(* draw_console, once a frame; it draws lines from the offset on *)
Frame ==
    /\ \E v \in VisibleCounts : visible' = v
    /\ UNCHANGED <<size, offset, open, outputVisible, clearing, raced>>

Next ==
    \/ PrintLine \/ PageUp \/ PageDown
    \/ ClearBegin \/ ClearEnd
    \/ \E shift \in BOOLEAN : Toggle(shift)
    \/ Frame

Spec == Init /\ [][Next]_vars

------------------------------------------------------------------------------
(* Properties                                                              *)

(* The offset stays inside the output (one behind its last line at most),  *)
(* unless a line was printed between the two halves of ctrl-C; and the     *)
(* output is shown only in an open console.                                *)
OffsetInOutput ==
    /\ size \in 0..MaxOutput /\ visible \in Nat
    /\ offset \in Nat
    /\ raced \/ clearing \/ offset <= size
    /\ outputVisible => open

(* draw_output_text draws the lines from the offset on, as many as fit. *)
NewestShown == offset < size /\ size <= offset + visible

(* Printing keeps the window at the end: if the newest line is drawn, or   *)
(* there is none yet, before a line is printed, the new one is drawn after *)
(* it, also when the ring is full and drops its oldest line.  The exception *)
(* is a window of one line on a full ring: the offset goes behind the last *)
(* line there, as the ring does not grow, and nothing is drawn any more    *)
(* (print_internal, draw_output_text).                                     *)
OutputFollows ==
    [][(/\ PrintLine /\ visible > 0
        /\ NewestShown \/ (size = 0 /\ offset = 0)
        /\ visible > 1 \/ size < MaxOutput) => NewestShown']_vars

==============================================================================
