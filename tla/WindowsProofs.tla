----------------------------- MODULE WindowsProofs -----------------------------
(***************************************************************************)
(* What the player sees, the six parts of MCWindows, for every value of    *)
(* their constants.  Each has its own specification, and each of the       *)
(* theorems is about one of them.                                          *)
(***************************************************************************)
EXTENDS MCWindows, SequenceFacts, FiniteSetTheorems, TLAPS

------------------------------------------------------------------------------
(***************************************************************************)
(* GameConsoleInput: Enter and Tab act on the line the player sees,        *)
(* although the renderer and the main thread share it without a lock.      *)
(*                                                                         *)
(* The argument: the renderer takes a copy of the line when a draw begins  *)
(* and works on it.  What it leaves in fixed_input, in the matches and in  *)
(* the choice belongs to that copy.  A draw that began before an edit may  *)
(* leave these for the older line, but the next draw finds the difference, *)
(* and the line counts as seen only after a draw that began later.         *)
(***************************************************************************)

(* The line and its history are sequences, whatever is recalled or         *)
(* completed, with the cursor and the index inside.                        *)
LineInv ==
    /\ buffer \in Seq(Chars) /\ cursor \in 0..Len(buffer)
    /\ history \in Seq(Seq(Chars)) /\ historyIndex \in -1 .. Len(history) - 1
    /\ choice = None \/ choice.name \in Seq(Chars)

(* What the renderer is doing, apart from the line.  Between DrawFind and  *)
(* DrawFix the matches are ahead of fixed_input; a choice is on offer only *)
(* between two draws.                                                      *)
RendererInv ==
    /\ draw = [pc |-> draw.pc, input |-> draw.input]
    /\ draw.pc \in {"idle", "find", "fix", "suggest", "choose"}
    /\ matches.count = "some"
         => matches.for = IF draw.pc = "fix" THEN draw.input ELSE fixedInput
    /\ draw.pc # "idle" => choice = None

(* What a draw that began after the last edit knows of the line.  A draw   *)
(* that began earlier may still leave its own input in fixed_input and in  *)
(* the matches, or a choice: then seen is "no".                            *)
DrawnInv ==
    /\ seen \in {"no", "part", "whole"}
    /\ seen = "part" => draw.pc # "idle"
    /\ seen # "no" /\ draw.pc # "idle"
         => draw.input = Stripped(buffer) /\ draw.input # <<>>
    /\ seen # "no" /\ draw.pc \in {"suggest", "choose"} => fixedInput = draw.input
    /\ seen # "no" /\ draw.pc = "choose" => matches.for = draw.input
    /\ seen = "whole" => Stripped(buffer) = <<>> \/ fixedInput = Stripped(buffer)
    /\ seen = "whole" /\ choice # None => choice.for = Stripped(buffer)

InputInv == LineInv /\ RendererInv /\ DrawnInv

(* The console starts with an empty line that was not drawn. *)
LEMMA InputInvInit == Init => InputInv
<1> SUFFICES ASSUME Init PROVE InputInv
  OBVIOUS
<1>1. <<>> \in Seq(Chars) /\ <<>> \in Seq(Seq(Chars)) /\ Len(<<>>) = 0
  OBVIOUS
<1>2. LineInv
  BY <1>1 DEF Init, LineInv
<1>3. RendererInv
  BY DEF Init, RendererInv, Cleared, Resting
<1>4. DrawnInv
  BY DEF Init, DrawnInv
<1> QED BY <1>2, <1>3, <1>4 DEF InputInv

(* The input of a line that is not empty is not empty: a slash alone stays. *)
LEMMA StrippedFacts ==
    ASSUME NEW b \in Seq(Chars), b # <<>>
    PROVE  Stripped(b) # <<>>
<1>1. CASE Len(b) > 1
  <2>1. Tail(b) # <<>>
    <3>1. Len(Tail(b)) = Len(b) - 1
      BY <1>1, HeadTailProperties
    <3>2. Len(<<>>) = 0
      OBVIOUS
    <3>3. Len(Tail(b)) # 0
      BY <1>1, <3>1, LenProperties
    <3> QED BY <3>2, <3>3, Zenon
  <2> QED BY <2>1 DEF Stripped
<1>2. CASE ~(Len(b) > 1)
  BY <1>2 DEF Stripped
<1> QED BY <1>1, <1>2

(* Each key leaves a line, a cursor inside it and a history of lines. *)
LEMMA LineStep == LineInv /\ [Next]_vars => LineInv'
<1> SUFFICES ASSUME LineInv, [Next]_vars PROVE LineInv'
  OBVIOUS
<1> USE DEF LineInv
<1>0. /\ Len(buffer) \in Nat /\ Len(history) \in Nat
      /\ Space \in Chars /\ Keys \subseteq Chars
      /\ <<>> \in Seq(Chars) /\ <<>> \in Seq(Seq(Chars)) /\ Len(<<>>) = 0
  BY Zenon, LenProperties, EmptySeq DEF Chars
<1>1. CASE Toggle
  BY <1>0, <1>1 DEF Toggle, ClearedInput, Edited, recall
<1>2. CASE ClearConsole
  BY <1>0, <1>2 DEF ClearConsole, ClearedInput, Edited
<1>3. CASE TypeChar
  <2>1. UNCHANGED <<recall, suggest>>
    BY <1>3 DEF TypeChar
  <2>2. CASE UNCHANGED line
    BY <2>1, <2>2, Zenon DEF line, recall, suggest
  <2>3. ASSUME NEW k \in Keys, Edited(InsertAt(buffer, cursor + 1, k), cursor + 1)
        PROVE  buffer' \in Seq(Chars) /\ cursor' \in 0..Len(buffer')
    <3>1. cursor + 1 \in 1..Len(buffer) + 1 /\ k \in Chars
      BY <1>0
    <3>2. /\ InsertAt(buffer, cursor + 1, k) \in Seq(Chars)
          /\ Len(InsertAt(buffer, cursor + 1, k)) = Len(buffer) + 1
      <4>1. buffer \in Seq(Chars)
        OBVIOUS
      <4> QED BY ONLY <3>1, <4>1, InsertFacts
    <3> QED BY <1>0, <2>3, <3>1, <3>2 DEF Edited
  <2>4. UNCHANGED line \/ \E k \in Keys : Edited(InsertAt(buffer, cursor + 1, k), cursor + 1)
    BY <1>3, Zenon DEF TypeChar
  <2> QED BY <2>1, <2>2, <2>3, <2>4 DEF recall, suggest
<1>4. CASE Backspace
  <2>1. cursor \in 1..Len(buffer)
    BY <1>0, <1>4 DEF Backspace
  <2>2. RemoveAt(buffer, cursor) \in Seq(Chars) /\ Len(RemoveAt(buffer, cursor)) = Len(buffer) - 1
    BY <2>1, EraseFacts, Zenon
  <2> QED BY <1>0, <1>4, <2>1, <2>2 DEF Backspace, Edited, recall, suggest
<1>5. CASE MoveCursor
  BY <1>0, <1>5 DEF MoveCursor, recall, suggest
<1>6. CASE Complete
  <2> DEFINE name == IF choice = None THEN <<>> ELSE choice.name
             slash == IF buffer # <<>> /\ buffer[1] = Slash THEN <<Slash>> ELSE <<>>
             text == slash \o name
  <2>1. name \in Seq(Chars)
    BY <1>0
  <2>2. slash \in Seq(Chars)
    <3>1. CASE buffer # <<>> /\ buffer[1] = Slash
      <4>1. Slash \in Chars
        BY <1>0, <3>1
      <4> QED BY <3>1, <4>1
    <3>2. CASE ~(buffer # <<>> /\ buffer[1] = Slash)
      BY <1>0, <3>2
    <3> QED BY <3>1, <3>2
  <2> HIDE DEF name, slash
  <2>3. text \in Seq(Chars) /\ Len(text) \in Nat
    BY <2>1, <2>2
  <2> HIDE DEF text
  <2>4. Append(text, Space) \in Seq(Chars) /\ Len(Append(text, Space)) = Len(text) + 1
    BY <1>0, <2>3
  <2>5. ClearedInput /\ Edited(Append(text, Space), Len(text) + 1) /\ UNCHANGED recall
    BY <1>6, Zenon DEF Complete, text, slash, name
  <2> QED BY <2>3, <2>4, <2>5 DEF ClearedInput, Edited, recall
<1>7. ASSUME NEW up \in BOOLEAN, Recall(up) PROVE LineInv'
  <2>1. Recalled(up) \in -1 .. Len(history) - 1
    BY <1>0 DEF Recalled
  <2> DEFINE i == Recalled(up)
             text == IF i + 1 \in DOMAIN history THEN history[i + 1] ELSE <<>>
  <2>2. text \in Seq(Chars)
    <3>1. CASE i + 1 \in DOMAIN history
      BY <3>1
    <3>2. CASE i + 1 \notin DOMAIN history
      BY <1>0, <3>2
    <3> QED BY <3>1, <3>2
  <2>3. /\ historyIndex' = i /\ ClearedInput
        /\ Edited(text, Len(text)) /\ UNCHANGED history
    BY <1>7, Zenon DEF Recall
  <2> HIDE DEF i, text
  <2>4. Len(text) \in 0..Len(text)
    BY <2>2
  <2> QED BY <2>1, <2>2, <2>3, <2>4 DEF ClearedInput, Edited, i
<1>8. CASE Submit
  <2> DEFINE again == historyIndex # -1 /\ history[historyIndex + 1] = buffer
             rest == IF again THEN RemoveAt(history, historyIndex + 1) ELSE history
             all == <<buffer>> \o rest
             kept == IF Len(all) > MaxHistory THEN MaxHistory ELSE Len(all)
  <2>1. rest \in Seq(Seq(Chars))
    <3>1. CASE again
      <4>1. historyIndex + 1 \in 1..Len(history)
        BY <1>0, <3>1
      <4>2. RemoveAt(history, historyIndex + 1) \in Seq(Seq(Chars))
        BY <4>1, EraseFacts, Zenon
      <4> QED BY <3>1, <4>2
    <3>2. CASE ~again
      BY <3>2
    <3> QED BY <3>1, <3>2
  <2> HIDE DEF rest
  <2>2. all \in Seq(Seq(Chars)) /\ Len(all) \in Nat
    BY <2>1
  <2> HIDE DEF all
  <2>3. kept \in 0..Len(all)
    BY <2>2, InputAssumption DEF InputAssumption
  <2> HIDE DEF kept
  <2>4. SubSeq(all, 1, kept) \in Seq(Seq(Chars)) /\ Len(SubSeq(all, 1, kept)) = kept
    BY <2>2, <2>3, SplitProperties, Zenon
  <2>5. /\ history' = SubSeq(all, 1, kept) /\ historyIndex' = -1
        /\ ClearedInput /\ Edited(<<>>, 0)
    BY <1>8, Zenon DEF Submit, kept, all, rest
  <2>6. historyIndex' \in -1 .. Len(history') - 1
    BY <2>3, <2>4, <2>5, <2>2
  <2> QED BY <1>0, <2>4, <2>5, <2>6 DEF ClearedInput, Edited
<1>9. CASE DrawBegin
  BY <1>9 DEF DrawBegin, line, recall
<1>10. CASE DrawFind
  BY <1>10 DEF DrawFind, line, recall
<1>11. CASE DrawFix
  BY <1>11 DEF DrawFix, line, recall
<1>12. CASE DrawSuggest
  BY <1>12 DEF DrawSuggest, line, recall
<1>13. CASE DrawChoose
  <2>1. UNCHANGED <<line, recall>>
    BY <1>13 DEF DrawChoose
  <2>2. \E n \in Names : choice' \in {[for |-> matches.for, name |-> n], None}
    BY <1>13, Zenon DEF DrawChoose
  <2>3. choice' = None \/ choice'.name \in Seq(Chars)
    BY <2>2, InputAssumption DEF InputAssumption
  <2> QED BY <2>1, <2>3 DEF line, recall
<1>14. CASE UNCHANGED vars
  BY <1>14 DEF vars, line, recall, suggest
<1> QED BY <1>1, <1>2, <1>3, <1>4, <1>5, <1>6, <1>7, <1>8, <1>9, <1>10, <1>11, <1>12,
           <1>13, <1>14, Zenon DEF Next

(* The renderer's steps fall between the keys, and every key that clears  *)
(* the line clears the matches with it.                                   *)
LEMMA RendererStep == RendererInv /\ [Next]_vars => RendererInv'
<1> SUFFICES ASSUME RendererInv, [Next]_vars PROVE RendererInv'
  OBVIOUS
<1> USE DEF RendererInv
<1>1. ASSUME ClearedInput, UNCHANGED draw PROVE RendererInv'
  BY <1>1 DEF ClearedInput, Cleared
<1>2. ASSUME UNCHANGED suggest, UNCHANGED draw PROVE RendererInv'
  BY <1>2 DEF suggest
<1>3. CASE Toggle \/ ClearConsole \/ Complete \/ Submit \/ \E up \in BOOLEAN : Recall(up)
  BY <1>1, <1>3, Zenon DEF Toggle, ClearConsole, Complete, Submit, Recall
<1>4. CASE TypeChar \/ Backspace \/ MoveCursor
  BY <1>2, <1>4, Zenon DEF TypeChar, Backspace, MoveCursor
<1>5. CASE DrawBegin
  <2>1. UNCHANGED <<fixedInput, matches>> /\ draw.pc = "idle"
    BY <1>5 DEF DrawBegin
  <2>2. \/ UNCHANGED <<choice, draw>>
        \/ choice' = None /\ UNCHANGED draw
        \/ choice' = None /\ \E pc \in {"suggest", "find"} :
              draw' = [pc |-> pc, input |-> Stripped(buffer)]
    BY <1>5 DEF DrawBegin
  <2> QED BY <2>1, <2>2
<1>6. CASE DrawFind
  BY <1>6 DEF DrawFind
<1>7. CASE DrawFix
  BY <1>7 DEF DrawFix
<1>8. CASE DrawSuggest
  BY <1>8 DEF DrawSuggest, Resting
<1>9. CASE DrawChoose
  BY <1>9 DEF DrawChoose, Resting
<1>10. CASE UNCHANGED vars
  BY <1>2, <1>10, Zenon DEF vars
<1> QED BY <1>3, <1>4, <1>5, <1>6, <1>7, <1>8, <1>9, <1>10, Zenon DEF Next

(* An edit makes the line unseen; a draw that begins after it carries the  *)
(* line to its end, as nothing but an edit changes the line.               *)
LEMMA DrawnStep == InputInv /\ [Next]_vars => DrawnInv'
<1> SUFFICES ASSUME InputInv, [Next]_vars PROVE DrawnInv'
  OBVIOUS
<1> USE DEF InputInv, RendererInv, DrawnInv
<1>1. ASSUME NEW b, NEW c, Edited(b, c) PROVE DrawnInv'
  BY <1>1 DEF Edited
<1>2. ASSUME UNCHANGED <<buffer, suggest, draw, seen>> PROVE DrawnInv'
  BY <1>2 DEF suggest
<1>3. CASE Toggle \/ ClearConsole \/ Complete \/ Submit \/ Backspace
           \/ \E up \in BOOLEAN : Recall(up)
  BY <1>1, <1>3, Zenon DEF Toggle, ClearConsole, Complete, Submit, Backspace, Recall
<1>4. CASE TypeChar \/ MoveCursor
  BY <1>1, <1>2, <1>4, Zenon DEF TypeChar, MoveCursor, line
<1>5. CASE DrawBegin
  <2> DEFINE input == Stripped(buffer)
  <2>1. UNCHANGED <<buffer, fixedInput, matches>> /\ draw.pc = "idle"
    BY <1>5 DEF DrawBegin, line
  <2>2. seen = "no" \/ seen = "whole"
    BY <2>1
  <2>3. CASE UNCHANGED <<choice, draw, seen>>
    BY <2>1, <2>3
  <2>4. CASE choice' = None /\ input = <<>> /\ DrawnBy(TRUE) /\ UNCHANGED draw
    BY <2>1, <2>2, <2>4 DEF DrawnBy
  <2>5. CASE /\ choice' = None /\ input # <<>> /\ DrawnBy(FALSE)
             /\ draw' = [pc |-> IF Known(input) THEN "suggest" ELSE "find", input |-> input]
    <3>1. draw'.input = input /\ draw'.pc \in {"suggest", "find"}
          /\ (draw'.pc = "suggest" <=> input = fixedInput)
      BY <2>5 DEF Known
    <3>2. seen' \in {"part", "whole"} /\ (seen' = "whole" => seen = "whole")
      BY <2>2, <2>5 DEF DrawnBy
    <3> HIDE DEF input
    <3>3. buffer' = buffer /\ fixedInput' = fixedInput /\ choice' = None /\ input # <<>>
      BY <2>1, <2>5
    <3>4. input' = input
      BY <3>3 DEF input
    <3>5. seen = "whole" => fixedInput = input
      BY <3>3 DEF input
    <3> QED BY <3>1, <3>2, <3>3, <3>4, <3>5 DEF input
  <2> QED BY <1>5, <2>3, <2>4, <2>5, Zenon DEF DrawBegin
<1>6. CASE DrawFind
  BY <1>6 DEF DrawFind, line, ghosts
<1>7. CASE DrawFix
  BY <1>7 DEF DrawFix, line, ghosts
<1>8. CASE DrawSuggest
  BY <1>8 DEF DrawSuggest, Resting, line
<1>9. CASE DrawChoose
  <2>1. /\ UNCHANGED <<buffer, fixedInput>> /\ draw'.pc = "idle" /\ draw.pc = "choose"
        /\ seen' = IF seen = "part" THEN "whole" ELSE seen
    BY <1>9 DEF DrawChoose, Resting, line
  <2>2. choice' = None \/ choice'.for = matches.for
    BY <1>9 DEF DrawChoose
  <2> QED BY <2>1, <2>2
<1>10. CASE UNCHANGED vars
  BY <1>2, <1>10, Zenon DEF vars, line, ghosts
<1> QED BY <1>3, <1>4, <1>5, <1>6, <1>7, <1>8, <1>9, <1>10, Zenon DEF Next

(* The console's two threads keep the three invariants together. *)
THEOREM InputInvariant == Spec => []InputInv
<1>1. InputInv /\ [Next]_vars => InputInv'
  BY LineStep, RendererStep, DrawnStep, Zenon DEF InputInv
<1> QED BY <1>1, InputInvInit, PTL DEF Spec

(* Enter and Tab act on the line the player sees, for every set of names,  *)
(* every length of the line and the history, and every interleaving of     *)
(* keys with the steps of the draw (draw_input, the handlers of the keys). *)
THEOREM SeenLineIsUsed == Spec => KeysActOnWhatIsSeen
<1>1. InputInv => SuggestionIsSeen
  BY DEF InputInv, DrawnInv, SuggestionIsSeen
<1>2. InputInv /\ [Next]_vars
        => (sent = None /\ sent' # None /\ seen = "whole" => sent' = Stripped(buffer))
  <2> SUFFICES ASSUME InputInv, [Next]_vars, sent = None, sent' # None, seen = "whole"
               PROVE  sent' = Stripped(buffer)
    OBVIOUS
  <2>1. Submit
    <3>1. ASSUME NEW up \in BOOLEAN, Recall(up) PROVE FALSE
      BY <3>1 DEF Recall
    <3> QED BY <3>1, Zenon DEF Next, Toggle, ClearConsole, TypeChar, Backspace, MoveCursor,
               Complete, DrawBegin, DrawFind, DrawFix, DrawSuggest, DrawChoose, vars, ghosts
  <2>2. buffer \in Seq(Chars) /\ buffer # <<>> /\ sent' = fixedInput
    <3>1. \E i \in DOMAIN buffer : buffer[i] # Space
      BY <2>1 DEF Submit
    <3> QED BY <2>1, <3>1 DEF Submit, InputInv, LineInv
  <2>3. Stripped(buffer) # <<>>
    BY <2>2, StrippedFacts
  <2> QED BY <2>2, <2>3 DEF InputInv, DrawnInv
<1> QED BY <1>1, <1>2, InputInvariant, PTL DEF Spec, KeysActOnWhatIsSeen, ExecutedIsSeen

------------------------------------------------------------------------------
(***************************************************************************)
(* GameConsoleOutput: the window stays inside the output and follows it.   *)
(***************************************************************************)

(* OffsetInOutput becomes inductive once it says what ctrl-C relies on     *)
(* between its halves: nothing but a printed line moves the offset then.   *)
OutputInv ==
    /\ Output!OffsetInOutput
    /\ clearing => raced \/ offset = 0

(* The console starts closed, with an empty ring.                          *)
LEMMA OutputInvInit == Output!Init => OutputInv
  BY WindowsAssumption DEF Output!Init, OutputInv, Output!OffsetInOutput, WindowsAssumption

(* Every step keeps it: a printed line (print_internal), each key of the   *)
(* console, and the frame that sets the height (draw_console).             *)
LEMMA OutputInvStep == OutputInv /\ [Output!Next]_(Output!vars) => OutputInv'
<1> SUFFICES ASSUME OutputInv, [Output!Next]_(Output!vars) PROVE OutputInv'
  OBVIOUS
<1> USE WindowsAssumption DEF OutputInv, Output!OffsetInOutput, WindowsAssumption
<1>1. CASE Output!PrintLine
  <2>1. size' \in 0..MaxOutput /\ visible' \in Nat /\ size <= size'
    BY <1>1 DEF Output!PrintLine
  <2>2. offset' \in Nat /\ (offset' = offset \/ (Output!Following /\ offset' = offset + 1))
    BY <1>1 DEF Output!PrintLine
  <2>3. offset <= size => offset' <= size'
    <3>1. CASE Output!Following
      BY <1>1, <3>1 DEF Output!PrintLine, Output!Following
    <3>2. CASE ~Output!Following
      BY <2>1, <2>2, <3>2
    <3> QED BY <3>1, <3>2
  <2>4. raced' \/ clearing' \/ offset' <= size'
    <3>1. CASE raced \/ clearing
      BY <1>1, <3>1, Zenon DEF Output!PrintLine
    <3>2. CASE offset <= size
      BY <2>3, <3>2
    <3> QED BY <3>1, <3>2
  <2>5. outputVisible' => open'
    BY <1>1, Zenon DEF Output!PrintLine
  <2>6. clearing' => raced'
    BY <1>1, Zenon DEF Output!PrintLine
  <2> QED BY <2>1, <2>2, <2>4, <2>5, <2>6
<1>2. CASE Output!PageUp
  BY <1>2 DEF Output!PageUp
<1>3. CASE Output!PageDown
  BY <1>3 DEF Output!PageDown
<1>4. CASE Output!ClearBegin
  BY <1>4 DEF Output!ClearBegin
<1>5. CASE Output!ClearEnd
  BY <1>5 DEF Output!ClearEnd
<1>6. ASSUME NEW shift \in BOOLEAN, Output!Toggle(shift) PROVE OutputInv'
  BY <1>6 DEF Output!Toggle
<1>7. CASE Output!Frame
  BY <1>7 DEF Output!Frame
<1>8. CASE UNCHANGED Output!vars
  BY <1>8 DEF Output!vars
<1> QED BY <1>1, <1>2, <1>3, <1>4, <1>5, <1>6, <1>7, <1>8 DEF Output!Next

(* The offset stays inside the output, for every length of the ring and    *)
(* every height of the window (print_internal, the keys of the console).   *)
THEOREM OffsetStays == Output!Spec => []Output!OffsetInOutput
  BY OutputInvInit, OutputInvStep, PTL DEF Output!Spec, OutputInv

(* A line printed while the newest one is drawn is drawn itself: an offset  *)
(* at the end moves with it, and one behind the end has room left, unless   *)
(* the ring is full and the window has one line (print_internal), for every *)
(* length of the ring and every height.                                     *)
THEOREM PrintedLineIsVisible == Output!Spec => OutputFollows
<1>1. ASSUME Output!OffsetInOutput, Output!PrintLine, visible > 0,
             Output!NewestShown \/ (size = 0 /\ offset = 0), visible > 1 \/ size < MaxOutput
      PROVE  Output!NewestShown'
  <2>1. /\ size \in Nat /\ offset \in Nat /\ visible \in Nat /\ visible' = visible
        /\ MaxOutput \in Nat \ {0} /\ size' = IF size = MaxOutput THEN size ELSE size + 1
        /\ size <= MaxOutput
    BY <1>1, WindowsAssumption DEF Output!OffsetInOutput, Output!PrintLine, WindowsAssumption
  <2>2. CASE Output!Following
    <3>1. offset' = offset + 1 /\ offset = size - visible
      BY <1>1, <2>2 DEF Output!PrintLine, Output!Following
    <3> QED BY <1>1, <2>1, <3>1 DEF Output!NewestShown
  <2>3. CASE ~Output!Following
    <3>1. offset' = offset
      BY <1>1, <2>1, <2>3 DEF Output!PrintLine
    <3>2. size + 1 <= offset + visible
      BY <1>1, <2>1, <2>3 DEF Output!Following, Output!NewestShown
    <3>3. offset < size'
      BY <1>1, <2>1 DEF Output!NewestShown
    <3> QED BY <2>1, <3>1, <3>2, <3>3 DEF Output!NewestShown
  <2> QED BY <2>2, <2>3
<1>2. Output!OffsetInOutput
        => ((/\ Output!PrintLine /\ visible > 0
             /\ Output!NewestShown \/ (size = 0 /\ offset = 0)
             /\ visible > 1 \/ size < MaxOutput) => Output!NewestShown')
  BY <1>1
<1> QED BY <1>2, OffsetStays, PTL DEF OutputFollows, Output!OutputFollows

------------------------------------------------------------------------------
(***************************************************************************)
(* Splash: a hook that has returned has taken the window off the screen.   *)
(*                                                                         *)
(* The argument: destroy_window returns only with a thread that is no      *)
(* longer joinable.  One that was joined has ended and took its window     *)
(* with it; one that was detached had ended or is loose.  As long as the   *)
(* hooks do not overlap, the thread that the test before the join found    *)
(* joinable still is.                                                      *)
(***************************************************************************)

BothHooks == SplashWindow!Hooks

Inside(h) == call[h] \notin {"no", "done"}

(* The window thread: an object that is joined or detached tells of it.    *)
SplashThreadInv ==
    /\ owner \in {"start", "made", "loop", "stop", "ended"}
    /\ object \in {"joinable", "joined", "detached"}
    /\ owner = "ended" => ~onScreen
    /\ object = "joined" => owner = "ended"
    /\ object = "detached" => loose \/ owner = "ended"

(* The hooks: without an overlap one at a time, which joins what it found. *)
SplashHooksInv ==
    /\ call \in [BothHooks -> {"no", "hide", "forget", "join", "detach", "done"}]
    /\ \A h \in BothHooks : call[h] = "done" => object # "joinable"
    /\ ~overlap =>
         /\ ~clash
         /\ \A g, h \in BothHooks : g # h => ~Inside(g) \/ ~Inside(h)
         /\ \A h \in BothHooks : call[h] = "join" => object = "joinable"

SplashInv == SplashThreadInv /\ SplashHooksInv

(* The thread starts in the constructor, before any hook. *)
LEMMA SplashInvInit == SplashWindow!Init => SplashInv
  BY DEF SplashWindow!Init, SplashInv, SplashThreadInv, SplashHooksInv, BothHooks, Inside

(* A step of one hook: while it is alone, the other is outside. *)
LEMMA HookMoves ==
    ASSUME SplashHooksInv, NEW h \in BothHooks, call[h] # "done",
           NEW pc \in {"hide", "forget", "join", "detach", "done"}, SplashWindow!Goto(h, pc),
           object # "joinable" \/ pc = "done" => object' # "joinable",
           pc = "join" => object' = "joinable",
           ~clash /\ ~overlap' => ~clash'
    PROVE  SplashHooksInv'
<1>1. /\ call' = [call EXCEPT ![h] = pc]
      /\ overlap' = (overlap \/ \E g \in BothHooks \ {h} : call[g] \notin {"no", "done"})
  BY DEF SplashWindow!Goto, BothHooks
<1>2. /\ call' \in [BothHooks -> {"no", "hide", "forget", "join", "detach", "done"}]
      /\ call'[h] = pc /\ \A g \in BothHooks \ {h} : call'[g] = call[g]
  BY <1>1 DEF SplashHooksInv
<1>3. ~overlap' => ~overlap /\ \A g \in BothHooks \ {h} : call[g] \in {"no", "done"}
  BY <1>1
<1>4. \A g \in BothHooks : call'[g] = "done" => object' # "joinable"
  BY <1>2 DEF SplashHooksInv
<1>5. ASSUME ~overlap'
      PROVE  /\ ~clash'
             /\ \A f, g \in BothHooks : f # g => ~Inside(f)' \/ ~Inside(g)'
             /\ \A g \in BothHooks : call'[g] = "join" => object' = "joinable"
  BY <1>2, <1>3, <1>5 DEF SplashHooksInv, Inside
<1> QED BY <1>2, <1>4, <1>5, Zenon DEF SplashHooksInv, Inside, BothHooks

(* The steps of the window thread and of the user, which the hooks only    *)
(* see in the thread's end.                                                *)
LEMMA SplashThreadStep ==
    ASSUME SplashInv, SplashWindow!OwnerStep \/ SplashWindow!UserCloses
    PROVE  SplashInv'
<1> USE DEF SplashInv, SplashThreadInv
<1>1. UNCHANGED <<object, call, loose, overlap, clash>>
  BY Zenon DEF SplashWindow!OwnerStep, SplashWindow!CreateWindow, SplashWindow!ShowWindow,
         SplashWindow!DrawFrame, SplashWindow!DrawEnds, SplashWindow!UserCloses
<1>2. SplashHooksInv'
  BY <1>1, Zenon DEF SplashHooksInv, Inside, BothHooks
<1>3. SplashThreadInv'
  BY <1>1 DEF SplashWindow!OwnerStep, SplashWindow!CreateWindow, SplashWindow!ShowWindow,
         SplashWindow!DrawFrame, SplashWindow!DrawEnds, SplashWindow!UserCloses
<1> QED BY <1>2, <1>3

(* The steps of destroy_window in each hook. *)
LEMMA SplashHookStep ==
    ASSUME SplashInv, NEW h \in BothHooks,
           SplashWindow!Begin(h) \/ SplashWindow!HookStep(h)
    PROVE  SplashInv'
<1> USE DEF SplashInv, SplashThreadInv
<1>0. SplashHooksInv
  OBVIOUS
<1>1. CASE SplashWindow!Begin(h)
  <2> DEFINE pc == IF window /\ exists THEN "hide" ELSE "detach"
  <2>1. /\ SplashWindow!Goto(h, pc) /\ call[h] = "no"
        /\ UNCHANGED <<owner, object, onScreen, loose, clash>>
    BY <1>1, Zenon DEF SplashWindow!Begin
  <2>2. pc \in {"hide", "detach"}
    OBVIOUS
  <2> HIDE DEF pc
  <2>3. SplashHooksInv'
    BY <1>0, <2>1, <2>2, HookMoves DEF SplashHooksInv
  <2> QED BY <2>1, <2>3
<1>2. CASE SplashWindow!Hide(h)
  <2>1. /\ SplashWindow!Goto(h, "forget") /\ call[h] = "hide" /\ onScreen' = FALSE
        /\ UNCHANGED <<owner, object, loose, clash>>
    BY <1>2, Zenon DEF SplashWindow!Hide
  <2>2. SplashHooksInv'
    BY <1>0, <2>1, HookMoves DEF SplashHooksInv
  <2> QED BY <2>1, <2>2
<1>3. CASE SplashWindow!Forget(h)
  <2> DEFINE pc == IF object = "joinable" THEN "join" ELSE "done"
  <2>1. /\ SplashWindow!Goto(h, pc) /\ call[h] = "forget"
        /\ UNCHANGED <<owner, object, onScreen, loose, clash>>
    BY <1>3, Zenon DEF SplashWindow!Forget
  <2>2. /\ pc \in {"join", "done"}
        /\ pc = "join" => object = "joinable"
        /\ pc = "done" => object # "joinable"
    OBVIOUS
  <2> HIDE DEF pc
  <2>3. SplashHooksInv'
    BY <1>0, <2>1, <2>2, HookMoves DEF SplashHooksInv
  <2> QED BY <2>1, <2>3
<1>4. CASE SplashWindow!Join(h)
  <2>1. /\ SplashWindow!Goto(h, "done") /\ call[h] = "join"
        /\ owner = "ended" \/ object # "joinable"
        /\ object' = IF object = "joinable" THEN "joined" ELSE object
        /\ clash' = (clash \/ object # "joinable")
        /\ UNCHANGED <<owner, onScreen, loose>>
    BY <1>4, Zenon DEF SplashWindow!Join
  <2>2. object' # "joinable"
    BY <2>1
  <2>3. ~overlap' => object = "joinable"
    BY <2>1 DEF SplashWindow!Goto, SplashHooksInv
  <2>4. SplashHooksInv'
    BY <1>0, <2>1, <2>2, <2>3, HookMoves
  <2> QED BY <2>1, <2>4
<1>5. CASE SplashWindow!Detach(h)
  <2>1. /\ SplashWindow!Goto(h, "done") /\ call[h] = "detach" /\ UNCHANGED <<owner, onScreen>>
        /\ \/ /\ object = "joinable" /\ object' = "detached"
              /\ loose' = (loose \/ owner # "ended")
              /\ clash' = (clash \/ \E g \in BothHooks : call[g] = "join")
           \/ object # "joinable" /\ UNCHANGED <<object, loose, clash>>
    BY <1>5 DEF SplashWindow!Detach, BothHooks
  <2>2. object' # "joinable"
    BY <2>1
  <2>3. ~overlap' => \A g \in BothHooks : call[g] # "join"
    BY <2>1 DEF SplashWindow!Goto, BothHooks
  <2>4. ~clash /\ ~overlap' => ~clash'
    BY <2>1, <2>3, Zenon
  <2>5. SplashHooksInv'
    BY <1>0, <2>1, <2>2, <2>4, HookMoves
  <2>6. (loose => loose') /\ (object = "joinable" => loose' \/ owner = "ended")
    <3>1. CASE object = "joinable" /\ loose' = (loose \/ owner # "ended")
      BY <3>1, Zenon
    <3>2. CASE object # "joinable" /\ loose' = loose
      BY <3>2, Zenon
    <3> QED BY <2>1, <3>1, <3>2, Zenon
  <2>7. object # "joinable" => object' = object
    BY <2>1
  <2>8. object = "joinable" => object' = "detached"
    BY <2>1
  <2>9. SplashThreadInv'
    BY <2>1, <2>6, <2>7, <2>8
  <2> QED BY <2>5, <2>9
<1> QED BY <1>1, <1>2, <1>3, <1>4, <1>5, Zenon DEF SplashWindow!HookStep

(* The invariant that SplashIsGone needs holds in every state. *)
THEOREM SplashInvariance == SplashWindow!Spec => []SplashInv
<1>1. ASSUME SplashInv, UNCHANGED SplashWindow!vars PROVE SplashInv'
  <2>1. UNCHANGED <<onScreen, owner, object, call, loose, overlap, clash>>
    BY <1>1 DEF SplashWindow!vars
  <2>2. SplashThreadInv'
    BY <1>1, <2>1 DEF SplashInv, SplashThreadInv
  <2>3. SplashHooksInv'
    BY <1>1, <2>1, Zenon DEF SplashInv, SplashHooksInv, Inside, BothHooks
  <2> QED BY <2>2, <2>3 DEF SplashInv
<1>2. SplashInv /\ [SplashWindow!Next]_(SplashWindow!vars) => SplashInv'
  BY <1>1, SplashThreadStep, SplashHookStep, Zenon DEF SplashWindow!Next, BothHooks
<1> QED BY <1>2, SplashInvInit, PTL DEF SplashWindow!Spec

(* A hook that has returned has taken the window off the screen for good,  *)
(* whatever the user closes and wherever the window thread is when the     *)
(* hooks run (destroy_window, draw).                                       *)
THEOREM SplashStaysGone == SplashWindow!Spec => []SplashIsGone
<1>1. SplashInv => SplashIsGone
  BY DEF SplashInv, SplashThreadInv, SplashHooksInv, SplashIsGone, SplashWindow!SplashIsGone,
         BothHooks
<1> QED BY <1>1, SplashInvariance, PTL

------------------------------------------------------------------------------
(***************************************************************************)
(* ConsoleWindow: the row shows the prompt and the line.                   *)
(*                                                                         *)
(* The argument: clear_output blanks what update drew, so the row is empty *)
(* between the two, and a key that only adds to the line need not clear.   *)
(* A recalled line fits the buffer because every line of the history did   *)
(* when it was entered.                                                    *)
(***************************************************************************)

Lines == Seq(PromptKeys)

(* What the row holds, when print_mutex is free *)
RowInv ==
    \/ wrapped
    \/ /\ ~Prompt!Wraps(promptBuffer)
       /\ row = Prompt!Over(Prompt!Empty, Prompt!Prompted(promptBuffer))
       /\ column = PromptLength + promptCursor
    \/ row = Prompt!Empty /\ column = 0 /\ promptBuffer = <<>>

PromptLineInv ==
    /\ promptBuffer \in Lines /\ Len(promptBuffer) < BufferSize
    /\ promptCursor \in 0..Len(promptBuffer)

PromptHistoryInv ==
    /\ promptHistory \in Seq(Lines) /\ Len(promptHistory) <= PromptHistory
    /\ \A i \in 1..Len(promptHistory) : Len(promptHistory[i]) < BufferSize
    /\ promptIndex \in -1 .. Len(promptHistory) - 1

PromptInv == RowInv /\ PromptLineInv /\ PromptHistoryInv

(* The text on the screen is as long as the prompt and the line. *)
LEMMA PromptedFacts ==
    ASSUME NEW text \in Lines
    PROVE  /\ Len(Prompt!Prompted(text)) = PromptLength + Len(text)
           /\ DOMAIN Prompt!Prompted(text) = 1..PromptLength + Len(text)
           /\ Len(text) \in Nat
<1> DEFINE S == PromptKeys \cup {Prompt!Sign}
           prompt == [i \in 1..PromptLength |-> Prompt!Sign]
<1>1. prompt \in Seq(S) /\ Len(prompt) = PromptLength
  BY WindowsAssumption DEF WindowsAssumption
<1>2. text \in Seq(S) /\ Len(text) \in Nat
  BY DEF Lines
<1> HIDE DEF prompt, S
<1>3. prompt \o text \in Seq(S) /\ Len(prompt \o text) = PromptLength + Len(text)
  BY <1>1, <1>2, ConcatProperties
<1>4. DOMAIN (prompt \o text) = 1..Len(prompt \o text)
  BY <1>3, DomainOfSeq, Zenon
<1> QED BY <1>2, <1>3, <1>4, Zenon DEF Prompt!Prompted, prompt

(* Every place in a line that leaves room in the row is in the row. *)
LEMMA PlaceInRow ==
    ASSUME NEW text \in Lines, NEW place \in 0..Len(text), ~Prompt!Wraps(text)
    PROVE  PromptLength + place < Width
<1>1. Len(text) \in Nat /\ PromptLength \in Nat /\ Width \in Nat
  BY WindowsAssumption DEF WindowsAssumption, Lines
<1> QED BY <1>1 DEF Prompt!Wraps

(* A line that leaves room in the row is written over its cells. *)
LEMMA WrittenRow ==
    ASSUME NEW cells, NEW text \in Lines, ~Prompt!Wraps(text)
    PROVE  Prompt!Written(cells, Prompt!Prompted(text)) = Prompt!Over(cells, Prompt!Prompted(text))
<1>1. Len(Prompt!Prompted(text)) = PromptLength + Len(text) /\ Len(text) \in Nat
  BY PromptedFacts
<1>2. Len(Prompt!Prompted(text)) < Width
  BY <1>1, WindowsAssumption DEF WindowsAssumption, Prompt!Wraps
<1> QED BY <1>2 DEF Prompt!Written

(* clear_output leaves the row empty. *)
LEMMA ClearedRow ==
    ASSUME PromptInv, ~wrapped, ~Prompt!Wraps(promptBuffer)
    PROVE  Prompt!Cleared(row, promptBuffer) = Prompt!Empty
<1> DEFINE shown == Prompt!Prompted(promptBuffer)
           n == PromptLength + Len(promptBuffer)
           blanks == [i \in DOMAIN shown |-> Prompt!Blank]
<1>1. n \in Nat /\ Len(shown) = n /\ DOMAIN shown = 1..n
  BY PromptedFacts, WindowsAssumption DEF PromptInv, PromptLineInv, WindowsAssumption
<1> HIDE DEF n
<1>2. Len(blanks) = n /\ \A i \in 1..n : blanks[i] = Prompt!Blank
  BY <1>1
<1>3. \/ row = [i \in 1..Width |-> IF i <= n THEN shown[i] ELSE Prompt!Blank]
      \/ row = [i \in 1..Width |-> Prompt!Blank]
  BY <1>1 DEF PromptInv, RowInv, Prompt!Over, Prompt!Empty
<1> HIDE DEF blanks, shown
<1>4. \A i \in 1..Width : IF i <= n THEN i \in 1..n ELSE row[i] = Prompt!Blank
  BY <1>1, <1>3, WindowsAssumption DEF WindowsAssumption
<1>5. [i \in 1..Width |-> IF i <= Len(blanks) THEN blanks[i] ELSE row[i]]
        = [i \in 1..Width |-> Prompt!Blank]
  BY <1>2, <1>4
<1>6. Len(blanks) < Width
  BY <1>2, WindowsAssumption DEF n, PromptInv, PromptLineInv, Lines, Prompt!Wraps, WindowsAssumption
<1> QED BY <1>5, <1>6, Zenon DEF Prompt!Cleared, Prompt!Written, Prompt!Over, Prompt!Empty, blanks,
                                 shown

(* A line drawn over a shorter one covers it. *)
LEMMA CoveredRow ==
    ASSUME PromptInv, ~wrapped, NEW text \in Lines, Len(promptBuffer) <= Len(text)
    PROVE  Prompt!Over(row, Prompt!Prompted(text))
             = Prompt!Over(Prompt!Empty, Prompt!Prompted(text))
<1> DEFINE shown == Prompt!Prompted(promptBuffer)
           new == Prompt!Prompted(text)
<1>1. /\ Len(shown) \in Nat /\ Len(new) \in Nat /\ Len(shown) <= Len(new)
  BY PromptedFacts, WindowsAssumption DEF PromptInv, PromptLineInv, WindowsAssumption
<1>2. \/ row = [i \in 1..Width |-> IF i <= Len(shown) THEN shown[i] ELSE Prompt!Empty[i]]
      \/ row = Prompt!Empty
  BY DEF PromptInv, RowInv, Prompt!Over
<1> HIDE DEF shown, new
<1>3. \A i \in 1..Width : ~(i <= Len(new)) => row[i] = Prompt!Empty[i]
  BY <1>1, <1>2, WindowsAssumption DEF WindowsAssumption
<1>4. [i \in 1..Width |-> IF i <= Len(new) THEN new[i] ELSE row[i]]
        = [i \in 1..Width |-> IF i <= Len(new) THEN new[i] ELSE Prompt!Empty[i]]
  BY <1>3
<1> QED BY <1>4, Zenon DEF Prompt!Over, new

(* The window starts without a line on it. *)
LEMMA PromptInvInit == Prompt!Init => PromptInv
<1> SUFFICES ASSUME Prompt!Init PROVE PromptInv
  OBVIOUS
<1>1. <<>> \in Lines /\ <<>> \in Seq(Lines) /\ Len(<<>>) = 0
  BY DEF Lines
<1>2. RowInv
  BY DEF Prompt!Init, RowInv
<1>3. PromptLineInv
  BY <1>1, WindowsAssumption DEF Prompt!Init, PromptLineInv, WindowsAssumption
<1>4. PromptHistoryInv
  BY <1>1, WindowsAssumption DEF Prompt!Init, PromptHistoryInv, WindowsAssumption
<1> QED BY <1>2, <1>3, <1>4 DEF PromptInv

(* The console window uses the sequences of its own module. *)
LEMMA PromptSequences ==
    ASSUME NEW s, NEW i, NEW e
    PROVE  /\ Prompt!RemoveAt(s, i) = RemoveAt(s, i)
           /\ Prompt!InsertAt(s, i, e) = InsertAt(s, i, e)
  BY DEF Prompt!RemoveAt, RemoveAt, Prompt!InsertAt, InsertAt

(* update draws the line that the step leaves, over an empty row or over a *)
(* shorter line, unless the line fills the row.                            *)
LEMMA RowDrawn ==
    ASSUME NEW cells, Prompt!Drawn(cells, promptBuffer', promptCursor'), PromptLineInv',
           wrapped' \/ /\ ~Prompt!Wraps(promptBuffer')
                       /\ Prompt!Over(cells, Prompt!Prompted(promptBuffer'))
                            = Prompt!Over(Prompt!Empty, Prompt!Prompted(promptBuffer'))
    PROVE  RowInv'
<1>1. CASE wrapped'
  BY <1>1 DEF RowInv
<1>2. CASE ~wrapped'
  <2>1. /\ promptBuffer' \in Lines /\ Len(promptBuffer') \in Nat
        /\ promptCursor' \in 0..Len(promptBuffer')
    BY DEF PromptLineInv, Lines
  <2>2. row' = Prompt!Over(Prompt!Empty, Prompt!Prompted(promptBuffer'))
    BY <1>2, <2>1, WrittenRow, Zenon DEF Prompt!Drawn
  <2>3. PromptLength + promptCursor' < Width
    BY <1>2, <2>1, PlaceInRow, Zenon
  <2>4. column' = PromptLength + promptCursor'
    BY <2>3 DEF Prompt!Drawn
  <2>5. ~Prompt!Wraps(promptBuffer')
    BY <1>2
  <2> QED BY <2>2, <2>4, <2>5, Zenon DEF RowInv, Prompt!Over, Prompt!Empty, Prompt!Prompted, Prompt!Wraps
<1> QED BY <1>1, <1>2

LEMMA RowUpdated ==
    ASSUME NEW cells, Prompt!Updated(cells, promptBuffer', promptCursor'), PromptLineInv',
           ~wrapped /\ ~Prompt!Wraps(promptBuffer')
             => Prompt!Over(cells, Prompt!Prompted(promptBuffer'))
                  = Prompt!Over(Prompt!Empty, Prompt!Prompted(promptBuffer'))
    PROVE  RowInv'
<1>1. Prompt!Drawn(cells, promptBuffer', promptCursor')
  BY Zenon DEF Prompt!Updated
<1>2. wrapped' \/ (~wrapped /\ ~Prompt!Wraps(promptBuffer'))
  BY DEF Prompt!Updated
<1> QED BY <1>1, <1>2, RowDrawn, Zenon

(* A line that fills the row has wrapped, unless it is not drawn yet; one   *)
(* that is at least as long does as well.                                  *)
LEMMA LongLine ==
    ASSUME PromptInv, NEW text \in Lines, ~wrapped, ~Prompt!Wraps(text)
    PROVE  ~Prompt!Wraps(promptBuffer)
<1>1. CASE promptBuffer = <<>>
  BY <1>1, WindowsAssumption DEF WindowsAssumption, Prompt!Wraps, Lines
<1>2. CASE promptBuffer # <<>>
  BY <1>2 DEF PromptInv, RowInv
<1> QED BY <1>1, <1>2

(* A line that replaces another one is drawn on the row it leaves blank. *)
LEMMA RowReplaced ==
    ASSUME PromptInv, PromptLineInv',
           Prompt!Updated(Prompt!Cleared(row, promptBuffer), promptBuffer', promptCursor')
    PROVE  RowInv'
<1>1. promptBuffer' \in Lines
  BY DEF PromptLineInv
<1>2. ~wrapped /\ ~Prompt!Wraps(promptBuffer')
        => Prompt!Cleared(row, promptBuffer) = Prompt!Empty
  BY <1>1, LongLine, ClearedRow, Zenon
<1> QED BY <1>2, RowUpdated, Zenon

(* Without a line the row is blank. *)
LEMMA RowBlanked ==
    ASSUME PromptInv, Prompt!Blanked, promptBuffer' = <<>>
    PROVE  RowInv'
<1>1. CASE wrapped'
  BY <1>1 DEF RowInv
<1>2. CASE ~wrapped'
  <2>1. ~wrapped /\ ~Prompt!Wraps(promptBuffer) /\ column' = 0
        /\ row' = Prompt!Cleared(row, promptBuffer)
    BY <1>2, Zenon DEF Prompt!Blanked
  <2>2. row' = Prompt!Empty
    BY <2>1, ClearedRow, Zenon
  <2> QED BY <2>1, <2>2 DEF RowInv, Prompt!Empty
<1> QED BY <1>1, <1>2

(* The keys that edit the line. *)
LEMMA PromptEdited ==
    ASSUME PromptInv, Prompt!Backspace \/ Prompt!TypeChar \/ Prompt!MoveCursor \/ Prompt!Escape
    PROVE  PromptInv'
<1> USE DEF PromptInv, PromptLineInv
<1>0. Len(promptBuffer) \in Nat /\ PromptLength \in Nat /\ Width \in Nat /\ BufferSize \in Nat
  BY WindowsAssumption DEF WindowsAssumption, Lines
<1>1. PromptHistoryInv'
  <2>1. UNCHANGED <<promptHistory, promptIndex>>
    BY Zenon DEF Prompt!Backspace, Prompt!TypeChar, Prompt!MoveCursor, Prompt!Escape
  <2> QED BY <2>1 DEF PromptHistoryInv
<1>2. CASE Prompt!Backspace
  <2> DEFINE text == RemoveAt(promptBuffer, promptCursor)
  <2>1. /\ promptCursor > 0 /\ promptBuffer' = text /\ promptCursor' = promptCursor - 1
        /\ Prompt!Updated(Prompt!Cleared(row, promptBuffer), text, promptCursor - 1)
    BY <1>2, PromptSequences, Zenon DEF Prompt!Backspace
  <2>2. promptCursor \in 1..Len(promptBuffer)
    BY <1>0, <2>1
  <2>3. text \in Lines /\ Len(text) = Len(promptBuffer) - 1
    BY <2>2, EraseFacts, Zenon DEF Lines
  <2> HIDE DEF text
  <2>4. PromptLineInv'
    BY <1>0, <2>1, <2>2, <2>3
  <2>5. RowInv'
    BY <2>1, <2>4, RowReplaced, Zenon
  <2> QED BY <1>1, <2>4, <2>5
<1>3. CASE Prompt!TypeChar
  <2> PICK k \in PromptKeys :
        /\ promptBuffer' = InsertAt(promptBuffer, promptCursor + 1, k)
        /\ Prompt!Updated(row, promptBuffer', promptCursor + 1)
    BY <1>3, PromptSequences, Zenon DEF Prompt!TypeChar
  <2>1. Len(promptBuffer) + 1 < Prompt!MaxInputLength /\ promptCursor' = promptCursor + 1
    BY <1>3 DEF Prompt!TypeChar
  <2>2. promptBuffer' \in Lines /\ Len(promptBuffer') = Len(promptBuffer) + 1
    <3>1. promptCursor + 1 \in 1..Len(promptBuffer) + 1
      BY <1>0
    <3>2. promptBuffer \in Seq(PromptKeys)
      BY DEF Lines
    <3>3. /\ InsertAt(promptBuffer, promptCursor + 1, k) \in Seq(PromptKeys)
          /\ Len(InsertAt(promptBuffer, promptCursor + 1, k)) = Len(promptBuffer) + 1
      BY ONLY <3>1, <3>2, k \in PromptKeys, InsertFacts
    <3> QED BY <3>3 DEF Lines
  <2>3. PromptLineInv'
    BY <1>0, <2>1, <2>2 DEF Prompt!MaxInputLength
  <2>4. RowInv'
    <3>1. Len(promptBuffer) <= Len(promptBuffer')
      BY <1>0, <2>2
    <3>2. ~wrapped => Prompt!Over(row, Prompt!Prompted(promptBuffer'))
                        = Prompt!Over(Prompt!Empty, Prompt!Prompted(promptBuffer'))
      BY <2>2, <3>1, CoveredRow, Zenon
    <3> QED BY <2>1, <2>3, <3>2, RowUpdated, Zenon
  <2> QED BY <1>1, <2>3, <2>4
<1>4. CASE Prompt!MoveCursor
  <2>1. /\ UNCHANGED <<promptBuffer, row, wrapped>> /\ promptBuffer # <<>>
        /\ promptCursor' \in 0..Len(promptBuffer)
        /\ PromptLength + promptCursor' < Width => column' = PromptLength + promptCursor'
    BY <1>0, <1>4 DEF Prompt!MoveCursor
  <2>2. ASSUME wrapped PROVE RowInv'
    BY <2>1, <2>2 DEF RowInv
  <2>3. ASSUME ~wrapped PROVE RowInv'
    <3>1. ~Prompt!Wraps(promptBuffer) /\ row = Prompt!Over(Prompt!Empty, Prompt!Prompted(promptBuffer))
      BY <2>1, <2>3, Zenon DEF RowInv
    <3>2. PromptLength + promptCursor' < Width
      BY <2>1, <3>1, PlaceInRow, Zenon
    <3>3. column' = PromptLength + promptCursor'
      BY <2>1, <3>2
    <3> QED BY <2>1, <3>1, <3>3, Zenon DEF RowInv, Prompt!Over, Prompt!Empty, Prompt!Prompted, Prompt!Wraps
  <2>4. RowInv'
    BY <2>2, <2>3
  <2> QED BY <1>1, <2>1, <2>4
<1>5. CASE Prompt!Escape
  <2>1. promptBuffer' = <<>> /\ promptCursor' = 0 /\ Prompt!Blanked
    BY <1>5 DEF Prompt!Escape
  <2>2. RowInv'
    BY <2>1, RowBlanked
  <2>3. PromptLineInv'
    BY <2>1, WindowsAssumption DEF WindowsAssumption, Lines
  <2> QED BY <1>1, <2>2, <2>3
<1> QED BY <1>2, <1>3, <1>4, <1>5

(* The arrows and Enter, which use the history. *)
LEMMA PromptRecalled ==
    ASSUME PromptInv, NEW up \in BOOLEAN, Prompt!Recall(up)
    PROVE  PromptInv'
<1> USE DEF PromptInv, PromptHistoryInv
<1> DEFINE i == Prompt!Index(up)
           text == IF i = -1 THEN <<>> ELSE promptHistory[i + 1]
<1>0. Len(promptHistory) \in Nat /\ BufferSize \in Nat \ {0}
  BY WindowsAssumption DEF WindowsAssumption
<1>1. i \in -1 .. Len(promptHistory) - 1
  BY <1>0 DEF Prompt!Index
<1>2. /\ promptIndex' = i /\ UNCHANGED promptHistory
      /\ promptBuffer' = text /\ promptCursor' = Len(text)
      /\ Prompt!Updated(Prompt!Cleared(row, promptBuffer), text, Len(text))
  BY Zenon DEF Prompt!Recall
<1> HIDE DEF i
<1>3. text \in Lines /\ Len(text) < BufferSize
  <2>1. CASE i = -1
    BY <1>0, <2>1 DEF Lines
  <2>2. CASE i # -1
    <3>1. i + 1 \in 1..Len(promptHistory)
      BY <1>0, <1>1, <2>2
    <3>2. promptHistory[i + 1] \in Lines
      BY <3>1, ElementOfSeq, Zenon
    <3> QED BY <2>2, <3>1, <3>2
  <2> QED BY <2>1, <2>2
<1> HIDE DEF text
<1>4. PromptLineInv'
  BY <1>2, <1>3 DEF PromptLineInv, Lines
<1>5. RowInv'
  BY <1>2, <1>4, RowReplaced, Zenon
<1>6. PromptHistoryInv'
  BY <1>1, <1>2
<1> QED BY <1>4, <1>5, <1>6

(* A line that leaves the history leaves lines that fit the buffer. *)
LEMMA ErasedFits ==
    ASSUME NEW lines \in Seq(Lines), NEW i \in 1..Len(lines),
           \A j \in 1..Len(lines) : Len(lines[j]) < BufferSize
    PROVE  /\ RemoveAt(lines, i) \in Seq(Lines)
           /\ Len(RemoveAt(lines, i)) = Len(lines) - 1
           /\ Len(RemoveAt(lines, i)) \in Nat
           /\ \A j \in 1..Len(RemoveAt(lines, i)) : Len(RemoveAt(lines, i)[j]) < BufferSize
<1> DEFINE left == RemoveAt(lines, i)
<1>1. /\ left \in Seq(Lines) /\ Len(left) = Len(lines) - 1 /\ Len(lines) \in Nat
      /\ \A j \in 1..Len(left) :
           \/ j < i /\ left[j] = lines[j]
           \/ j + 1 \in 1..Len(lines) /\ left[j] = lines[j + 1]
  BY EraseFacts, Zenon
<1> HIDE DEF left
<1>2. Len(left) \in Nat
  BY <1>1
<1>3. ASSUME NEW j \in 1..Len(left) PROVE Len(left[j]) < BufferSize
  <2>1. CASE left[j] = lines[j]
    <3>1. j \in 1..Len(lines)
      BY <1>1
    <3> QED BY <2>1, <3>1
  <2>2. CASE j + 1 \in 1..Len(lines) /\ left[j] = lines[j + 1]
    BY <2>2
  <2> QED BY <1>1, <2>1, <2>2
<1> QED BY <1>1, <1>2, <1>3, Zenon DEF left

LEMMA PromptReturned ==
    ASSUME PromptInv, Prompt!Return
    PROVE  PromptInv'
<1> USE DEF PromptInv, PromptHistoryInv
<1> DEFINE again == promptIndex # -1 /\ promptHistory[promptIndex + 1] = promptBuffer
           rest == IF again THEN RemoveAt(promptHistory, promptIndex + 1) ELSE promptHistory
           all == IF promptBuffer = <<>> THEN rest ELSE <<promptBuffer>> \o rest
           Fits(h) == \A j \in 1..Len(h) : Len(h[j]) < BufferSize
<1>0. Len(promptHistory) \in Nat /\ BufferSize \in Nat \ {0} /\ PromptHistory \in Nat
  BY WindowsAssumption DEF WindowsAssumption
<1>1. /\ promptHistory' = IF Len(all) > PromptHistory THEN RemoveAt(all, PromptHistory + 1) ELSE all
      /\ promptIndex' = -1 /\ promptBuffer' = <<>> /\ promptCursor' = 0
      /\ row' = Prompt!Empty /\ column' = 0 /\ wrapped' = FALSE
  BY PromptSequences, Zenon DEF Prompt!Return, Prompt!FreshRow
<1>2. rest \in Seq(Lines) /\ Len(rest) \in Nat /\ Len(rest) <= PromptHistory /\ Fits(rest)
  <2>1. CASE again
    <3>1. promptIndex + 1 \in 1..Len(promptHistory)
      BY <1>0, <2>1
    <3> DEFINE left == RemoveAt(promptHistory, promptIndex + 1)
    <3>2. /\ left \in Seq(Lines) /\ Len(left) = Len(promptHistory) - 1
          /\ Len(left) \in Nat /\ Fits(left)
      BY <3>1, ErasedFits, Zenon
    <3>3. rest = left
      BY <2>1
    <3> HIDE DEF left, rest
    <3> QED BY <1>0, <3>2, <3>3
  <2>2. CASE ~again
    BY <1>0, <2>2
  <2> QED BY <2>1, <2>2
<1> HIDE DEF rest
<1>3. all \in Seq(Lines) /\ Len(all) \in Nat /\ Len(all) <= PromptHistory + 1 /\ Fits(all)
  <2>1. CASE promptBuffer = <<>>
    BY <1>0, <1>2, <2>1
  <2>2. CASE promptBuffer # <<>>
    <3> DEFINE one == <<promptBuffer>>
               both == one \o rest
    <3>1. one \in Seq(Lines) /\ Len(one) = 1 /\ one[1] = promptBuffer
      BY DEF PromptLineInv
    <3>2. Len(promptBuffer) < BufferSize
      BY DEF PromptLineInv
    <3> HIDE DEF one
    <3>3. /\ both \in Seq(Lines) /\ Len(both) = Len(one) + Len(rest)
          /\ \A j \in 1..Len(both) :
               \/ j \in 1..Len(one) /\ both[j] = one[j]
               \/ j - Len(one) \in 1..Len(rest) /\ both[j] = rest[j - Len(one)]
      BY <1>2, <3>1, ConcatFacts, ZenonT(40)
    <3> HIDE DEF both
    <3>4. /\ both \in Seq(Lines) /\ Len(both) = 1 + Len(rest)
          /\ \A j \in 1..Len(both) :
               \/ j \in 1..1 /\ both[j] = one[j]
               \/ j - 1 \in 1..Len(rest) /\ both[j] = rest[j - 1]
      BY <3>1, <3>3
    <3>5. Fits(both)
      <4> SUFFICES ASSUME NEW j \in 1..Len(both) PROVE Len(both[j]) < BufferSize
        OBVIOUS
      <4>1. CASE j \in 1..1 /\ both[j] = one[j]
        BY <3>1, <3>2, <4>1
      <4>2. CASE j - 1 \in 1..Len(rest) /\ both[j] = rest[j - 1]
        BY <1>2, <4>2
      <4> QED BY <3>4, <4>1, <4>2
    <3>6. all = both
      BY <2>2 DEF both, one
    <3> HIDE DEF all
    <3> QED BY <1>0, <1>2, <3>4, <3>5, <3>6
  <2> QED BY <2>1, <2>2
<1> HIDE DEF all
<1>4. /\ promptHistory' \in Seq(Lines) /\ Len(promptHistory') <= PromptHistory
      /\ Len(promptHistory') \in Nat /\ Fits(promptHistory')
  <2>1. CASE Len(all) > PromptHistory
    <3>1. PromptHistory + 1 \in 1..Len(all) /\ Len(all) = PromptHistory + 1
      BY <1>0, <1>3, <2>1
    <3> DEFINE left == RemoveAt(all, PromptHistory + 1)
    <3>2. /\ left \in Seq(Lines) /\ Len(left) = Len(all) - 1
          /\ Len(left) \in Nat /\ Fits(left)
      BY <1>3, <3>1, ErasedFits, Zenon
    <3>3. promptHistory' = left
      BY <1>1, <2>1
    <3> HIDE DEF left
    <3> QED BY <1>0, <3>1, <3>2, <3>3
  <2>2. CASE ~(Len(all) > PromptHistory)
    BY <1>0, <1>1, <1>3, <2>2
  <2> QED BY <2>1, <2>2
<1>5. PromptHistoryInv'
  BY <1>1, <1>4
<1>6. RowInv'
  BY <1>1 DEF RowInv, Prompt!Empty
<1>7. PromptLineInv'
  BY <1>0, <1>1 DEF PromptLineInv, Lines
<1> QED BY <1>5, <1>6, <1>7


(* Every step of the console window and of the threads that print. *)
LEMMA PromptStep == PromptInv /\ [Prompt!Next]_(Prompt!vars) => PromptInv'
<1> SUFFICES ASSUME PromptInv, [Prompt!Next]_(Prompt!vars) PROVE PromptInv'
  OBVIOUS
<1> DEFINE promptLine == <<promptBuffer, promptCursor, promptHistory, promptIndex>>
<1>1. ASSUME UNCHANGED <<promptLine, row, column, wrapped>> PROVE PromptInv'
  BY <1>1 DEF PromptInv, RowInv, PromptLineInv, PromptHistoryInv, Prompt!Empty,
              Prompt!Over, Prompt!Prompted, Prompt!Wraps
<1>2. ASSUME UNCHANGED promptLine PROVE PromptLineInv' /\ PromptHistoryInv'
  BY <1>2 DEF PromptInv, PromptLineInv, PromptHistoryInv
<1>3. CASE Prompt!DispatchMessage
  <2>1. /\ Prompt!Drawn(Prompt!Empty, promptBuffer, promptCursor) /\ wrapped' = Prompt!Wraps(promptBuffer)
        /\ UNCHANGED promptLine
    BY <1>3, Zenon DEF Prompt!DispatchMessage, Prompt!line
  <2>2. PromptLineInv' /\ PromptHistoryInv'
    BY <1>2, <2>1
  <2>3. RowInv'
    BY <2>1, <2>2, RowDrawn, Zenon
  <2> QED BY <2>2, <2>3 DEF PromptInv
<1>4. CASE Prompt!Key
  BY <1>4, PromptEdited, PromptRecalled, PromptReturned, Zenon DEF Prompt!Key
<1>5. CASE Prompt!Resize
  <2>1. /\ promptBuffer' = <<>> /\ promptCursor' = 0 /\ Prompt!Blanked
        /\ UNCHANGED <<promptHistory, promptIndex>>
    BY <1>5 DEF Prompt!Resize
  <2>2. RowInv'
    BY <2>1, RowBlanked
  <2>3. PromptLineInv'
    BY <2>1, WindowsAssumption DEF WindowsAssumption, PromptLineInv, Lines
  <2> QED BY <2>1, <2>2, <2>3 DEF PromptInv, PromptHistoryInv
<1>6. CASE Prompt!Resized
  <2>1. /\ UNCHANGED promptLine /\ Prompt!Updated(row, promptBuffer, promptCursor)
    BY <1>6, Zenon DEF Prompt!Resized, Prompt!line
  <2>2. promptBuffer \in Lines /\ Len(promptBuffer) <= Len(promptBuffer)
    BY DEF PromptInv, PromptLineInv, Lines
  <2>3. PromptLineInv' /\ PromptHistoryInv'
    BY <1>2, <2>1
  <2>4. ~wrapped => Prompt!Over(row, Prompt!Prompted(promptBuffer))
                      = Prompt!Over(Prompt!Empty, Prompt!Prompted(promptBuffer))
    BY <2>2, CoveredRow, Zenon
  <2>5. RowInv'
    BY <2>1, <2>3, <2>4, RowUpdated, Zenon
  <2> QED BY <2>3, <2>5 DEF PromptInv
<1>7. CASE Prompt!PreStart \/ (\E by \in {"event", "input"} : Prompt!Woken(by))
           \/ Prompt!PreDestroy \/ Prompt!SetKillEvent \/ Prompt!Joined
  <2>1. UNCHANGED <<promptLine, row, column, wrapped>>
    BY <1>7, Zenon DEF Prompt!PreStart, Prompt!Woken, Prompt!PreDestroy, Prompt!SetKillEvent,
           Prompt!Joined, Prompt!line, Prompt!screen
  <2> QED BY <1>1, <2>1
<1>8. CASE UNCHANGED Prompt!vars
  <2>1. UNCHANGED <<promptLine, row, column, wrapped>>
    BY <1>8, Zenon DEF Prompt!vars, Prompt!line, Prompt!screen
  <2> QED BY <1>1, <2>1
<1> QED BY <1>3, <1>4, <1>5, <1>6, <1>7, <1>8, Zenon DEF Prompt!Next

(* The row, the line and the history fit each other in every state. *)
THEOREM PromptInvariance == Prompt!Spec => []PromptInv
  BY PromptInvInit, PromptStep, PTL DEF Prompt!Spec

(* The row shows the prompt and the line, or nothing and the line is       *)
(* empty, as long as no line has filled the row, for any keys, sizes of    *)
(* window, buffer, prompt and history and whatever other threads print    *)
(* (clear_output, update, handle_input).                                   *)
THEOREM RowAlwaysShowsLine == Prompt!Spec => []RowShowsLine
<1>1. PromptInv => RowShowsLine
  <2> SUFFICES ASSUME PromptInv PROVE Prompt!RowShowsLine
    BY DEF RowShowsLine
  <2>1. PromptLength + Len(promptBuffer) < Width <=> ~Prompt!Wraps(promptBuffer)
    BY WindowsAssumption DEF PromptInv, PromptLineInv, Lines, WindowsAssumption, Prompt!Wraps
  <2> QED BY <2>1 DEF PromptInv, RowInv, PromptLineInv, PromptHistoryInv, Prompt!RowShowsLine
<1> QED BY <1>1, PromptInvariance, PTL

------------------------------------------------------------------------------
(***************************************************************************)
(* ScriptHud: the table of elements is what the last calls have asked for. *)
(*                                                                         *)
(* The argument: a call changes the last call of some names for some       *)
(* elements, and the fields of the same elements in the same way.  That    *)
(* there is a last call is part of the invariant: the number of a call is  *)
(* larger than all before.                                                 *)
(***************************************************************************)

(* Numbers are whole, as in the model; which ones is up to the scripts.     *)
HudAssumption ==
    /\ \A args \in RegisterArgs : \A n \in 3..9 :
         Len(args) \in Nat /\ (Len(args) >= n => args[n] \in Int)
    /\ Positions \subseteq Int /\ Scales \subseteq Int
    /\ Screen[1] \in Int /\ Screen[2] \in Int
    /\ \A scale \in Int : TextHeight(scale) \in Int /\ \A text : TextWidth(text, scale) \in Int

HudCall ==
    ({"register"} \X Ids \X RegisterArgs)
    \cup ({"remove", "clear"} \X Ids \X {<<>>})
    \cup ({"text"} \X Ids \X {<<value>> : value \in HudTexts})
    \cup ({"x", "y"} \X Ids \X {<<value>> : value \in Positions})
    \cup ({"color"} \X Ids \X Colors)
    \cup ({"scale"} \X Ids \X {<<value>> : value \in Scales})
    \cup ({"frontend"} \X {CHOOSE id \in Ids : TRUE} \X {<<>>})

(* A call asks for one of these for an element; LastOf is the last one.     *)
Concerns(c, names, id) ==
    Hud!Asks(c) \cap names # {} /\ (c[1] \in {"clear", "frontend"} \/ c[2] = id)

CallsOf(names, id) == {n \in DOMAIN calls : Concerns(calls[n], names, id)}

CallsInv ==
    /\ calls \in Seq(HudCall)
    /\ \A names, id : CallsOf(names, id) # {} =>
         \E n \in CallsOf(names, id) : \A m \in CallsOf(names, id) : m <= n

Lives == {"register", "remove", "clear", "frontend"}

(* What the last registration was called with *)
Register(id) == calls[Hud!LastOf({"register"}, id)][3]

(* An element, field by field *)
ElementInv(id) ==
    /\ elems[id] = [text |-> elems[id].text, color |-> elems[id].color,
                    x |-> elems[id].x, y |-> elems[id].y,
                    anchor_x |-> elems[id].anchor_x, anchor_y |-> elems[id].anchor_y,
                    align_x |-> elems[id].align_x, align_y |-> elems[id].align_y,
                    scale |-> elems[id].scale]
    /\ Hud!LastOf({"register"}, id) \in DOMAIN calls
    /\ calls[Hud!LastOf({"register"}, id)][1] = "register"
    /\ Register(id) \in RegisterArgs
    /\ elems[id].text = Hud!Last1(id, "text", 1, "")
    /\ elems[id].x = Hud!Last1(id, "x", 3, 0) /\ elems[id].x \in Int
    /\ elems[id].y = Hud!Last1(id, "y", 4, 0) /\ elems[id].y \in Int
    /\ elems[id].anchor_x = Hud!Place(Hud!Arg(Register(id), 5, 0))
    /\ elems[id].anchor_y = Hud!Place(Hud!Arg(Register(id), 6, 0))
    /\ elems[id].align_x = Hud!Place(Hud!Arg(Register(id), 7, 0))
    /\ elems[id].align_y = Hud!Place(Hud!Arg(Register(id), 8, 0))
    /\ elems[id].color = Hud!LastColor(id)
    /\ elems[id].scale = Hud!LastScale(id) /\ elems[id].scale \in Int

HudInv ==
    /\ CallsInv
    /\ elems = [id \in DOMAIN elems |-> elems[id]]
    /\ DOMAIN elems = Hud!Living
    /\ \A id \in Hud!Living : ElementInv(id)

(* What a call asks for, by its name and its argument. *)
LEMMA AsksFacts ==
    ASSUME NEW c \in HudCall
    PROVE  /\ \A name \in Lives \cup {"text", "x", "y"} : name \in Hud!Asks(c) <=> c[1] = name
           /\ "size" \in Hud!Asks(c) <=> c[1] = "scale" /\ c[3][1] >= 1
           /\ "rgb" \in Hud!Asks(c) <=>
                c[1] = "color" /\ c[3].form \in {"packed", "vector", "floats", "integers"}
           /\ "alpha" \in Hud!Asks(c) <=> c[1] = "color" /\ c[3].form = "packed"
<1>1. c[1] \in {"register", "remove", "clear", "text", "x", "y", "color", "scale", "frontend"}
  BY DEF HudCall
<1>2. \A name : name \in Hud!Asks(c) <=>
        \/ name = c[1]
        \/ name = "size" /\ c[1] = "scale" /\ c[3][1] >= 1
        \/ name = "rgb" /\ c[1] = "color" /\ c[3].form \in {"packed", "vector", "floats", "integers"}
        \/ name = "alpha" /\ c[1] = "color" /\ c[3].form = "packed"
  BY DEF Hud!Asks
<1> QED BY <1>1, <1>2 DEF Lives

(* Whom a call creates or removes. *)
LEMMA ConcernsFacts ==
    ASSUME NEW c \in HudCall, NEW id
    PROVE  /\ Concerns(c, Lives, id) <=>
                c[1] \in {"clear", "frontend"} \/ (c[1] \in {"register", "remove"} /\ c[2] = id)
           /\ Concerns(c, {"register"}, id) <=> c[1] = "register" /\ c[2] = id
<1>1. \A name \in Lives : name \in Hud!Asks(c) <=> c[1] = name
  BY AsksFacts
<1> QED BY <1>1 DEF Concerns, Lives

(* What LastOf is, as long as there is a last one. *)
LEMMA LastOfFacts ==
    ASSUME CallsInv, NEW names, NEW id
    PROVE  /\ CallsOf(names, id) = {} => Hud!LastOf(names, id) = 0
           /\ CallsOf(names, id) # {} =>
                /\ Hud!LastOf(names, id) \in CallsOf(names, id)
                /\ \A m \in CallsOf(names, id) : m <= Hud!LastOf(names, id)
           /\ Hud!LastOf(names, id) \in Nat
           /\ Hud!LastOf(names, id) # 0 =>
                /\ Hud!LastOf(names, id) \in DOMAIN calls
                /\ Concerns(calls[Hud!LastOf(names, id)], names, id)
<1> DEFINE S == CallsOf(names, id)
<1>1. Hud!LastOf(names, id) = IF S = {} THEN 0 ELSE CHOOSE n \in S : \A m \in S : m <= n
  BY DEF Hud!LastOf, CallsOf, Concerns
<1>2. S # {} => \E n \in S : \A m \in S : m <= n
  BY DEF CallsInv
<1>3. \A n \in S : n \in Nat /\ n # 0 /\ n \in DOMAIN calls /\ Concerns(calls[n], names, id)
  <2>1. DOMAIN calls = 1..Len(calls) /\ Len(calls) \in Nat
    BY DomainOfSeq DEF CallsInv
  <2> QED BY <2>1 DEF CallsOf
<1> HIDE DEF S
<1>4. S # {} => Hud!LastOf(names, id) \in S /\ \A m \in S : m <= Hud!LastOf(names, id)
  BY <1>1, <1>2
<1> QED BY <1>1, <1>3, <1>4 DEF S

(* A call that is added is the last one of its name for its elements. *)
LEMMA CallAdded ==
    ASSUME CallsInv, NEW c \in HudCall, calls' = Append(calls, c)
    PROVE  /\ CallsInv'
           /\ Len(calls) \in Nat /\ DOMAIN calls = 1..Len(calls)
           /\ DOMAIN calls' = 1..(Len(calls) + 1)
           /\ \A n \in DOMAIN calls : calls'[n] = calls[n]
           /\ calls'[Len(calls) + 1] = c
           /\ \A names, id : Hud!LastOf(names, id)' =
                IF Concerns(c, names, id) THEN Len(calls) + 1 ELSE Hud!LastOf(names, id)
<1> DEFINE last == Len(calls) + 1
<1>1. /\ Len(calls) \in Nat /\ DOMAIN calls = 1..Len(calls)
      /\ calls' \in Seq(HudCall) /\ DOMAIN calls' = 1..last
      /\ \A n \in DOMAIN calls : calls'[n] = calls[n]
      /\ calls'[last] = c
  <2>1. calls \in Seq(HudCall)
    BY DEF CallsInv
  <2>2. /\ calls' \in Seq(HudCall) /\ Len(calls') = Len(calls) + 1
        /\ \A n \in 1..Len(calls) : calls'[n] = calls[n]
        /\ calls'[Len(calls) + 1] = c
    BY <2>1, AppendProperties
  <2>3. /\ Len(calls) \in Nat /\ DOMAIN calls = 1..Len(calls) /\ DOMAIN calls' = 1..Len(calls')
    BY <2>1, <2>2, DomainOfSeq
  <2> QED BY <2>2, <2>3
<1>2. \A n \in DOMAIN calls : n \in DOMAIN calls' /\ n < last
  BY <1>1
<1>3. last \in DOMAIN calls' /\ last \notin DOMAIN calls /\ \A n \in DOMAIN calls' : n <= last
  BY <1>1
<1>4. DOMAIN calls' = DOMAIN calls \cup {last}
  BY <1>1
<1> HIDE DEF last
<1>5. \A names, id : CallsOf(names, id)' =
        CallsOf(names, id) \cup (IF Concerns(c, names, id) THEN {last} ELSE {})
  <2> SUFFICES ASSUME NEW names, NEW id, NEW n \in DOMAIN calls'
               PROVE  n \in CallsOf(names, id)'
                        <=> n \in CallsOf(names, id) \/ (n = last /\ Concerns(c, names, id))
    BY <1>2, <1>3 DEF CallsOf
  <2>1. CASE n = last
    BY <1>1, <1>3, <2>1 DEF CallsOf, Concerns
  <2>2. CASE n # last
    BY <1>1, <1>4, <2>2 DEF CallsOf, Concerns
  <2> QED BY <2>1, <2>2
<1>6. \A names, id : CallsOf(names, id) \subseteq DOMAIN calls
  BY DEF CallsOf
<1>7. ASSUME NEW names, NEW id
      PROVE  /\ Concerns(c, names, id) =>
                  last \in CallsOf(names, id)' /\ \A m \in CallsOf(names, id)' : m <= last
             /\ ~Concerns(c, names, id) => CallsOf(names, id)' = CallsOf(names, id)
  <2>1. CASE Concerns(c, names, id)
    <3>1. CallsOf(names, id)' = CallsOf(names, id) \cup {last}
      BY <1>5, <2>1
    <3>2. \A m \in CallsOf(names, id)' : m \in DOMAIN calls'
      BY <1>3, <1>2, <1>6, <3>1
    <3> QED BY <1>3, <2>1, <3>1, <3>2
  <2>2. CASE ~Concerns(c, names, id)
    BY <1>5, <2>2
  <2> QED BY <2>1, <2>2
<1>8. CallsInv'
  <2>1. ASSUME NEW names, NEW id, CallsOf(names, id)' # {}
        PROVE  \E n \in CallsOf(names, id)' : \A m \in CallsOf(names, id)' : m <= n
    <3>1. CASE Concerns(c, names, id)
      BY <1>7, <3>1
    <3>2. CASE ~Concerns(c, names, id)
      <4>1. CallsOf(names, id)' = CallsOf(names, id)
        BY <1>7, <3>2
      <4> QED BY <2>1, <4>1, Zenon DEF CallsInv
    <3> QED BY <3>1, <3>2
  <2> QED BY <1>1, <2>1, Zenon DEF CallsInv
<1>9. ASSUME NEW names, NEW id
      PROVE  Hud!LastOf(names, id)' = IF Concerns(c, names, id) THEN last ELSE Hud!LastOf(names, id)
  <2> DEFINE S == CallsOf(names, id)
             T == CallsOf(names, id)'
  <2>1. Hud!LastOf(names, id) = IF S = {} THEN 0 ELSE CHOOSE n \in S : \A m \in S : m <= n
    BY DEF Hud!LastOf, CallsOf, Concerns
  <2>2. Hud!LastOf(names, id)' = IF T = {} THEN 0 ELSE CHOOSE n \in T : \A m \in T : m <= n
    BY DEF Hud!LastOf, CallsOf, Concerns
  <2>3. CASE Concerns(c, names, id)
    <3>1. last \in T /\ \A m \in T : m <= last /\ m \in Nat
      <4>1. \A m \in T : m \in DOMAIN calls'
        BY DEF CallsOf
      <4> QED BY <1>1, <1>7, <2>3, <4>1
    <3> HIDE DEF T
    <3>2. \A n \in T : (\A m \in T : m <= n) => n = last
      BY <3>1
    <3> QED BY <2>2, <2>3, <3>1, <3>2
  <2>4. CASE ~Concerns(c, names, id)
    <3>1. T = S
      BY <1>7, <2>4
    <3> HIDE DEF S, T
    <3> QED BY <2>1, <2>2, <2>4, <3>1
  <2> QED BY <2>3, <2>4
<1> QED BY <1>1, <1>8, <1>9 DEF last

(* Who is alive changes as the calls that create and remove elements say. *)
LEMMA LivingAfter ==
    ASSUME CallsInv, NEW c \in HudCall, calls' = Append(calls, c)
    PROVE  Hud!Living' = {id \in Ids : IF Concerns(c, Lives, id) THEN c[1] = "register"
                                       ELSE id \in Hud!Living}
<1>1. \A id : Hud!LastOf(Lives, id)' =
        IF Concerns(c, Lives, id) THEN Len(calls) + 1 ELSE Hud!LastOf(Lives, id)
  BY CallAdded
<1>2. Len(calls) \in Nat /\ calls'[Len(calls) + 1] = c /\ \A n \in DOMAIN calls : calls'[n] = calls[n]
  BY CallAdded
<1>3. SUFFICES ASSUME NEW id \in Ids
               PROVE  (Hud!LastOf(Lives, id)' # 0 /\ calls'[Hud!LastOf(Lives, id)'][1] = "register")
                        <=> IF Concerns(c, Lives, id) THEN c[1] = "register"
                            ELSE Hud!LastOf(Lives, id) # 0 /\ calls[Hud!LastOf(Lives, id)][1] = "register"
  BY DEF Hud!Living, Lives
<1>4. CASE Concerns(c, Lives, id)
  BY <1>1, <1>2, <1>4
<1>5. CASE ~Concerns(c, Lives, id)
  <2>1. Hud!LastOf(Lives, id) # 0 => Hud!LastOf(Lives, id) \in DOMAIN calls
    BY LastOfFacts
  <2> QED BY <1>1, <1>2, <1>5, <2>1
<1> QED BY <1>4, <1>5

(* What a call that registers nothing of this name leaves of an element. *)
SameRegistration(id) ==
    /\ Hud!LastOf({"register"}, id)' \in DOMAIN calls'
    /\ calls'[Hud!LastOf({"register"}, id)'][1] = "register"
    /\ Register(id)' = Register(id)

LastAfter(c, id) ==
    /\ Hud!Last1(id, "text", 1, "")' =
         IF c[1] = "text" /\ c[2] = id THEN c[3][1] ELSE Hud!Last1(id, "text", 1, "")
    /\ Hud!Last1(id, "x", 3, 0)' =
         IF c[1] = "x" /\ c[2] = id THEN c[3][1] ELSE Hud!Last1(id, "x", 3, 0)
    /\ Hud!Last1(id, "y", 4, 0)' =
         IF c[1] = "y" /\ c[2] = id THEN c[3][1] ELSE Hud!Last1(id, "y", 4, 0)
    /\ Hud!LastScale(id)' =
         IF c[1] = "scale" /\ c[2] = id THEN Hud!Scaled(Hud!LastScale(id), c[3][1])
                                        ELSE Hud!LastScale(id)
    /\ Hud!LastColor(id)' =
         IF c[1] = "color" /\ c[2] = id THEN Hud!Colored(Hud!LastColor(id), c[3])
                                        ELSE Hud!LastColor(id)

(* The last call that registers an element or asks for one thing more *)
LEMMA LastNamed ==
    ASSUME CallsInv, NEW c \in HudCall, calls' = Append(calls, c), NEW id, ElementInv(id),
           ~Concerns(c, {"register"}, id), NEW name
    PROVE  IF name \in Hud!Asks(c) /\ (c[1] \in {"clear", "frontend"} \/ c[2] = id)
             THEN calls'[Hud!LastOf({"register", name}, id)'] = c
             ELSE calls'[Hud!LastOf({"register", name}, id)']
                    = calls[Hud!LastOf({"register", name}, id)]
<1> DEFINE names == {"register", name}
           m == Hud!LastOf(names, id)
           n == Hud!LastOf({"register"}, id)
<1>1. /\ Len(calls) \in Nat /\ DOMAIN calls = 1..Len(calls)
      /\ \A k \in DOMAIN calls : calls'[k] = calls[k]
      /\ calls'[Len(calls) + 1] = c
  BY CallAdded
<1>2. m' = IF Concerns(c, names, id) THEN Len(calls) + 1 ELSE m
  BY CallAdded
<1>3. Concerns(c, names, id) <=>
        name \in Hud!Asks(c) /\ (c[1] \in {"clear", "frontend"} \/ c[2] = id)
  BY DEF Concerns
<1>4. m \in DOMAIN calls
  <2>1. n \in DOMAIN calls
    BY DEF ElementInv
  <2>2. n # 0
    BY <1>1, <2>1
  <2>3. n \in CallsOf({"register"}, id)
    <3>1. CallsOf({"register"}, id) # {}
      BY <2>2, LastOfFacts
    <3> QED BY <3>1, LastOfFacts
  <2>4. n \in CallsOf(names, id)
    BY <2>3 DEF CallsOf, Concerns
  <2>5. m \in CallsOf(names, id)
    BY <2>4, LastOfFacts
  <2> QED BY <2>5 DEF CallsOf
<1> HIDE DEF m, names, n
<1>5. IF name \in Hud!Asks(c) /\ (c[1] \in {"clear", "frontend"} \/ c[2] = id)
        THEN calls'[m'] = c ELSE calls'[m'] = calls[m]
  BY <1>1, <1>2, <1>3, <1>4
<1> QED BY <1>5 DEF m, names

LEMMA AskedAfter ==
    ASSUME CallsInv, NEW c \in HudCall, calls' = Append(calls, c), NEW id, ElementInv(id),
           ~Concerns(c, {"register"}, id)
    PROVE  SameRegistration(id) /\ LastAfter(c, id)
<1> DEFINE n == Hud!LastOf({"register"}, id)
           Newest(name) == calls[Hud!LastOf({"register", name}, id)]
           Meant(name) == name \in Hud!Asks(c) /\ c[2] = id
<1>1. /\ Len(calls) \in Nat /\ DOMAIN calls = 1..Len(calls) /\ DOMAIN calls' = 1..(Len(calls) + 1)
      /\ \A k \in DOMAIN calls : calls'[k] = calls[k]
  BY CallAdded
<1>2. n' = n /\ n \in DOMAIN calls /\ calls[n][1] = "register"
  <2>1. n' = n
    BY CallAdded
  <2> QED BY <2>1 DEF ElementInv
<1> HIDE DEF n
<1>3. n \in DOMAIN calls' /\ calls'[n] = calls[n]
  BY <1>1, <1>2
<1>4. SameRegistration(id)
  BY <1>2, <1>3 DEF SameRegistration, Register, n
<1>5. /\ \A name \in {"text", "x", "y"} : name \in Hud!Asks(c) <=> c[1] = name
      /\ "size" \in Hud!Asks(c) <=> c[1] = "scale" /\ c[3][1] >= 1
      /\ "rgb" \in Hud!Asks(c) <=>
           c[1] = "color" /\ c[3].form \in {"packed", "vector", "floats", "integers"}
      /\ "alpha" \in Hud!Asks(c) <=> c[1] = "color" /\ c[3].form = "packed"
  BY AsksFacts
<1>6. ASSUME NEW name \in {"text", "x", "y", "size", "rgb", "alpha"}
      PROVE  Newest(name)' = IF Meant(name) THEN c ELSE Newest(name)
  <2>1. name \in Hud!Asks(c) => c[1] \notin {"clear", "frontend"}
    BY <1>5
  <2>2. IF name \in Hud!Asks(c) /\ (c[1] \in {"clear", "frontend"} \/ c[2] = id)
          THEN Newest(name)' = c ELSE Newest(name)' = Newest(name)
    BY LastNamed
  <2> HIDE DEF Newest
  <2> QED BY <2>1, <2>2
<1>7. ASSUME NEW name \in {"text", "x", "y", "size"}, NEW position, NEW default
      PROVE  Hud!Last1(id, name, position, default)' =
               IF Meant(name) /\ c[1] # "register" THEN c[3][1] ELSE Hud!Last1(id, name, position, default)
  <2>1. /\ Hud!Last1(id, name, position, default) =
             IF Newest(name)[1] = "register" THEN Hud!Arg(Newest(name)[3], position, default) ELSE Newest(name)[3][1]
        /\ Hud!Last1(id, name, position, default)' =
             IF Newest(name)'[1] = "register" THEN Hud!Arg(Newest(name)'[3], position, default) ELSE Newest(name)'[3][1]
    BY DEF Hud!Last1, Hud!Arg
  <2>2. Meant(name) => c[1] # "register"
    BY <1>5
  <2>3. Newest(name)' = IF Meant(name) THEN c ELSE Newest(name)
    BY <1>6
  <2> HIDE DEF Newest, Meant
  <2> QED BY <2>1, <2>2, <2>3
<1>8. ASSUME NEW name \in {"rgb", "alpha"}
      PROVE  Hud!LastColors(id, name)' = IF Meant(name) THEN c[3].values ELSE Hud!LastColors(id, name)
  <2>1. /\ Hud!LastColors(id, name) =
             IF Newest(name)[1] = "register" THEN Hud!Arg(Newest(name)[3], 2, Hud!White) ELSE Newest(name)[3].values
        /\ Hud!LastColors(id, name)' =
             IF Newest(name)'[1] = "register" THEN Hud!Arg(Newest(name)'[3], 2, Hud!White) ELSE Newest(name)'[3].values
    BY DEF Hud!LastColors, Hud!Arg, Hud!White
  <2>2. Meant(name) => c[1] # "register"
    BY <1>5
  <2>3. Newest(name)' = IF Meant(name) THEN c ELSE Newest(name)
    BY <1>6
  <2> HIDE DEF Newest, Meant
  <2> QED BY <2>1, <2>2, <2>3
<1> HIDE DEF Newest
<1>9. ASSUME NEW name \in {"text", "x", "y"}, NEW position, NEW default
      PROVE  Hud!Last1(id, name, position, default)' =
               IF c[1] = name /\ c[2] = id THEN c[3][1] ELSE Hud!Last1(id, name, position, default)
  BY <1>5, <1>7
<1>10. Hud!LastScale(id)' = IF c[1] = "scale" /\ c[2] = id
         THEN Hud!Scaled(Hud!LastScale(id), c[3][1]) ELSE Hud!LastScale(id)
  <2>1. Hud!Last1(id, "size", 9, 100)' =
          IF c[1] = "scale" /\ c[3][1] >= 1 /\ c[2] = id THEN c[3][1] ELSE Hud!Last1(id, "size", 9, 100)
    BY <1>5, <1>7
  <2>2. /\ Hud!LastScale(id) =
             IF Hud!Last1(id, "size", 9, 100) >= 1 THEN Hud!Last1(id, "size", 9, 100) ELSE 100
        /\ Hud!LastScale(id)' =
             IF Hud!Last1(id, "size", 9, 100)' >= 1 THEN Hud!Last1(id, "size", 9, 100)' ELSE 100
    BY DEF Hud!LastScale
  <2> QED BY <2>1, <2>2 DEF Hud!Scaled
<1>11. Hud!LastColor(id)' = IF c[1] = "color" /\ c[2] = id
         THEN Hud!Colored(Hud!LastColor(id), c[3]) ELSE Hud!LastColor(id)
  <2> DEFINE rgb == Hud!LastColors(id, "rgb")
             alpha == Hud!LastColors(id, "alpha")
             Tuple(v, w) == <<v[1], v[2], v[3], IF w[4] = 0 THEN 256 ELSE w[4]>>
  <2>1. Hud!LastColor(id) = Tuple(rgb, alpha) /\ Hud!LastColor(id)' = Tuple(rgb', alpha')
    BY DEF Hud!LastColor
  <2>2. /\ rgb' = IF c[1] = "color" /\ c[3].form \in {"packed", "vector", "floats", "integers"}
                      /\ c[2] = id THEN c[3].values ELSE rgb
        /\ alpha' = IF c[1] = "color" /\ c[3].form = "packed" /\ c[2] = id
                      THEN c[3].values ELSE alpha
    BY <1>5, <1>8
  <2> HIDE DEF rgb, alpha
  <2>3. CASE c[1] = "color" /\ c[2] = id
    <3>1. CASE c[3].form = "packed"
      <4>1. rgb' = c[3].values /\ alpha' = c[3].values
        BY <2>2, <2>3, <3>1
      <4>2. Hud!Colored(Hud!LastColor(id), c[3]) = Tuple(c[3].values, c[3].values)
        BY <3>1 DEF Hud!Colored, Hud!set_color_rgba
      <4> QED BY <2>1, <2>3, <4>1, <4>2
    <3>2. CASE c[3].form \in {"vector", "floats", "integers"}
      <4>1. rgb' = c[3].values /\ alpha' = alpha
        BY <2>2, <2>3, <3>2
      <4>2. Hud!Colored(Hud!LastColor(id), c[3]) =
              <<c[3].values[1], c[3].values[2], c[3].values[3], Hud!LastColor(id)[4]>>
        BY <3>2 DEF Hud!Colored
      <4>3. Hud!LastColor(id)[4] = IF alpha[4] = 0 THEN 256 ELSE alpha[4]
        BY <2>1
      <4> QED BY <2>1, <2>3, <4>1, <4>2, <4>3
    <3>3. CASE c[3].form \notin {"packed", "vector", "floats", "integers"}
      <4>1. rgb' = rgb /\ alpha' = alpha
        BY <2>2, <3>3
      <4>2. Hud!Colored(Hud!LastColor(id), c[3]) = Hud!LastColor(id)
        BY <3>3 DEF Hud!Colored
      <4> QED BY <2>1, <2>3, <4>1, <4>2
    <3> QED BY <3>1, <3>2, <3>3
  <2>4. CASE ~(c[1] = "color" /\ c[2] = id)
    <3>1. rgb' = rgb /\ alpha' = alpha
      BY <2>2, <2>4
    <3> QED BY <2>1, <2>4, <3>1
  <2> QED BY <2>3, <2>4
<1>12. /\ Hud!Last1(id, "text", 1, "")' =
            IF c[1] = "text" /\ c[2] = id THEN c[3][1] ELSE Hud!Last1(id, "text", 1, "")
       /\ Hud!Last1(id, "x", 3, 0)' =
            IF c[1] = "x" /\ c[2] = id THEN c[3][1] ELSE Hud!Last1(id, "x", 3, 0)
       /\ Hud!Last1(id, "y", 4, 0)' =
            IF c[1] = "y" /\ c[2] = id THEN c[3][1] ELSE Hud!Last1(id, "y", 4, 0)
  BY <1>9
<1> QED BY <1>4, <1>10, <1>11, <1>12, Zenon DEF LastAfter

(* An element whose fields were asked for, after a step *)
LEMMA ElementNext ==
    ASSUME NEW id, NEW f, f = elems'[id], NEW args \in RegisterArgs, Register(id)' = args,
           f = [text |-> f.text, color |-> f.color, x |-> f.x, y |-> f.y,
                anchor_x |-> f.anchor_x, anchor_y |-> f.anchor_y,
                align_x |-> f.align_x, align_y |-> f.align_y, scale |-> f.scale],
           Hud!LastOf({"register"}, id)' \in DOMAIN calls',
           calls'[Hud!LastOf({"register"}, id)'][1] = "register",
           f.text = Hud!Last1(id, "text", 1, "")',
           f.x = Hud!Last1(id, "x", 3, 0)', f.x \in Int,
           f.y = Hud!Last1(id, "y", 4, 0)', f.y \in Int,
           f.anchor_x = Hud!Place(Hud!Arg(args, 5, 0)), f.anchor_y = Hud!Place(Hud!Arg(args, 6, 0)),
           f.align_x = Hud!Place(Hud!Arg(args, 7, 0)), f.align_y = Hud!Place(Hud!Arg(args, 8, 0)),
           f.color = Hud!LastColor(id)', f.scale = Hud!LastScale(id)', f.scale \in Int
    PROVE  ElementInv(id)'
BY Zenon DEF ElementInv, Hud!Arg, Hud!Place

(* A step that leaves the place of an element as it is, and after which its *)
(* other fields are what was asked for                                     *)
ElementMoves(id, e, f) ==
    /\ f = [text |-> f.text, color |-> f.color, x |-> f.x, y |-> f.y,
            anchor_x |-> f.anchor_x, anchor_y |-> f.anchor_y,
            align_x |-> f.align_x, align_y |-> f.align_y, scale |-> f.scale]
    /\ f.anchor_x = e.anchor_x /\ f.anchor_y = e.anchor_y
    /\ f.align_x = e.align_x /\ f.align_y = e.align_y
    /\ \/ f.text = e.text /\ Hud!Last1(id, "text", 1, "")' = Hud!Last1(id, "text", 1, "")
       \/ f.text = Hud!Last1(id, "text", 1, "")'
    /\ \/ f.x = e.x /\ Hud!Last1(id, "x", 3, 0)' = Hud!Last1(id, "x", 3, 0)
       \/ f.x = Hud!Last1(id, "x", 3, 0)' /\ f.x \in Int
    /\ \/ f.y = e.y /\ Hud!Last1(id, "y", 4, 0)' = Hud!Last1(id, "y", 4, 0)
       \/ f.y = Hud!Last1(id, "y", 4, 0)' /\ f.y \in Int
    /\ \/ f.scale = e.scale /\ Hud!LastScale(id)' = Hud!LastScale(id)
       \/ f.scale = Hud!LastScale(id)' /\ f.scale \in Int
    /\ \/ f.color = e.color /\ Hud!LastColor(id)' = Hud!LastColor(id)
       \/ f.color = Hud!LastColor(id)'

LEMMA ElementSame ==
    ASSUME NEW id, ElementInv(id), SameRegistration(id), ElementMoves(id, elems[id], elems'[id])
    PROVE  ElementInv(id)'
<1> DEFINE args == Register(id)
           e == elems[id]
           f == elems'[id]
<1>1. args \in RegisterArgs
  BY DEF ElementInv
<1>2. e.text = Hud!Last1(id, "text", 1, "")
  BY DEF ElementInv
<1>3. /\ e.x = Hud!Last1(id, "x", 3, 0) /\ e.x \in Int
      /\ e.y = Hud!Last1(id, "y", 4, 0) /\ e.y \in Int
  BY DEF ElementInv
<1>4. /\ e.anchor_x = Hud!Place(Hud!Arg(args, 5, 0)) /\ e.anchor_y = Hud!Place(Hud!Arg(args, 6, 0))
      /\ e.align_x = Hud!Place(Hud!Arg(args, 7, 0)) /\ e.align_y = Hud!Place(Hud!Arg(args, 8, 0))
  BY DEF ElementInv
<1>5. e.scale = Hud!LastScale(id) /\ e.scale \in Int /\ e.color = Hud!LastColor(id)
  BY DEF ElementInv
<1>6. ElementMoves(id, e, f) /\ f = elems'[id]
  OBVIOUS
<1> HIDE DEF args, e, f
<1>7. f.text = Hud!Last1(id, "text", 1, "")'
  BY <1>2, <1>6 DEF ElementMoves
<1>8. f.x = Hud!Last1(id, "x", 3, 0)' /\ f.x \in Int
  BY <1>3, <1>6 DEF ElementMoves
<1>9. f.y = Hud!Last1(id, "y", 4, 0)' /\ f.y \in Int
  BY <1>3, <1>6 DEF ElementMoves
<1>10. f.scale = Hud!LastScale(id)' /\ f.scale \in Int /\ f.color = Hud!LastColor(id)'
  BY <1>5, <1>6 DEF ElementMoves
<1>11. /\ f.anchor_x = Hud!Place(Hud!Arg(args, 5, 0)) /\ f.anchor_y = Hud!Place(Hud!Arg(args, 6, 0))
       /\ f.align_x = Hud!Place(Hud!Arg(args, 7, 0)) /\ f.align_y = Hud!Place(Hud!Arg(args, 8, 0))
  BY <1>4, <1>6, Zenon DEF ElementMoves
<1>12. /\ Register(id)' = args
       /\ Hud!LastOf({"register"}, id)' \in DOMAIN calls'
       /\ calls'[Hud!LastOf({"register"}, id)'][1] = "register"
  BY DEF args, SameRegistration
<1>13. f = [text |-> f.text, color |-> f.color, x |-> f.x, y |-> f.y,
            anchor_x |-> f.anchor_x, anchor_y |-> f.anchor_y,
            align_x |-> f.align_x, align_y |-> f.align_y, scale |-> f.scale]
  BY <1>6 DEF ElementMoves
<1> QED BY <1>1, <1>6, <1>7, <1>8, <1>9, <1>10, <1>11, <1>12, <1>13, ElementNext

(* An element that a call leaves alone *)
LEMMA ElementKept ==
    ASSUME CallsInv, NEW c \in HudCall, calls' = Append(calls, c), NEW id, ElementInv(id),
           ~Concerns(c, {"register"}, id),
           c[1] \in {"text", "x", "y", "scale", "color"} => c[2] # id,
           elems'[id] = elems[id]
    PROVE  ElementInv(id)'
<1>1. SameRegistration(id) /\ LastAfter(c, id)
  BY AskedAfter
<1>2. /\ Hud!Last1(id, "text", 1, "")' = Hud!Last1(id, "text", 1, "")
      /\ Hud!Last1(id, "x", 3, 0)' = Hud!Last1(id, "x", 3, 0)
      /\ Hud!Last1(id, "y", 4, 0)' = Hud!Last1(id, "y", 4, 0)
      /\ Hud!LastScale(id)' = Hud!LastScale(id) /\ Hud!LastColor(id)' = Hud!LastColor(id)
  BY <1>1, Zenon DEF LastAfter
<1> DEFINE e == elems[id]
<1>3. e = [text |-> e.text, color |-> e.color, x |-> e.x, y |-> e.y,
           anchor_x |-> e.anchor_x, anchor_y |-> e.anchor_y,
           align_x |-> e.align_x, align_y |-> e.align_y, scale |-> e.scale]
  BY DEF ElementInv
<1> HIDE DEF e
<1>4. ElementMoves(id, e, e)
  BY <1>2, <1>3 DEF ElementMoves
<1>5. ElementMoves(id, elems[id], elems'[id])
  BY <1>4 DEF e
<1> QED BY <1>1, <1>5, ElementSame

(* An element of which a call changes one field *)
LEMMA ElementChanged ==
    ASSUME CallsInv, NEW c \in HudCall, calls' = Append(calls, c), NEW id, ElementInv(id),
           NEW value, c[2] = id,
           \/ c[1] = "text" /\ c[3][1] = value /\ elems'[id] = [elems[id] EXCEPT !.text = value]
           \/ c[1] = "x" /\ c[3][1] = value /\ value \in Int
                /\ elems'[id] = [elems[id] EXCEPT !.x = value]
           \/ c[1] = "y" /\ c[3][1] = value /\ value \in Int
                /\ elems'[id] = [elems[id] EXCEPT !.y = value]
           \/ c[1] = "scale" /\ value = Hud!Scaled(elems[id].scale, c[3][1]) /\ value \in Int
                /\ elems'[id] = [elems[id] EXCEPT !.scale = value]
           \/ c[1] = "color" /\ value = Hud!Colored(elems[id].color, c[3])
                /\ elems'[id] = [elems[id] EXCEPT !.color = value]
    PROVE  ElementInv(id)'
<1>1. ~Concerns(c, {"register"}, id)
  BY ConcernsFacts
<1>2. SameRegistration(id) /\ LastAfter(c, id)
  BY <1>1, AskedAfter
<1>3. elems[id].scale = Hud!LastScale(id) /\ elems[id].color = Hud!LastColor(id)
  BY DEF ElementInv
<1> DEFINE text == Hud!Last1(id, "text", 1, "")
           x == Hud!Last1(id, "x", 3, 0)
           y == Hud!Last1(id, "y", 4, 0)
           scale == Hud!LastScale(id)
           color == Hud!LastColor(id)
<1>4. /\ text' = IF c[1] = "text" THEN c[3][1] ELSE text
      /\ x' = IF c[1] = "x" THEN c[3][1] ELSE x
      /\ y' = IF c[1] = "y" THEN c[3][1] ELSE y
      /\ scale' = IF c[1] = "scale" THEN Hud!Scaled(scale, c[3][1]) ELSE scale
      /\ color' = IF c[1] = "color" THEN Hud!Colored(color, c[3]) ELSE color
  BY <1>2, Zenon DEF LastAfter
<1> DEFINE e == elems[id]
           f == elems'[id]
<1>5. e = [text |-> e.text, color |-> e.color, x |-> e.x, y |-> e.y,
           anchor_x |-> e.anchor_x, anchor_y |-> e.anchor_y,
           align_x |-> e.align_x, align_y |-> e.align_y, scale |-> e.scale]
  BY DEF ElementInv
<1> SUFFICES ElementMoves(id, e, f)
  BY <1>2, ElementSame
<1>6. ElementMoves(id, e, f) <=>
        /\ f = [text |-> f.text, color |-> f.color, x |-> f.x, y |-> f.y,
                anchor_x |-> f.anchor_x, anchor_y |-> f.anchor_y,
                align_x |-> f.align_x, align_y |-> f.align_y, scale |-> f.scale]
        /\ f.anchor_x = e.anchor_x /\ f.anchor_y = e.anchor_y
        /\ f.align_x = e.align_x /\ f.align_y = e.align_y
        /\ (f.text = e.text /\ text' = text) \/ f.text = text'
        /\ (f.x = e.x /\ x' = x) \/ (f.x = x' /\ f.x \in Int)
        /\ (f.y = e.y /\ y' = y) \/ (f.y = y' /\ f.y \in Int)
        /\ (f.scale = e.scale /\ scale' = scale) \/ (f.scale = scale' /\ f.scale \in Int)
        /\ (f.color = e.color /\ color' = color) \/ f.color = color'
  BY Zenon DEF ElementMoves
<1>7. e.scale = scale /\ e.color = color
  BY <1>3
<1> HIDE DEF e, f, text, x, y, scale, color
<1>8. CASE c[1] = "text" /\ c[3][1] = value /\ f = [e EXCEPT !.text = value]
  <2>1. /\ f = [text |-> f.text, color |-> f.color, x |-> f.x, y |-> f.y,
                anchor_x |-> f.anchor_x, anchor_y |-> f.anchor_y,
                align_x |-> f.align_x, align_y |-> f.align_y, scale |-> f.scale]
        /\ f.anchor_x = e.anchor_x /\ f.anchor_y = e.anchor_y
        /\ f.align_x = e.align_x /\ f.align_y = e.align_y
        /\ f.x = e.x /\ f.y = e.y /\ f.scale = e.scale /\ f.color = e.color /\ f.text = value
    BY <1>5, <1>8
  <2> QED BY <1>4, <1>6, <1>8, <2>1
<1>9. CASE c[1] = "x" /\ c[3][1] = value /\ value \in Int /\ f = [e EXCEPT !.x = value]
  <2>1. /\ f = [text |-> f.text, color |-> f.color, x |-> f.x, y |-> f.y,
                anchor_x |-> f.anchor_x, anchor_y |-> f.anchor_y,
                align_x |-> f.align_x, align_y |-> f.align_y, scale |-> f.scale]
        /\ f.anchor_x = e.anchor_x /\ f.anchor_y = e.anchor_y
        /\ f.align_x = e.align_x /\ f.align_y = e.align_y
        /\ f.text = e.text /\ f.y = e.y /\ f.scale = e.scale /\ f.color = e.color /\ f.x = value
    BY <1>5, <1>9
  <2> QED BY <1>4, <1>6, <1>9, <2>1
<1>10. CASE c[1] = "y" /\ c[3][1] = value /\ value \in Int /\ f = [e EXCEPT !.y = value]
  <2>1. /\ f = [text |-> f.text, color |-> f.color, x |-> f.x, y |-> f.y,
                anchor_x |-> f.anchor_x, anchor_y |-> f.anchor_y,
                align_x |-> f.align_x, align_y |-> f.align_y, scale |-> f.scale]
        /\ f.anchor_x = e.anchor_x /\ f.anchor_y = e.anchor_y
        /\ f.align_x = e.align_x /\ f.align_y = e.align_y
        /\ f.text = e.text /\ f.x = e.x /\ f.scale = e.scale /\ f.color = e.color /\ f.y = value
    BY <1>5, <1>10
  <2> QED BY <1>4, <1>6, <1>10, <2>1
<1>11. CASE c[1] = "scale" /\ value = Hud!Scaled(scale, c[3][1]) /\ value \in Int
             /\ f = [e EXCEPT !.scale = value]
  <2>1. /\ f = [text |-> f.text, color |-> f.color, x |-> f.x, y |-> f.y,
                anchor_x |-> f.anchor_x, anchor_y |-> f.anchor_y,
                align_x |-> f.align_x, align_y |-> f.align_y, scale |-> f.scale]
        /\ f.anchor_x = e.anchor_x /\ f.anchor_y = e.anchor_y
        /\ f.align_x = e.align_x /\ f.align_y = e.align_y
        /\ f.text = e.text /\ f.x = e.x /\ f.y = e.y /\ f.color = e.color /\ f.scale = value
    BY <1>5, <1>11
  <2> QED BY <1>4, <1>6, <1>11, <2>1
<1>12. CASE c[1] = "color" /\ value = Hud!Colored(color, c[3]) /\ f = [e EXCEPT !.color = value]
  <2>1. /\ f = [text |-> f.text, color |-> f.color, x |-> f.x, y |-> f.y,
                anchor_x |-> f.anchor_x, anchor_y |-> f.anchor_y,
                align_x |-> f.align_x, align_y |-> f.align_y, scale |-> f.scale]
        /\ f.anchor_x = e.anchor_x /\ f.anchor_y = e.anchor_y
        /\ f.align_x = e.align_x /\ f.align_y = e.align_y
        /\ f.text = e.text /\ f.x = e.x /\ f.y = e.y /\ f.scale = e.scale /\ f.color = value
    BY <1>5, <1>12
  <2> QED BY <1>4, <1>6, <1>12, <2>1
<1>13. \/ c[1] = "text" /\ c[3][1] = value /\ f = [e EXCEPT !.text = value]
       \/ c[1] = "x" /\ c[3][1] = value /\ value \in Int /\ f = [e EXCEPT !.x = value]
       \/ c[1] = "y" /\ c[3][1] = value /\ value \in Int /\ f = [e EXCEPT !.y = value]
       \/ c[1] = "scale" /\ value = Hud!Scaled(scale, c[3][1]) /\ value \in Int
            /\ f = [e EXCEPT !.scale = value]
       \/ c[1] = "color" /\ value = Hud!Colored(color, c[3]) /\ f = [e EXCEPT !.color = value]
  BY <1>7, Zenon DEF e, f
<1> QED BY <1>8, <1>9, <1>10, <1>11, <1>12, <1>13, Zenon

LEMMA ElementFields ==
    ASSUME NEW f, NEW text, NEW color, NEW x, NEW y, NEW anchor_x, NEW anchor_y, NEW align_x,
           NEW align_y, NEW scale,
           f = [text |-> text, color |-> color, x |-> x, y |-> y, anchor_x |-> anchor_x,
                anchor_y |-> anchor_y, align_x |-> align_x, align_y |-> align_y, scale |-> scale]
    PROVE  /\ f = [text |-> f.text, color |-> f.color, x |-> f.x, y |-> f.y,
                    anchor_x |-> f.anchor_x, anchor_y |-> f.anchor_y,
                    align_x |-> f.align_x, align_y |-> f.align_y, scale |-> f.scale]
           /\ f.text = text /\ f.color = color /\ f.x = x /\ f.y = y
           /\ f.anchor_x = anchor_x /\ f.anchor_y = anchor_y
           /\ f.align_x = align_x /\ f.align_y = align_y /\ f.scale = scale
OBVIOUS

(* A registration leaves nothing of what was asked for before. *)
LEMMA ElementRegistered ==
    ASSUME HudAssumption, CallsInv, NEW id \in Ids, NEW args \in RegisterArgs,
           calls' = Append(calls, <<"register", id, args>>), elems'[id] = Hud!Registered(args)
    PROVE  ElementInv(id)'
<1> DEFINE c == <<"register", id, args>>
           last == Len(calls) + 1
<1>1. c \in HudCall /\ c[1] = "register" /\ c[2] = id /\ c[3] = args
  BY DEF HudCall
<1>2. /\ Len(calls) \in Nat /\ DOMAIN calls' = 1..last /\ calls'[last] = c
      /\ \A names : "register" \in names => Hud!LastOf(names, id)' = last
  <2>0. "register" \in Hud!Asks(c)
    BY <1>1, AsksFacts DEF Lives
  <2> HIDE DEF c
  <2>1. \A names : "register" \in names => Concerns(c, names, id)
    BY <1>1, <2>0 DEF Concerns
  <2>2. calls' = Append(calls, c) /\ c \in HudCall
    BY <1>1 DEF c
  <2>3. \A names, i : Hud!LastOf(names, i)' = IF Concerns(c, names, i) THEN last ELSE Hud!LastOf(names, i)
    BY <2>2, CallAdded
  <2>4. Len(calls) \in Nat /\ DOMAIN calls' = 1..last /\ calls'[last] = c
    BY <2>2, CallAdded
  <2> QED BY <2>1, <2>3, <2>4
<1> HIDE DEF c
<1>3. Register(id)' = args /\ last \in DOMAIN calls'
  BY <1>1, <1>2 DEF Register
<1>4. \A name \in {"text", "x", "y", "size"} : \A position, default :
        Hud!Last1(id, name, position, default)' = Hud!Arg(args, position, default)
  <2> SUFFICES ASSUME NEW name \in {"text", "x", "y", "size"}, NEW position, NEW default
               PROVE  Hud!Last1(id, name, position, default)' = Hud!Arg(args, position, default)
    OBVIOUS
  <2>1. Hud!LastOf({"register", name}, id)' = last
    BY <1>2
  <2>2. Hud!Last1(id, name, position, default)' =
          IF calls'[last][1] = "register" THEN Hud!Arg(calls'[last][3], position, default)
                                          ELSE calls'[last][3][1]
    BY <2>1 DEF Hud!Last1, Hud!Arg
  <2> QED BY <1>1, <1>2, <2>2
<1>14. Hud!LastScale(id)' = IF Hud!Arg(args, 9, 100) >= 1 THEN Hud!Arg(args, 9, 100) ELSE 100
  <2>1. Hud!LastScale(id)' =
          IF Hud!Last1(id, "size", 9, 100)' >= 1 THEN Hud!Last1(id, "size", 9, 100)' ELSE 100
    BY DEF Hud!LastScale
  <2> QED BY <1>4, <2>1
<1>15. Hud!LastColor(id)' = Hud!set_color_rgba(Hud!Arg(args, 2, Hud!White))
  <2> DEFINE colors == Hud!Arg(args, 2, Hud!White)
  <2>1. ASSUME NEW name \in {"rgb", "alpha"} PROVE Hud!LastColors(id, name)' = colors
    <3>1. Hud!LastOf({"register", name}, id)' = last
      BY <1>2
    <3>2. Hud!LastColors(id, name)' =
            IF calls'[last][1] = "register" THEN Hud!Arg(calls'[last][3], 2, Hud!White)
                                            ELSE calls'[last][3].values
      BY <3>1 DEF Hud!LastColors, Hud!Arg, Hud!White
    <3> QED BY <1>1, <1>2, <3>2
  <2> HIDE DEF colors
  <2>2. Hud!LastColor(id)' = <<colors[1], colors[2], colors[3], IF colors[4] = 0 THEN 256 ELSE colors[4]>>
    BY <2>1 DEF Hud!LastColor
  <2>3. Hud!LastColor(id)' = Hud!set_color_rgba(colors)
    BY <2>2 DEF Hud!set_color_rgba
  <2> QED BY <2>3 DEF colors
<1>5. /\ Hud!Arg(args, 3, 0) \in Int /\ Hud!Arg(args, 4, 0) \in Int
      /\ Hud!Arg(args, 9, 100) \in Int
  <2>1. \A n \in 3..9 : Len(args) \in Nat /\ (Len(args) >= n => args[n] \in Int)
    BY DEF HudAssumption
  <2>2. /\ Len(args) >= 3 => args[3] \in Int
        /\ Len(args) >= 4 => args[4] \in Int
        /\ Len(args) >= 9 => args[9] \in Int
    BY <2>1
  <2> QED BY <2>2 DEF Hud!Arg
<1> DEFINE f == elems'[id]
<1>6. /\ f = [text |-> f.text, color |-> f.color, x |-> f.x, y |-> f.y,
              anchor_x |-> f.anchor_x, anchor_y |-> f.anchor_y,
              align_x |-> f.align_x, align_y |-> f.align_y, scale |-> f.scale]
      /\ f.text = Hud!Arg(args, 1, "") /\ f.x = Hud!Arg(args, 3, 0) /\ f.y = Hud!Arg(args, 4, 0)
      /\ f.anchor_x = Hud!Place(Hud!Arg(args, 5, 0)) /\ f.anchor_y = Hud!Place(Hud!Arg(args, 6, 0))
      /\ f.align_x = Hud!Place(Hud!Arg(args, 7, 0)) /\ f.align_y = Hud!Place(Hud!Arg(args, 8, 0))
      /\ f.color = Hud!set_color_rgba(Hud!Arg(args, 2, Hud!White))
      /\ f.scale = IF Hud!Arg(args, 9, 100) >= 1 THEN Hud!Arg(args, 9, 100) ELSE 100
  <2>1. f = [text |-> Hud!Arg(args, 1, ""),
             color |-> Hud!set_color_rgba(Hud!Arg(args, 2, Hud!White)),
             x |-> Hud!Arg(args, 3, 0), y |-> Hud!Arg(args, 4, 0),
             anchor_x |-> Hud!Place(Hud!Arg(args, 5, 0)),
             anchor_y |-> Hud!Place(Hud!Arg(args, 6, 0)),
             align_x |-> Hud!Place(Hud!Arg(args, 7, 0)),
             align_y |-> Hud!Place(Hud!Arg(args, 8, 0)),
             scale |-> IF Hud!Arg(args, 9, 100) >= 1 THEN Hud!Arg(args, 9, 100) ELSE 100]
    BY DEF Hud!Registered
  <2> HIDE DEF f
  <2> QED BY <2>1, ElementFields
<1> HIDE DEF f
<1>7. f.x \in Int /\ f.y \in Int /\ f.scale \in Int
  <2>1. f.x = Hud!Arg(args, 3, 0) /\ f.y = Hud!Arg(args, 4, 0)
    BY <1>6
  <2>2. f.scale = IF Hud!Arg(args, 9, 100) >= 1 THEN Hud!Arg(args, 9, 100) ELSE 100
    BY <1>6
  <2> QED BY <1>5, <2>1, <2>2
<1>8. /\ f.text = Hud!Last1(id, "text", 1, "")' /\ f.x = Hud!Last1(id, "x", 3, 0)'
      /\ f.y = Hud!Last1(id, "y", 4, 0)'
  <2>1. /\ Hud!Last1(id, "text", 1, "")' = Hud!Arg(args, 1, "")
        /\ Hud!Last1(id, "x", 3, 0)' = Hud!Arg(args, 3, 0)
        /\ Hud!Last1(id, "y", 4, 0)' = Hud!Arg(args, 4, 0)
    BY <1>4
  <2> QED BY <1>6, <2>1
<1>9. /\ Hud!LastOf({"register"}, id)' = last /\ calls'[last][1] = "register"
  BY <1>1, <1>2
<1>10. f.scale = Hud!LastScale(id)' /\ f.color = Hud!LastColor(id)'
  BY <1>6, <1>14, <1>15
<1>11. f = elems'[id]
  BY DEF f
<1>12. /\ f = [text |-> f.text, color |-> f.color, x |-> f.x, y |-> f.y,
                anchor_x |-> f.anchor_x, anchor_y |-> f.anchor_y,
                align_x |-> f.align_x, align_y |-> f.align_y, scale |-> f.scale]
       /\ f.anchor_x = Hud!Place(Hud!Arg(args, 5, 0)) /\ f.anchor_y = Hud!Place(Hud!Arg(args, 6, 0))
       /\ f.align_x = Hud!Place(Hud!Arg(args, 7, 0)) /\ f.align_y = Hud!Place(Hud!Arg(args, 8, 0))
  BY <1>6
<1>13. Register(id)' = args /\ Hud!LastOf({"register"}, id)' \in DOMAIN calls'
       /\ calls'[Hud!LastOf({"register"}, id)'][1] = "register"
  BY <1>3, <1>9
<1> QED BY <1>7, <1>8, <1>10, <1>11, <1>12, <1>13, ElementNext, Zenon

(* get_relative is a proportion of the screen, whatever the places are. *)
LEMMA RelativeOnScreen ==
    ASSUME NEW screen \in Int, NEW text \in Int, NEW align \in Int, NEW anchor \in Int, NEW pos \in Int
    PROVE  Hud!get_relative(screen, text, Hud!Place(align), Hud!Place(anchor), pos)
             = Hud!OnScreen(screen, text, align, anchor, pos)
<1> DEFINE a == Hud!Place(align)
           place == Hud!Place(anchor)
           delta == CASE a = 1 -> -text [] a = 2 -> -2 * text [] OTHER -> 0
           shift == (IF align \in 0..2 THEN align ELSE 0) * text
<1>1. delta = -shift /\ delta \in Int
  <2>1. CASE align = 1
    <3>1. a = 1
      BY <2>1 DEF Hud!Place
    <3> QED BY <2>1, <3>1
  <2>2. CASE align = 2
    <3>1. a = 2
      BY <2>2 DEF Hud!Place
    <3> QED BY <2>2, <3>1
  <2>3. CASE align \notin {1, 2}
    <3>1. a # 1 /\ a # 2
      BY <2>3 DEF Hud!Place
    <3>2. delta = 0
      BY <3>1
    <3>3. shift = 0
      BY <2>3
    <3> QED BY <3>2, <3>3
  <2> QED BY <2>1, <2>2, <2>3
<1>2. Hud!get_relative(screen, text, a, place, pos) =
        CASE place = 0 -> delta + 2 * pos [] place = 1 -> screen + delta + 2 * pos
          [] place = 2 -> 2 * screen + delta + 2 * pos [] OTHER -> 0
  BY DEF Hud!get_relative
<1>3. Hud!OnScreen(screen, text, align, anchor, pos) =
        IF anchor = 3 \/ anchor < 0 THEN 0
        ELSE (IF anchor \in 0..2 THEN anchor ELSE 0) * screen - shift + 2 * pos
  BY DEF Hud!OnScreen
<1>4. shift \in Int
  <2>1. (IF align \in 0..2 THEN align ELSE 0) \in Int
    OBVIOUS
  <2> QED BY <2>1
<1> SUFFICES Hud!get_relative(screen, text, a, place, pos) = Hud!OnScreen(screen, text, align, anchor, pos)
  OBVIOUS
<1> HIDE DEF delta, shift, a, place
<1>5. CASE anchor = 3 \/ anchor < 0
  <2>1. place \notin 0..2
    BY <1>5 DEF Hud!Place, place
  <2> QED BY <1>2, <1>3, <1>5, <2>1
<1>6. CASE anchor = 0 \/ anchor > 3
  <2>1. place = 0
    BY <1>6 DEF Hud!Place, place
  <2> QED BY <1>1, <1>2, <1>3, <1>4, <1>6, <2>1
<1>7. CASE anchor = 1
  <2>1. place = 1
    BY <1>7 DEF Hud!Place, place
  <2> QED BY <1>1, <1>2, <1>3, <1>4, <1>7, <2>1
<1>8. CASE anchor = 2
  <2>1. place = 2
    BY <1>8 DEF Hud!Place, place
  <2> QED BY <1>1, <1>2, <1>3, <1>4, <1>8, <2>1
<1> QED BY <1>5, <1>6, <1>7, <1>8

LEMMA HudUnchanged == ASSUME HudInv, UNCHANGED <<elems, calls>> PROVE HudInv'
<1>1. elems' = elems /\ calls' = calls
  OBVIOUS
<1>2. \A names, id : Hud!LastOf(names, id)' = Hud!LastOf(names, id)
  BY <1>1 DEF Hud!LastOf
<1>3. Hud!Living' = Hud!Living
  BY <1>1 DEF Hud!Living, Hud!LastOf
<1>4. CallsInv'
  BY <1>1 DEF HudInv, CallsInv, CallsOf
<1>5. ASSUME NEW id \in Hud!Living PROVE ElementInv(id)'
  <2>1. ElementInv(id)
    BY <1>5 DEF HudInv
  <2>2. Hud!LastOf({"register"}, id)' = Hud!LastOf({"register"}, id)
    BY <1>2
  <2>3. Register(id)' = Register(id)
    BY <1>1, <2>2 DEF Register
  <2>4. /\ Hud!Last1(id, "text", 1, "")' = Hud!Last1(id, "text", 1, "")
        /\ Hud!Last1(id, "x", 3, 0)' = Hud!Last1(id, "x", 3, 0)
        /\ Hud!Last1(id, "y", 4, 0)' = Hud!Last1(id, "y", 4, 0)
    BY <1>1, <1>2 DEF Hud!Last1, Hud!Arg
  <2>8. Hud!LastScale(id)' = Hud!LastScale(id) /\ Hud!LastColor(id)' = Hud!LastColor(id)
    <3>1. Hud!Last1(id, "size", 9, 100)' = Hud!Last1(id, "size", 9, 100)
      BY <1>1, <1>2 DEF Hud!Last1, Hud!Arg
    <3>2. /\ Hud!LastColors(id, "rgb")' = Hud!LastColors(id, "rgb")
          /\ Hud!LastColors(id, "alpha")' = Hud!LastColors(id, "alpha")
      BY <1>1, <1>2 DEF Hud!LastColors, Hud!Arg, Hud!White
    <3> QED BY <3>1, <3>2 DEF Hud!LastScale, Hud!LastColor
  <2>5. SameRegistration(id)
    BY <1>1, <2>1, <2>2, <2>3 DEF ElementInv, SameRegistration
  <2>6. elems[id] = [text |-> elems[id].text, color |-> elems[id].color,
                     x |-> elems[id].x, y |-> elems[id].y,
                     anchor_x |-> elems[id].anchor_x, anchor_y |-> elems[id].anchor_y,
                     align_x |-> elems[id].align_x, align_y |-> elems[id].align_y,
                     scale |-> elems[id].scale]
    BY <2>1 DEF ElementInv
  <2>7. ElementMoves(id, elems[id], elems'[id])
    BY <1>1, <2>4, <2>8, <2>6, Zenon DEF ElementMoves
  <2> QED BY <2>1, <2>5, <2>7, ElementSame
<1> QED BY <1>1, <1>3, <1>4, <1>5 DEF HudInv

LEMMA HudInvInit == Hud!Init => HudInv
<1> SUFFICES ASSUME Hud!Init PROVE HudInv
  OBVIOUS
<1>1. elems = [id \in {} |-> 0] /\ calls = <<>>
  BY DEF Hud!Init
<1>2. DOMAIN elems = {} /\ DOMAIN calls = {}
  BY <1>1
<1>3. \A names, id : CallsOf(names, id) = {}
  BY <1>2 DEF CallsOf
<1>4. CallsInv
  BY <1>1, <1>3 DEF CallsInv
<1>5. \A names, id : Hud!LastOf(names, id) = 0
  BY <1>3, <1>4, LastOfFacts
<1>6. Hud!Living = {}
  BY <1>5 DEF Hud!Living
<1>7. elems = [id \in DOMAIN elems |-> elems[id]]
  BY <1>1
<1> QED BY <1>2, <1>4, <1>6, <1>7 DEF HudInv

(* A setter, of whatever field: the other elements are not concerned, and  *)
(* nobody is created or removed.                                           *)
LEMMA SetterStep ==
    ASSUME HudInv, NEW c \in HudCall, calls' = Append(calls, c), NEW name, NEW id \in Ids,
           name \in {"text", "x", "y", "color", "scale"}, c[1] = name, c[2] = id,
           elems' = [i \in DOMAIN elems |-> elems'[i]], DOMAIN elems' = DOMAIN elems,
           \A i \in DOMAIN elems : i # id => elems'[i] = elems[i],
           id \in DOMAIN elems => ElementInv(id)'
    PROVE  HudInv'
<1>1. CallsInv /\ DOMAIN elems = Hud!Living /\ \A i \in Hud!Living : ElementInv(i)
  BY DEF HudInv
<1>2. CallsInv'
  BY <1>1, CallAdded
<1>3. Hud!Living' = Hud!Living
  <2>1. \A i : ~Concerns(c, Lives, i)
    BY ConcernsFacts
  <2>2. Hud!Living' = {i \in Ids : IF Concerns(c, Lives, i) THEN c[1] = "register" ELSE i \in Hud!Living}
    BY <1>1, LivingAfter
  <2>3. Hud!Living \subseteq Ids
    BY DEF Hud!Living
  <2> QED BY <2>1, <2>2, <2>3
<1>4. ASSUME NEW i \in Hud!Living PROVE ElementInv(i)'
  <2>1. CASE i = id
    BY <1>1, <2>1
  <2>2. CASE i # id
    <3>1. elems'[i] = elems[i] /\ ~Concerns(c, {"register"}, i) /\ c[2] # i
      BY <1>1, <2>2, ConcernsFacts
    <3> QED BY <1>1, <3>1, ElementKept
  <2> QED BY <2>1, <2>2
<1>5. elems' = [i \in DOMAIN elems' |-> elems'[i]]
  OBVIOUS
<1> QED BY <1>1, <1>2, <1>3, <1>4, <1>5 DEF HudInv

(* Everything is removed. *)
LEMMA EmptiedStep ==
    ASSUME HudInv, NEW c \in HudCall, calls' = Append(calls, c), c[1] \in {"clear", "frontend"},
           elems' = [i \in {} |-> 0]
    PROVE  HudInv'
<1>1. CallsInv
  BY DEF HudInv
<1>2. CallsInv'
  BY <1>1, CallAdded
<1>3. Hud!Living' = {}
  <2>1. \A i : Concerns(c, Lives, i) /\ c[1] # "register"
    BY ConcernsFacts
  <2>2. Hud!Living' = {i \in Ids : IF Concerns(c, Lives, i) THEN c[1] = "register" ELSE i \in Hud!Living}
    BY <1>1, LivingAfter
  <2> QED BY <2>1, <2>2
<1>4. DOMAIN elems' = {} /\ elems' = [i \in DOMAIN elems' |-> elems'[i]]
  OBVIOUS
<1> QED BY <1>2, <1>3, <1>4 DEF HudInv

(* Nobody lives after a frame in the frontend. *)
LEMMA NobodyLivesAfter ==
    ASSUME CallsInv, calls = <<>> \/ calls[Len(calls)][1] = "frontend"
    PROVE  Hud!Living = {}
<1> SUFFICES ASSUME NEW id \in Ids, Hud!LastOf(Lives, id) # 0, calls[Hud!LastOf(Lives, id)][1] = "register"
             PROVE  FALSE
  BY DEF Hud!Living, Lives
<1>1. Len(calls) \in Nat /\ DOMAIN calls = 1..Len(calls)
  BY DomainOfSeq DEF CallsInv
<1>2. Hud!LastOf(Lives, id) \in DOMAIN calls
  BY LastOfFacts
<1>3. Len(calls) \in DOMAIN calls /\ calls[Len(calls)][1] = "frontend"
  BY <1>1, <1>2
<1>4. Len(calls) \in CallsOf(Lives, id)
  <2>1. "frontend" \in Hud!Asks(calls[Len(calls)])
    BY <1>3 DEF Hud!Asks
  <2> QED BY <1>3, <2>1 DEF CallsOf, Concerns, Lives
<1>5. Len(calls) <= Hud!LastOf(Lives, id)
  BY <1>4, LastOfFacts
<1> QED BY <1>1, <1>2, <1>3, <1>5

LEMMA HudStep ==
    ASSUME HudAssumption, HudInv, [Hud!Next]_(Hud!vars)
    PROVE  HudInv'
<1>1. CallsInv /\ DOMAIN elems = Hud!Living /\ (\A i \in Hud!Living : ElementInv(i))
      /\ elems = [i \in DOMAIN elems |-> elems[i]] /\ Hud!Living \subseteq Ids
  BY DEF HudInv, Hud!Living
<1>2. ASSUME NEW id \in Ids, Hud!Register(id) PROVE HudInv'
  <2>1. PICK args \in RegisterArgs :
          /\ elems' = [i \in DOMAIN elems \cup {id} |-> IF i = id THEN Hud!Registered(args) ELSE elems[i]]
          /\ calls' = Append(calls, <<"register", id, args>>)
    BY <1>2 DEF Hud!Register, Hud!Done
  <2> DEFINE c == <<"register", id, args>>
  <2>2. c \in HudCall /\ c[1] = "register" /\ c[2] = id /\ calls' = Append(calls, c)
    BY <2>1 DEF HudCall
  <2> HIDE DEF c
  <2>3. CallsInv'
    BY <1>1, <2>2, CallAdded
  <2>4. Hud!Living' = Hud!Living \cup {id}
    <3>1. \A i : Concerns(c, Lives, i) <=> i = id
      BY <2>2, ConcernsFacts
    <3>2. Hud!Living' = {i \in Ids : IF Concerns(c, Lives, i) THEN c[1] = "register" ELSE i \in Hud!Living}
      BY <1>1, <2>2, LivingAfter
    <3> QED BY <1>1, <2>2, <3>1, <3>2
  <2>5. DOMAIN elems' = Hud!Living' /\ elems' = [i \in DOMAIN elems' |-> elems'[i]]
    BY <1>1, <2>1, <2>4
  <2>6. ASSUME NEW i \in Hud!Living' PROVE ElementInv(i)'
    <3>1. CASE i = id
      <4>1. elems'[id] = Hud!Registered(args)
        BY <2>1
      <4>2. ElementInv(id)'
        BY <1>1, <2>1, <4>1, ElementRegistered
      <4> QED BY <3>1, <4>2
    <3>2. CASE i # id
      <4>1. i \in Hud!Living /\ elems'[i] = elems[i]
        BY <1>1, <2>1, <2>4, <3>2
      <4>2. ElementInv(i) /\ ~Concerns(c, {"register"}, i) /\ c[2] # i
        BY <1>1, <2>2, <3>2, <4>1, ConcernsFacts
      <4> QED BY <1>1, <2>2, <4>1, <4>2, ElementKept
    <3> QED BY <3>1, <3>2
  <2> QED BY <2>3, <2>5, <2>6 DEF HudInv
<1>3. ASSUME NEW id \in Ids, Hud!Remove(id) PROVE HudInv'
  <2>1. /\ elems' = [i \in DOMAIN elems \ {id} |-> elems[i]]
        /\ calls' = Append(calls, <<"remove", id, <<>>>>)
    BY <1>3 DEF Hud!Remove, Hud!Done
  <2> DEFINE c == <<"remove", id, <<>>>>
  <2>2. c \in HudCall /\ c[1] = "remove" /\ c[2] = id /\ calls' = Append(calls, c)
    BY <2>1 DEF HudCall
  <2> HIDE DEF c
  <2>3. CallsInv'
    BY <1>1, <2>2, CallAdded
  <2>4. Hud!Living' = Hud!Living \ {id}
    <3>1. \A i : Concerns(c, Lives, i) <=> i = id
      BY <2>2, ConcernsFacts
    <3>2. Hud!Living' = {i \in Ids : IF Concerns(c, Lives, i) THEN c[1] = "register" ELSE i \in Hud!Living}
      BY <1>1, <2>2, LivingAfter
    <3> QED BY <1>1, <2>2, <3>1, <3>2
  <2>5. DOMAIN elems' = Hud!Living' /\ elems' = [i \in DOMAIN elems' |-> elems'[i]]
    BY <1>1, <2>1, <2>4
  <2>6. ASSUME NEW i \in Hud!Living' PROVE ElementInv(i)'
    <3>1. i \in Hud!Living /\ i # id /\ elems'[i] = elems[i]
      BY <1>1, <2>1, <2>4, <2>6
    <3>2. ElementInv(i) /\ ~Concerns(c, {"register"}, i) /\ c[2] # i
      BY <1>1, <2>2, <3>1, ConcernsFacts
    <3> QED BY <1>1, <2>2, <3>1, <3>2, ElementKept
  <2> QED BY <2>3, <2>5, <2>6 DEF HudInv
<1>4. ASSUME Hud!Clear PROVE HudInv'
  <2>1. PICK id \in Ids : calls' = Append(calls, <<"clear", id, <<>>>>)
    BY <1>4 DEF Hud!Clear, Hud!Done
  <2>2. <<"clear", id, <<>>>> \in HudCall /\ elems' = [i \in {} |-> 0]
    BY <1>4 DEF Hud!Clear, HudCall
  <2> QED BY <2>1, <2>2, EmptiedStep
<1>5. ASSUME NEW id \in Ids, Hud!Set(id) PROVE HudInv'
  <2>1. PICK field \in {"text", "x", "y"} :
          \E value \in (IF field = "text" THEN HudTexts ELSE Positions) :
            /\ elems' = IF id \in DOMAIN elems THEN [elems EXCEPT ![id][field] = value] ELSE elems
            /\ calls' = Append(calls, <<field, id, <<value>>>>)
    BY <1>5 DEF Hud!Set, Hud!Done
  <2>2. PICK value \in (IF field = "text" THEN HudTexts ELSE Positions) :
            /\ elems' = IF id \in DOMAIN elems THEN [elems EXCEPT ![id][field] = value] ELSE elems
            /\ calls' = Append(calls, <<field, id, <<value>>>>)
    BY <2>1
  <2> DEFINE c == <<field, id, <<value>>>>
  <2>3. /\ c \in HudCall /\ c[1] = field /\ c[2] = id /\ c[3] = <<value>> /\ calls' = Append(calls, c)
        /\ field # "text" => value \in Int
    BY <2>2 DEF HudCall, HudAssumption
  <2> HIDE DEF c
  <2>4. /\ elems' = [i \in DOMAIN elems |-> elems'[i]] /\ DOMAIN elems' = DOMAIN elems
        /\ \A i \in DOMAIN elems : i # id => elems'[i] = elems[i]
    BY <1>1, <2>2
  <2>5. ASSUME id \in DOMAIN elems PROVE ElementInv(id)'
    <3>1. elems'[id] = [elems[id] EXCEPT ![field] = value]
      BY <2>2, <2>5
    <3>2. \/ field = "text" /\ elems'[id] = [elems[id] EXCEPT !.text = value]
          \/ field = "x" /\ elems'[id] = [elems[id] EXCEPT !.x = value]
          \/ field = "y" /\ elems'[id] = [elems[id] EXCEPT !.y = value]
      BY <3>1
    <3>3. ElementInv(id)
      BY <1>1, <2>5
    <3>4. \/ c[1] = "text" /\ elems'[id] = [elems[id] EXCEPT !.text = value]
          \/ c[1] = "x" /\ value \in Int /\ elems'[id] = [elems[id] EXCEPT !.x = value]
          \/ c[1] = "y" /\ value \in Int /\ elems'[id] = [elems[id] EXCEPT !.y = value]
      BY <2>3, <3>2
    <3>5. c[3][1] = value
      BY <2>3
    <3> QED BY <1>1, <2>3, <3>3, <3>4, <3>5, ElementChanged
  <2> QED BY <2>3, <2>4, <2>5, SetterStep
<1>6. ASSUME NEW id \in Ids, Hud!SetColor(id) PROVE HudInv'
  <2>1. PICK color \in Colors :
          /\ elems' = IF id \in DOMAIN elems
                        THEN [elems EXCEPT ![id].color = Hud!Colored(@, color)] ELSE elems
          /\ calls' = Append(calls, <<"color", id, color>>)
    BY <1>6 DEF Hud!SetColor, Hud!Done
  <2> DEFINE c == <<"color", id, color>>
  <2>2. c \in HudCall /\ c[1] = "color" /\ c[2] = id /\ c[3] = color /\ calls' = Append(calls, c)
    BY <2>1 DEF HudCall
  <2> HIDE DEF c
  <2>3. /\ elems' = [i \in DOMAIN elems |-> elems'[i]] /\ DOMAIN elems' = DOMAIN elems
        /\ \A i \in DOMAIN elems : i # id => elems'[i] = elems[i]
    BY <1>1, <2>1
  <2>4. ASSUME id \in DOMAIN elems PROVE ElementInv(id)'
    <3> DEFINE new == Hud!Colored(elems[id].color, c[3])
    <3>1. elems'[id] = [elems[id] EXCEPT !.color = new]
      BY <2>1, <2>2, <2>4
    <3>2. ElementInv(id) /\ new = Hud!Colored(elems[id].color, c[3])
      BY <1>1, <2>4
    <3> HIDE DEF new
    <3> QED BY <1>1, <2>2, <3>1, <3>2, ElementChanged
  <2> QED BY <2>2, <2>3, <2>4, SetterStep
<1>7. ASSUME NEW id \in Ids, Hud!SetScale(id) PROVE HudInv'
  <2>1. PICK value \in Scales :
          /\ elems' = IF id \in DOMAIN elems
                        THEN [elems EXCEPT ![id].scale = Hud!Scaled(@, value)] ELSE elems
          /\ calls' = Append(calls, <<"scale", id, <<value>>>>)
    BY <1>7 DEF Hud!SetScale, Hud!Done
  <2> DEFINE c == <<"scale", id, <<value>>>>
  <2>2. /\ c \in HudCall /\ c[1] = "scale" /\ c[2] = id /\ c[3] = <<value>> /\ calls' = Append(calls, c)
        /\ value \in Int
    BY <2>1 DEF HudCall, HudAssumption
  <2> HIDE DEF c
  <2>3. /\ elems' = [i \in DOMAIN elems |-> elems'[i]] /\ DOMAIN elems' = DOMAIN elems
        /\ \A i \in DOMAIN elems : i # id => elems'[i] = elems[i]
    BY <1>1, <2>1
  <2>4. ASSUME id \in DOMAIN elems PROVE ElementInv(id)'
    <3>1. ElementInv(id)
      BY <1>1, <2>4
    <3> DEFINE new == Hud!Scaled(elems[id].scale, value)
    <3>2. new \in Int
      BY <2>2, <3>1 DEF ElementInv, Hud!Scaled
    <3>3. elems'[id] = [elems[id] EXCEPT !.scale = new] /\ new = Hud!Scaled(elems[id].scale, c[3][1])
      BY <2>1, <2>2, <2>4
    <3> HIDE DEF new
    <3> QED BY <1>1, <2>2, <3>1, <3>2, <3>3, ElementChanged
  <2> QED BY <2>2, <2>3, <2>4, SetterStep
<1>8. ASSUME Hud!Frame PROVE HudInv'
  <2> DEFINE c == <<"frontend", CHOOSE id \in Ids : TRUE, <<>>>>
  <2>1. CASE hudLevel = "ui" /\ ~(calls = <<>> \/ calls[Len(calls)][1] = "frontend")
    <3>1. c \in HudCall /\ c[1] = "frontend" /\ calls' = Append(calls, c) /\ elems' = [i \in {} |-> 0]
      BY <1>8, <2>1 DEF Hud!Frame, HudCall
    <3> HIDE DEF c
    <3> QED BY <3>1, EmptiedStep
  <2>2. CASE hudLevel = "ui" /\ (calls = <<>> \/ calls[Len(calls)][1] = "frontend")
    <3>1. elems' = [i \in {} |-> 0] /\ calls' = calls
      BY <1>8, <2>2 DEF Hud!Frame
    <3>2. Hud!Living = {}
      BY <1>1, <2>2, NobodyLivesAfter
    <3>3. elems' = elems
      BY <1>1, <3>1, <3>2
    <3> QED BY <3>1, <3>3, HudUnchanged
  <2>3. CASE hudLevel # "ui"
    BY <1>8, <2>3, HudUnchanged DEF Hud!Frame
  <2> QED BY <2>1, <2>2, <2>3
<1>9. ASSUME Hud!ChangeLevel PROVE HudInv'
  BY <1>9, HudUnchanged DEF Hud!ChangeLevel
<1>10. ASSUME UNCHANGED Hud!vars PROVE HudInv'
  BY <1>10, HudUnchanged DEF Hud!vars
<1> QED BY <1>2, <1>3, <1>4, <1>5, <1>6, <1>7, <1>8, <1>9, <1>10 DEF Hud!Next

LEMMA HudInvariance == ASSUME HudAssumption PROVE Hud!Spec => []HudInv
<1>1. Hud!Init => HudInv
  BY HudInvInit
<1>2. HudInv /\ [Hud!Next]_(Hud!vars) => HudInv'
  BY HudStep
<1> QED BY <1>1, <1>2, PTL DEF Hud!Spec

(* DrawnAsAsked: whatever texts, places, scales and colours the scripts of *)
(* a match ask for, and however often, a frame draws each element with the *)
(* text, the colour, the scale and at the place that the last calls for it *)
(* have asked for, and nothing of a removed element, or of an element that *)
(* had the same id before (gsc_funcs.cpp: the calls and draw_hud).         *)
THEOREM ElementsAsAsked == ASSUME HudAssumption PROVE Hud!Spec => []DrawnAsAsked
<1>1. ASSUME HudInv PROVE Hud!DrawnAsAsked
  <2>1. DOMAIN elems = Hud!Living
    BY <1>1 DEF HudInv
  <2>2. ASSUME NEW id \in Hud!Living PROVE Hud!Drawing(elems[id]) = Hud!Asked(id)
    <3> DEFINE e == elems[id]
               width == TextWidth(e.text, e.scale)
               height == TextHeight(e.scale)
    <3>1. /\ Register(id) \in RegisterArgs
          /\ e.text = Hud!Last1(id, "text", 1, "")
          /\ e.x = Hud!Last1(id, "x", 3, 0) /\ e.x \in Int
          /\ e.y = Hud!Last1(id, "y", 4, 0) /\ e.y \in Int
          /\ e.anchor_x = Hud!Place(Hud!Arg(Register(id), 5, 0))
          /\ e.anchor_y = Hud!Place(Hud!Arg(Register(id), 6, 0))
          /\ e.align_x = Hud!Place(Hud!Arg(Register(id), 7, 0))
          /\ e.align_y = Hud!Place(Hud!Arg(Register(id), 8, 0))
          /\ e.color = Hud!LastColor(id)
          /\ e.scale = Hud!LastScale(id) /\ e.scale \in Int
      <4>1. ElementInv(id)
        BY <1>1, <2>2 DEF HudInv
      <4> QED BY <4>1 DEF ElementInv
    <3> HIDE DEF e
    <3>2. \A n \in 3..9 :
            Len(Register(id)) \in Nat /\ (Len(Register(id)) >= n => Register(id)[n] \in Int)
      BY <3>1 DEF HudAssumption
    <3>3. /\ Hud!Arg(Register(id), 5, 0) \in Int /\ Hud!Arg(Register(id), 6, 0) \in Int
          /\ Hud!Arg(Register(id), 7, 0) \in Int /\ Hud!Arg(Register(id), 8, 0) \in Int
      <4>1. /\ Len(Register(id)) >= 5 => Register(id)[5] \in Int
            /\ Len(Register(id)) >= 6 => Register(id)[6] \in Int
            /\ Len(Register(id)) >= 7 => Register(id)[7] \in Int
            /\ Len(Register(id)) >= 8 => Register(id)[8] \in Int
        BY <3>2
      <4> QED BY <4>1 DEF Hud!Arg
    <3>4. Screen[1] \in Int /\ Screen[2] \in Int /\ width \in Int /\ height \in Int
      BY <3>1 DEF HudAssumption
    <3>10. e.x \in Int /\ e.y \in Int
      BY <3>1, Zenon
    <3> HIDE DEF width, height
    <3>5. Hud!get_relative(Screen[1], width, e.align_x, e.anchor_x, e.x)
            = Hud!OnScreen(Screen[1], width, Hud!Arg(Register(id), 7, 0),
                           Hud!Arg(Register(id), 5, 0), e.x)
      <4>1. ASSUME NEW align \in Int, NEW anchor \in Int
            PROVE  Hud!get_relative(Screen[1], width, Hud!Place(align), Hud!Place(anchor), e.x)
                     = Hud!OnScreen(Screen[1], width, align, anchor, e.x)
        BY <3>4, <3>10, RelativeOnScreen
      <4>2. /\ e.align_x = Hud!Place(Hud!Arg(Register(id), 7, 0))
            /\ e.anchor_x = Hud!Place(Hud!Arg(Register(id), 5, 0))
        BY <3>1
      <4> QED BY <3>3, <4>1, <4>2
    <3>6. Hud!get_relative(Screen[2], height, e.align_y, e.anchor_y, e.y)
            = Hud!OnScreen(Screen[2], height, Hud!Arg(Register(id), 8, 0),
                           Hud!Arg(Register(id), 6, 0), e.y)
      <4>1. ASSUME NEW align \in Int, NEW anchor \in Int
            PROVE  Hud!get_relative(Screen[2], height, Hud!Place(align), Hud!Place(anchor), e.y)
                     = Hud!OnScreen(Screen[2], height, align, anchor, e.y)
        BY <3>4, <3>10, RelativeOnScreen
      <4>2. /\ e.align_y = Hud!Place(Hud!Arg(Register(id), 8, 0))
            /\ e.anchor_y = Hud!Place(Hud!Arg(Register(id), 6, 0))
        BY <3>1
      <4> QED BY <3>3, <4>1, <4>2
    <3>7. Hud!Drawing(e) =
            [text |-> e.text, color |-> e.color, scale |-> e.scale,
             x |-> Hud!get_relative(Screen[1], width, e.align_x, e.anchor_x, e.x),
             y |-> Hud!get_relative(Screen[2], height, e.align_y, e.anchor_y, e.y) + 2 * height]
      BY Zenon DEF Hud!Drawing, width, height
    <3>8. Hud!Asked(id) =
            [text |-> e.text, color |-> e.color, scale |-> e.scale,
             x |-> Hud!OnScreen(Screen[1], width, Hud!Arg(Register(id), 7, 0),
                                Hud!Arg(Register(id), 5, 0), e.x),
             y |-> Hud!OnScreen(Screen[2], height, Hud!Arg(Register(id), 8, 0),
                                Hud!Arg(Register(id), 6, 0), e.y) + 2 * height]
      BY <3>1, Zenon DEF Hud!Asked, Register, width, height
    <3>9. Hud!Drawing(e) = Hud!Asked(id)
      BY <3>5, <3>6, <3>7, <3>8, Zenon
    <3> QED BY <3>9 DEF e
  <2> QED BY <2>1, <2>2, Zenon DEF Hud!DrawnAsAsked
<1>2. HudInv => DrawnAsAsked
  BY <1>1 DEF DrawnAsAsked
<1> QED BY <1>2, HudInvariance, PTL

------------------------------------------------------------------------------
(***************************************************************************)
(* Blackbox: what becomes of threads that crash together.                  *)
(*                                                                         *)
(* The argument: of two crashed threads the one that has listed the others *)
(* last has the other in its list, as nobody leaves it but by being asked  *)
(* to stop.  As long as nobody who was asked suspends another, the last    *)
(* that did so was not asked itself.                                       *)
(***************************************************************************)

States == {"none", "running", "dumping", "reset", "suspending", "dialog"}
Files == [thread : Threads, whole : BOOLEAN]

CrashTypeOK ==
    /\ at \in [Threads -> States]
    /\ suspended \subseteq asked /\ asked \subseteq Threads
    /\ DOMAIN data = Threads
    /\ others \in [Threads -> SUBSET Threads]
    /\ time \in 0..MaxTime
    /\ DOMAIN dumps = 0..MaxTime /\ DOMAIN second = Threads

(* A thread that has listed the others, and one that has written its dump *)
Listed(t) == at[t] \in {"suspending", "dialog"}
Dumped(t) == at[t] \in {"reset", "suspending", "dialog"}

SuspendInv ==
    /\ at[MainThread] # "none"
    /\ \A t \in Threads : t \notin others[t] /\ (at[t] = "dialog" => others[t] = {})
    /\ asked # {} /\ ~crossed => \E t \in Threads : Listed(t) /\ t \notin asked
    /\ \A t, u \in Threads : t # u /\ Listed(t) /\ Listed(u)
                               => t \in asked \cup others[u] \/ u \in asked \cup others[t]

(* A file is of the last thread that dumped in its second. *)
FileOf(s) == dumps[s] \in Files /\ Dumped(dumps[s].thread) /\ second[dumps[s].thread] = s

ReportInv ==
    /\ \A t \in Threads : data[t] # None <=> at[t] \notin {"none", "running"}
    /\ \A t \in Threads : Dumped(t) => second[t] \in 0..time /\ FileOf(second[t])
    /\ exit_code # None => \E t \in Threads : at[t] = "dialog" /\ data[t] = exit_code

CrashInv == CrashTypeOK /\ SuspendInv /\ ReportInv

LEMMA CrashInvInit == Crash!BlackboxInit => CrashInv
<1> SUFFICES ASSUME Crash!BlackboxInit PROVE CrashInv
  OBVIOUS
<1> USE DEF Crash!BlackboxInit
<1>1. MaxTime \in Nat /\ MainThread \in Threads
  BY WindowsAssumption
<1>2. CrashTypeOK
  BY <1>1 DEF CrashTypeOK, States
<1>3. SuspendInv
  BY <1>1 DEF SuspendInv, Listed
<1>4. ReportInv
  BY <1>1 DEF ReportInv, Dumped
<1> QED BY <1>2, <1>3, <1>4 DEF CrashInv

(* A step that changes neither the files nor the threads that have dumped   *)
(* leaves every file what it is.                                            *)
LEMMA FilesStay ==
    ASSUME ReportInv, UNCHANGED <<dumps, time, second>>, NEW t \in Threads, at \in [Threads -> States],
           at' \in [Threads -> States], Dumped(t)',
           \A u \in Threads : Dumped(u)' <=> Dumped(u)
    PROVE  second'[t] \in 0..time' /\ FileOf(second[t])'
<1>1. second[t] \in 0..time /\ FileOf(second[t])
  BY DEF ReportInv
<1>2. dumps[second[t]].thread \in Threads
  BY <1>1 DEF FileOf, Files
<1> QED BY <1>1, <1>2 DEF FileOf

LEMMA SpawnStep == ASSUME CrashInv, NEW t \in Threads, Crash!Spawn(t) PROVE CrashInv'
<1> USE DEF CrashInv, Crash!Spawn, Crash!stops, Crash!files
<1>1. CrashTypeOK'
  BY DEF CrashTypeOK, States
<1>2. SuspendInv'
  BY DEF CrashTypeOK, SuspendInv, Listed
<1>3. ReportInv'
  <2>1. \A u \in Threads : Dumped(u)' <=> Dumped(u)
    BY DEF CrashTypeOK, Dumped
  <2>2. \A u \in Threads : Dumped(u)' => second'[u] \in 0..time' /\ FileOf(second[u])'
    BY <1>1, <2>1, FilesStay DEF CrashTypeOK
  <2> QED BY <2>2 DEF CrashTypeOK, ReportInv
<1> QED BY <1>1, <1>2, <1>3

LEMMA CrashStep == ASSUME CrashInv, NEW t \in Threads, Crash!Crash(t) PROVE CrashInv'
<1> USE DEF CrashInv, Crash!Crash, Crash!stops, Crash!files
<1>1. PICK code \in Codes[t] \ Harmless : data' = [data EXCEPT ![t] = code]
  OBVIOUS
<1>2. code # None /\ exit_code = None
  BY WindowsAssumption DEF Crash!Runs
<1>3. CrashTypeOK'
  BY <1>1, <1>2 DEF CrashTypeOK, States
<1>4. SuspendInv'
  BY DEF CrashTypeOK, SuspendInv, Listed
<1>5. ReportInv'
  <2>1. \A u \in Threads : Dumped(u)' <=> Dumped(u)
    BY DEF CrashTypeOK, Dumped
  <2>2. \A u \in Threads : Dumped(u)' => second'[u] \in 0..time' /\ FileOf(second[u])'
    BY <1>3, <2>1, FilesStay DEF CrashTypeOK
  <2> QED BY <1>1, <1>2, <2>2 DEF CrashTypeOK, ReportInv
<1> QED BY <1>3, <1>4, <1>5

(* The file of its second is now of this thread, and no other file changes. *)
LEMMA WriteMinidumpStep == ASSUME CrashInv, NEW t \in Threads, Crash!WriteMinidump(t) PROVE CrashInv'
<1> USE DEF CrashInv
<1>1. PICK now \in time .. MaxTime, written \in BOOLEAN :
         /\ time' = now /\ second' = [second EXCEPT ![t] = now]
         /\ dumps' = [dumps EXCEPT ![now] = [thread |-> t, whole |-> written]]
  BY DEF Crash!WriteMinidump
<1>2. /\ at[t] = "dumping" /\ at' = [at EXCEPT ![t] = "reset"] /\ exit_code = None
      /\ UNCHANGED <<asked, suspended, others, crossed, data, exit_code>>
  BY DEF Crash!WriteMinidump, Crash!stops, Crash!Runs
<1>3. now \in 0..MaxTime /\ 0..time \subseteq 0..now /\ MaxTime \in Nat
  BY WindowsAssumption DEF CrashTypeOK
<1>4. CrashTypeOK'
  BY <1>1, <1>2, <1>3 DEF CrashTypeOK, States
<1>5. SuspendInv'
  BY <1>2 DEF CrashTypeOK, SuspendInv, Listed
<1>6. ReportInv'
  <2>1. \A u \in Threads : Dumped(u)' <=> Dumped(u) \/ u = t
    BY <1>2 DEF CrashTypeOK, Dumped
  <2>2. FileOf(now)'
    <3>1. dumps'[now] = [thread |-> t, whole |-> written] /\ second'[t] = now
      BY <1>1, <1>3 DEF CrashTypeOK
    <3>2. dumps'[now] \in Files /\ dumps'[now].thread = t
      BY <3>1 DEF Files
    <3> QED BY <2>1, <3>1, <3>2 DEF FileOf
  <2>3. ASSUME NEW u \in Threads, Dumped(u)'
        PROVE  second'[u] \in 0..time' /\ FileOf(second[u])'
    <3>1. CASE second'[u] = now
      BY <1>1, <1>3, <2>2, <3>1 DEF CrashTypeOK
    <3>2. CASE second'[u] # now
      <4>1. u # t /\ second'[u] = second[u]
        BY <1>1, <3>2 DEF CrashTypeOK
      <4>2. second[u] \in 0..time /\ FileOf(second[u])
        BY <2>1, <2>3, <4>1 DEF ReportInv
      <4>3. dumps'[second[u]] = dumps[second[u]]
        BY <1>1, <3>2, <4>1 DEF CrashTypeOK
      <4>4. dumps[second[u]].thread \in Threads /\ dumps[second[u]].thread # t
        BY <1>2, <4>2 DEF FileOf, Files, Dumped
      <4>5. FileOf(second[u])'
        BY <1>1, <2>1, <4>1, <4>2, <4>3, <4>4 DEF FileOf, CrashTypeOK
      <4> QED BY <1>1, <1>3, <4>1, <4>2, <4>5
    <3> QED BY <3>1, <3>2
  <2> QED BY <1>2, <2>3 DEF CrashTypeOK, ReportInv
<1> QED BY <1>4, <1>5, <1>6

(* Nothing recovers; the thread lists all others that there are. *)
LEMMA ResetStateStep == ASSUME CrashInv, NEW t \in Threads, Crash!ResetState(t) PROVE CrashInv'
<1> USE DEF CrashInv
<1>1. /\ at[t] = "reset" /\ exit_code = None
      /\ at' = [at EXCEPT ![t] = "suspending"]
      /\ others' = [others EXCEPT ![t] = {u \in Threads : at[u] # "none"} \ {t}]
      /\ UNCHANGED <<asked, suspended, crossed, data, dumps, time, second, exit_code>>
  BY DEF Crash!ResetState, Crash!is_recoverable, Crash!is_initialized, Crash!Runs, Crash!files
<1>2. CrashTypeOK'
  BY <1>1 DEF CrashTypeOK, States
<1>3. SuspendInv'
  <2>1. at'[MainThread] # "none"
    BY <1>1 DEF CrashTypeOK, SuspendInv
  <2>2. \A u \in Threads : u \notin others'[u] /\ (at'[u] = "dialog" => others'[u] = {})
    BY <1>1 DEF CrashTypeOK, SuspendInv
  <2>3. asked' # {} /\ ~crossed' => \E u \in Threads : Listed(u)' /\ u \notin asked'
    BY <1>1 DEF CrashTypeOK, SuspendInv, Listed
  <2>4. ASSUME NEW u \in Threads, NEW v \in Threads, u # v, Listed(u)', Listed(v)'
        PROVE  u \in asked' \cup others'[v] \/ v \in asked' \cup others'[u]
    <3>1. CASE u = t
      BY <1>1, <2>4, <3>1 DEF CrashTypeOK, Listed
    <3>2. CASE v = t
      BY <1>1, <2>4, <3>2 DEF CrashTypeOK, Listed
    <3>3. CASE u # t /\ v # t
      BY <1>1, <2>4, <3>3 DEF CrashTypeOK, SuspendInv, Listed
    <3> QED BY <3>1, <3>2, <3>3
  <2> QED BY <2>1, <2>2, <2>3, <2>4 DEF SuspendInv
<1>4. ReportInv'
  <2>1. \A u \in Threads : Dumped(u)' <=> Dumped(u)
    BY <1>1 DEF CrashTypeOK, Dumped
  <2>2. \A u \in Threads : Dumped(u)' => second'[u] \in 0..time' /\ FileOf(second[u])'
    BY <1>1, <1>2, <2>1, FilesStay DEF CrashTypeOK
  <2> QED BY <1>1, <2>2 DEF CrashTypeOK, ReportInv
<1> QED BY <1>2, <1>3, <1>4

LEMMA SuspendStep == ASSUME CrashInv, NEW t \in Threads, Crash!Suspend(t) PROVE CrashInv'
<1> USE DEF CrashInv
<1>1. PICK u \in others[t] : /\ asked' = asked \cup {u}
                             /\ others' = [others EXCEPT ![t] = @ \ {u}]
  BY DEF Crash!Suspend
<1>2. /\ at[t] = "suspending" /\ crossed' = (crossed \/ t \in asked)
      /\ UNCHANGED <<at, suspended, data, dumps, time, second, exit_code>>
  BY DEF Crash!Suspend, Crash!files
<1>3. u \in Threads /\ u # t
  BY DEF CrashTypeOK, SuspendInv
<1>4. CrashTypeOK'
  BY <1>1, <1>2, <1>3 DEF CrashTypeOK
<1>5. SuspendInv'
  <2>1. \A v \in Threads : v \notin others'[v] /\ (at'[v] = "dialog" => others'[v] = {})
    BY <1>1, <1>2 DEF CrashTypeOK, SuspendInv
  <2>2. ~crossed' => \E v \in Threads : Listed(v)' /\ v \notin asked'
    BY <1>1, <1>2, <1>3 DEF Listed
  <2>3. \A v \in Threads : asked \cup others[v] \subseteq asked' \cup others'[v]
    BY <1>1 DEF CrashTypeOK
  <2>4. at'[MainThread] # "none" /\ \A v : Listed(v)' <=> Listed(v)
    BY <1>2 DEF SuspendInv, Listed
  <2>5. ASSUME NEW v \in Threads, NEW w \in Threads, v # w, Listed(v)', Listed(w)'
        PROVE  v \in asked' \cup others'[w] \/ w \in asked' \cup others'[v]
    <3>1. v \in asked \cup others[w] \/ w \in asked \cup others[v]
      BY <2>4, <2>5 DEF SuspendInv
    <3> QED BY <2>3, <3>1
  <2> QED BY <2>1, <2>2, <2>4, <2>5 DEF SuspendInv
<1>6. ReportInv'
  BY <1>2 DEF ReportInv, FileOf, Dumped
<1> QED BY <1>4, <1>5, <1>6

LEMMA StopStep == ASSUME CrashInv, NEW t \in Threads, Crash!Stop(t) PROVE CrashInv'
<1> USE DEF CrashInv
<1>1. /\ t \in asked /\ suspended' = suspended \cup {t}
      /\ UNCHANGED <<at, asked, others, crossed, data, dumps, time, second, exit_code>>
  BY DEF Crash!Stop, Crash!files
<1>2. CrashTypeOK'
  BY <1>1 DEF CrashTypeOK
<1>3. SuspendInv'
  BY <1>1 DEF SuspendInv, Listed
<1>4. ReportInv'
  BY <1>1 DEF ReportInv, FileOf, Dumped
<1> QED BY <1>2, <1>3, <1>4

LEMMA DisplayStep == ASSUME CrashInv, NEW t \in Threads, Crash!Display(t) PROVE CrashInv'
<1> USE DEF CrashInv, Crash!Display, Crash!stops, Crash!files
<1>1. CrashTypeOK'
  BY DEF CrashTypeOK, States
<1>2. SuspendInv'
  BY DEF CrashTypeOK, SuspendInv, Listed
<1>3. ReportInv'
  <2>1. \A u \in Threads : Dumped(u)' <=> Dumped(u)
    BY DEF CrashTypeOK, Dumped
  <2>2. \A u \in Threads : Dumped(u)' => second'[u] \in 0..time' /\ FileOf(second[u])'
    BY <1>1, <2>1, FilesStay DEF CrashTypeOK
  <2> QED BY <2>2 DEF CrashTypeOK, ReportInv, Crash!Runs
<1> QED BY <1>1, <1>2, <1>3

LEMMA CrashInvStep == CrashInv /\ [Crash!BlackboxNext]_(Crash!blackboxVars) => CrashInv'
<1> SUFFICES ASSUME CrashInv, [Crash!BlackboxNext]_(Crash!blackboxVars) PROVE CrashInv'
  OBVIOUS
<1>1. ASSUME NEW t \in Threads, Crash!Terminate(t) PROVE CrashInv'
  <2>1. /\ at[t] = "dialog" /\ exit_code' = data[t]
        /\ UNCHANGED <<at, asked, suspended, crossed, data, others, dumps, time, second>>
    BY <1>1 DEF Crash!Terminate, Crash!stops, Crash!files
  <2>2. CrashTypeOK' /\ SuspendInv'
    BY <2>1 DEF CrashInv, CrashTypeOK, SuspendInv, Listed
  <2>3. ReportInv'
    BY <2>1 DEF CrashInv, ReportInv, FileOf, Dumped
  <2> QED BY <2>2, <2>3 DEF CrashInv
<1>2. CASE UNCHANGED Crash!blackboxVars
  BY <1>2 DEF Crash!blackboxVars, CrashInv, CrashTypeOK, SuspendInv, ReportInv, Listed, FileOf, Dumped
<1> QED BY <1>1, <1>2, SpawnStep, CrashStep, WriteMinidumpStep, ResetStateStep, SuspendStep,
           StopStep, DisplayStep DEF Crash!BlackboxNext

LEMMA AtMostOne ==
    ASSUME NEW S, \A a, b \in S : a = b
    PROVE  Crash!Cardinality(S) <= 1
<1>1. \A T : Crash!Cardinality(T) = Cardinality(T)
  BY DEF Crash!Cardinality, Cardinality
<1>2. CASE S = {}
  BY <1>1, <1>2, FS_EmptySet
<1>3. CASE S # {}
  <2>1. PICK a \in S : TRUE
    BY <1>3
  <2>2. S = {a}
    BY <2>1
  <2>3. Cardinality({a}) = 1
    BY FS_Singleton
  <2> QED BY <1>1, <2>2, <2>3
<1> QED BY <1>2, <1>3

(* CrashIsReported: however many threads there are and crash, and however    *)
(* they ask each other to stop meanwhile, all are frozen only if one that was *)
(* asked asked another, or if a frozen one holds the heap; otherwise one of   *)
(* the crashed is asked by nobody.  Of those that show an error at most one   *)
(* is.  The process ends with the code of one that showed it, and the file of *)
(* its second is of a thread that crashed in that second.                     *)
THEOREM CrashesAreReported == Crash!BlackboxSpec => []CrashIsReported
<1>1. ASSUME CrashInv PROVE Crash!SomebodyReports
  <2> USE <1>1 DEF CrashInv
  <2>1. ASSUME ~crossed, lock \notin suspended
        PROVE  \E t \in Threads : at[t] # "none" /\ ~Crash!Frozen(t)
    <3>1. MainThread \in Threads
      BY WindowsAssumption
    <3>2. \E t \in Threads : at[t] # "none" /\ t \notin suspended
      BY <2>1, <3>1 DEF CrashTypeOK, SuspendInv, Listed
    <3> QED BY <2>1, <3>2 DEF Crash!Frozen
  <2>2. asked # {} /\ ~crossed => \E t \in Crash!Crashed : t \notin asked
    BY DEF SuspendInv, Listed, Crash!Crashed
  <2> DEFINE shown == {t \in Threads : at[t] = "dialog" /\ t \notin asked}
  <2>3. \A t, u \in shown : t = u
    BY DEF SuspendInv, Listed
  <2> HIDE DEF shown
  <2>4. Crash!Cardinality(shown) <= 1
    BY <2>3, AtMostOne
  <2> QED BY <2>1, <2>2, <2>4, Zenon DEF Crash!SomebodyReports, shown
<1>2. ASSUME CrashInv PROVE Crash!EndIsExplained
  <2>1. ASSUME exit_code # None
        PROVE  \E t \in Threads :
                 /\ at[t] = "dialog" /\ data[t] = exit_code
                 /\ dumps[second[t]] # None
                 /\ second[dumps[second[t]].thread] = second[t]
                 /\ data[dumps[second[t]].thread] # None
    <3>1. PICK t \in Threads : at[t] = "dialog" /\ data[t] = exit_code
      BY <1>2, <2>1 DEF CrashInv, ReportInv
    <3>2. FileOf(second[t])
      BY <1>2, <3>1 DEF CrashInv, ReportInv, Dumped
    <3>3. dumps[second[t]] # None /\ dumps[second[t]].thread \in Threads
      BY <3>2, WindowsAssumption DEF FileOf, Files
    <3>4. data[dumps[second[t]].thread] # None
      BY <1>2, <3>2, <3>3 DEF CrashInv, ReportInv, FileOf, Dumped
    <3> QED BY <3>1, <3>2, <3>3, <3>4 DEF FileOf
  <2>2. \A t \in Threads : data[t] # None => at[t] # "running"
    BY <1>2 DEF CrashInv, ReportInv
  <2> QED BY <2>1, <2>2, Zenon DEF Crash!EndIsExplained
<1>3. CrashInv => CrashIsReported
  BY <1>1, <1>2 DEF CrashIsReported
<1> QED BY <1>3, CrashInvInit, CrashInvStep, PTL DEF Crash!BlackboxSpec

------------------------------------------------------------------------------
(***************************************************************************)
(* Commands: whose handler runs and whose arguments it reads.              *)
(*                                                                         *)
(* The argument: the arguments under way in a world and the params that    *)
(* are alive there are the same, level by level, and the innermost params  *)
(* are of the highest level.  So what is dropped at their end is theirs.   *)
(***************************************************************************)

Added == [world : Cmd!Worlds, name : Spellings]
Handlers == [Cmd!Worlds -> [Cmd!CommandNames -> Functions \cup {None}]]
Place == [world : Cmd!Worlds, nesting : Nat, of : CommandTexts]

(* A name is in the table of a world if it has a handler there, once, and  *)
(* its handler is the latest.                                              *)
TableInv ==
    /\ command_map \in Handlers /\ latest = command_map
    /\ added \in Seq(Added)
    /\ \A n \in 1..Len(added) : command_map[added[n].world][Lower[added[n].name]] # None
    /\ \A m, n \in 1..Len(added) :
         added[m].world = added[n].world /\ Lower[added[m].name] = Lower[added[n].name] => m = n

NestingInv ==
    /\ stack \in [Cmd!Worlds -> Seq(CommandTexts)]
    /\ params \in Seq(Place)
    /\ \A n \in 1..Len(params) :
         /\ params[n].nesting \in 1..Len(stack[params[n].world])
         /\ stack[params[n].world][params[n].nesting] = params[n].of
    /\ \A m, n \in 1..Len(params) :
         m < n /\ params[m].world = params[n].world => params[m].nesting < params[n].nesting
    /\ \A w \in Cmd!Worlds : \A k \in 1..Len(stack[w]) :
         \E n \in 1..Len(params) : params[n].world = w /\ params[n].nesting = k

SeenInv ==
    /\ ran # None /\ ran.kind = "called" => ran.function = ran.is /\ ran.function # None
    /\ Cmd!ArgumentsAreOwn

LEMMA CommandInvInit == Cmd!CommandInit => TableInv /\ NestingInv /\ SeenInv
<1> SUFFICES ASSUME Cmd!CommandInit PROVE TableInv /\ NestingInv /\ SeenInv
  OBVIOUS
<1> USE DEF Cmd!CommandInit
<1>1. added \in Seq(Added) /\ Len(added) = 0 /\ params \in Seq(Place) /\ Len(params) = 0
  OBVIOUS
<1>2. \A w \in Cmd!Worlds : stack[w] \in Seq(CommandTexts) /\ Len(stack[w]) = 0
  OBVIOUS
<1>3. TableInv
  BY <1>1 DEF TableInv, Handlers
<1>4. NestingInv
  BY <1>1, <1>2 DEF NestingInv
<1>5. SeenInv
  BY DEF SeenInv, Cmd!ArgumentsAreOwn
<1> QED BY <1>3, <1>4, <1>5

LEMMA AddTable == ASSUME TableInv, NEW world \in Cmd!Worlds, Cmd!Add(world) PROVE TableInv'
<1>1. PICK command \in Spellings, function \in Functions :
        /\ command_map' = [command_map EXCEPT ![world] =
                             [command_map[world] EXCEPT ![Lower[command]] = function]]
        /\ added' = IF command_map[world][Lower[command]] # None THEN added
                    ELSE Append(added, [world |-> world, name |-> command])
        /\ latest' = [latest EXCEPT ![world][Lower[command]] = function]
  BY DEF Cmd!Add, Cmd!Registered
<1> DEFINE name == Lower[command]
           new == [world |-> world, name |-> command]
<1>2. name \in Cmd!CommandNames /\ new \in Added /\ function # None
  BY CommandsAssumption DEF Cmd!CommandNames, Added
<1>3. /\ command_map' \in Handlers /\ latest' = command_map'
      /\ command_map'[world][name] = function
      /\ \A w \in Cmd!Worlds, n \in Cmd!CommandNames :
           w # world \/ n # name => command_map'[w][n] = command_map[w][n]
  BY <1>1, <1>2 DEF TableInv, Handlers
<1>4. \A n \in 1..Len(added) :
        /\ added[n] \in Added /\ added[n].world \in Cmd!Worlds /\ Lower[added[n].name] \in Cmd!CommandNames
        /\ command_map'[added[n].world][Lower[added[n].name]] # None
  <2>1. \A n \in 1..Len(added) :
          added[n] \in Added /\ added[n].world \in Cmd!Worlds /\ Lower[added[n].name] \in Cmd!CommandNames
    <3>1. \A n \in 1..Len(added) : added[n] \in Added
      BY DEF TableInv
    <3> QED BY <3>1 DEF Added, Cmd!CommandNames
  <2> QED BY <1>2, <1>3, <2>1 DEF TableInv
<1>5. CASE command_map[world][name] # None
  <2>1. added' = added
    BY <1>1, <1>5
  <2> QED BY <1>3, <1>4, <2>1 DEF TableInv
<1>6. CASE command_map[world][name] = None
  <2>1. added' = Append(added, new)
    BY <1>1, <1>6
  <2> HIDE DEF new
  <2>2. /\ added' \in Seq(Added) /\ Len(added) \in Nat /\ Len(added') = Len(added) + 1
        /\ \A n \in 1..Len(added) : added'[n] = added[n]
        /\ added'[Len(added) + 1] = new
    BY <1>2, <2>1, AppendFacts, DomainOfSeq DEF TableInv
  <2>3. new.world = world /\ Lower[new.name] = name
    BY DEF new
  <2>4. \A n \in 1..Len(added) : added[n].world = world => Lower[added[n].name] # name
    BY <1>6 DEF TableInv
  <2> HIDE DEF name
  <2>5. \A n \in 1..Len(added') : n \in 1..Len(added) \/ n = Len(added) + 1
    BY <2>2
  <2>6. \A n \in 1..Len(added') : command_map'[added'[n].world][Lower[added'[n].name]] # None
    BY <1>2, <1>3, <1>4, <2>2, <2>3, <2>5
  <2>7. ASSUME NEW m \in 1..Len(added'), NEW n \in 1..Len(added'),
               added'[m].world = added'[n].world, Lower[added'[m].name] = Lower[added'[n].name]
        PROVE  m = n
    <3>1. CASE m \in 1..Len(added) /\ n \in 1..Len(added)
      BY <2>2, <2>7, <3>1 DEF TableInv
    <3>2. CASE m = Len(added) + 1 /\ n \in 1..Len(added)
      BY <2>2, <2>3, <2>4, <2>7, <3>2
    <3>3. CASE n = Len(added) + 1 /\ m \in 1..Len(added)
      BY <2>2, <2>3, <2>4, <2>7, <3>3
    <3> QED BY <2>5, <3>1, <3>2, <3>3
  <2> QED BY <1>3, <2>2, <2>6, <2>7 DEF TableInv
<1> QED BY <1>5, <1>6

(* New params are of the next level of their world. *)
LEMMA NestingDeeper ==
    ASSUME NestingInv, NEW world \in Cmd!Worlds, NEW text \in CommandTexts,
           stack' = [stack EXCEPT ![world] = Append(@, text)],
           params' = Append(params, Cmd!Params(world, text))
    PROVE  NestingInv'
<1> DEFINE p == Cmd!Params(world, text)
           last == Len(params) + 1
           top == Len(stack[world]) + 1
<1>1. /\ stack' \in [Cmd!Worlds -> Seq(CommandTexts)] /\ Len(stack[world]) \in Nat
      /\ Len(stack'[world]) = top /\ stack'[world][top] = text
      /\ \A k \in 1..Len(stack[world]) : stack'[world][k] = stack[world][k]
      /\ \A w \in Cmd!Worlds : w # world => stack'[w] = stack[w]
  <2>1. stack[world] \in Seq(CommandTexts) /\ stack'[world] = Append(stack[world], text)
        /\ \A w \in Cmd!Worlds : w # world => stack'[w] = stack[w]
    BY DEF NestingInv
  <2>2. /\ stack'[world] \in Seq(CommandTexts) /\ Len(stack[world]) \in Nat
        /\ Len(stack'[world]) = top /\ stack'[world][top] = text
        /\ \A k \in 1..Len(stack[world]) : stack'[world][k] = stack[world][k]
    BY <2>1, AppendFacts, DomainOfSeq
  <2> QED BY <2>1, <2>2 DEF NestingInv
<1>2. p \in Place /\ p.world = world /\ p.nesting = top /\ p.of = text
  BY <1>1 DEF Cmd!Params, Place
<1> HIDE DEF p
<1>3. /\ params' \in Seq(Place) /\ Len(params) \in Nat /\ Len(params') = last
      /\ \A n \in 1..Len(params) : params'[n] = params[n]
      /\ params'[last] = p
  BY <1>2, AppendFacts, DomainOfSeq DEF NestingInv, p
<1>4. \A n \in 1..Len(params') : n \in 1..Len(params) \/ n = last
  BY <1>3
<1>5. ASSUME NEW n \in 1..Len(params)
      PROVE  /\ params[n].world \in Cmd!Worlds
             /\ params[n].nesting \in 1..Len(stack[params[n].world])
             /\ params[n].nesting \in 1..Len(stack'[params[n].world])
             /\ stack'[params[n].world][params[n].nesting] = params[n].of
  <2>1. params[n] \in Place
    BY <1>3, DomainOfSeq DEF NestingInv
  <2>2. params[n].world \in Cmd!Worlds /\ params[n].nesting \in 1..Len(stack[params[n].world])
        /\ stack[params[n].world][params[n].nesting] = params[n].of
    BY <2>1 DEF NestingInv, Place
  <2>3. CASE params[n].world = world
    BY <1>1, <2>2, <2>3
  <2>4. CASE params[n].world # world
    BY <1>1, <2>2, <2>4
  <2> QED BY <2>2, <2>3, <2>4
<1>6. \A n \in 1..Len(params') :
        /\ params'[n].nesting \in 1..Len(stack'[params'[n].world])
        /\ stack'[params'[n].world][params'[n].nesting] = params'[n].of
  BY <1>1, <1>2, <1>3, <1>4, <1>5
<1>7. ASSUME NEW m \in 1..Len(params'), NEW n \in 1..Len(params'), m < n, params'[m].world = params'[n].world
      PROVE  params'[m].nesting < params'[n].nesting
  <2>1. m \in 1..Len(params)
    BY <1>3, <1>7
  <2>2. CASE n \in 1..Len(params)
    BY <1>3, <1>7, <2>1, <2>2 DEF NestingInv
  <2>3. CASE n = last
    BY <1>1, <1>2, <1>3, <1>5, <1>7, <2>1, <2>3
  <2> QED BY <1>4, <2>2, <2>3
<1>8. ASSUME NEW w \in Cmd!Worlds, NEW k \in 1..Len(stack'[w])
      PROVE  \E n \in 1..Len(params') : params'[n].world = w /\ params'[n].nesting = k
  <2>1. CASE w = world /\ k = top
    BY <1>2, <1>3, <2>1
  <2>2. CASE ~(w = world /\ k = top)
    <3>1. k \in 1..Len(stack[w])
      BY <1>1, <1>8, <2>2
    <3>2. PICK n \in 1..Len(params) : params[n].world = w /\ params[n].nesting = k
      BY <3>1 DEF NestingInv
    <3> QED BY <1>3, <3>2
  <2> QED BY <2>1, <2>2
<1> QED BY <1>1, <1>3, <1>6, <1>7, <1>8 DEF NestingInv

(* The innermost params are of the highest level of their world. *)
LEMMA NestingEnds ==
    ASSUME NestingInv, Cmd!End
    PROVE  NestingInv'
<1> DEFINE last == Len(params)
           w == params[last].world
<1>1. Len(params) \in Nat /\ last \in 1..Len(params) /\ params[last] \in Place
  <2>1. params \in Seq(Place) /\ params # <<>>
    BY DEF NestingInv, Cmd!End
  <2>2. Len(params) \in Nat /\ Len(params) >= 1 /\ DOMAIN params = 1..Len(params)
    BY <2>1, TailFacts
  <2> QED BY <2>1, <2>2
<1>2. /\ params' = SubSeq(params, 1, Len(params) - 1)
      /\ stack' = [stack EXCEPT ![w] = SubSeq(stack[w], 1, Len(stack[w]) - 1)]
  BY DEF Cmd!End, Cmd!Front, Cmd!Last
<1>3. w \in Cmd!Worlds /\ Len(stack[w]) \in Nat
      /\ params[last].nesting \in 1..Len(stack[w])
  BY <1>1, DomainOfSeq DEF NestingInv, Place
<1>4. params[last].nesting = Len(stack[w])
  <2> HIDE DEF w, last
  <2>1. PICK n \in 1..Len(params) : params[n].world = w /\ params[n].nesting = Len(stack[w])
    <3>1. Len(stack[w]) \in 1..Len(stack[w])
      BY <1>3
    <3> QED BY <1>3, <3>1 DEF NestingInv
  <2>2. CASE n = last
    BY <2>1, <2>2
  <2>3. CASE n # last
    <3>1. n < last
      BY <1>1, <2>3 DEF last
    <3>2. params[n].nesting < params[last].nesting
      BY <1>1, <2>1, <3>1 DEF NestingInv, w
    <3> QED BY <1>3, <2>1, <3>2
  <2> QED BY <2>2, <2>3
<1> HIDE DEF w, last
<1>5. /\ params' \in Seq(Place) /\ Len(params') = Len(params) - 1
      /\ \A n \in 1..Len(params') : n \in 1..Len(params) /\ n < last /\ params'[n] = params[n]
      /\ \A n \in 1..Len(params) : n # last => n \in 1..Len(params')
  <2>1. params \in Seq(Place) /\ Len(params) - 1 \in 0..Len(params) /\ last = Len(params)
    BY <1>1 DEF NestingInv, last
  <2>2. /\ SubSeq(params, 1, Len(params) - 1) \in Seq(Place)
        /\ Len(SubSeq(params, 1, Len(params) - 1)) = Len(params) - 1
        /\ \A n \in 1..Len(params) - 1 : SubSeq(params, 1, Len(params) - 1)[n] = params[n]
    BY <2>1, SplitProperties
  <2> QED BY <1>1, <1>2, <2>1, <2>2
<1>6. /\ stack' \in [Cmd!Worlds -> Seq(CommandTexts)]
      /\ Len(stack'[w]) = Len(stack[w]) - 1
      /\ \A k \in 1..Len(stack'[w]) : k \in 1..Len(stack[w]) /\ k # Len(stack[w]) /\ stack'[w][k] = stack[w][k]
      /\ \A k \in 1..Len(stack[w]) : k # Len(stack[w]) => k \in 1..Len(stack'[w])
      /\ \A v \in Cmd!Worlds : v # w => stack'[v] = stack[v]
  <2> DEFINE q == stack[w]
  <2>1. stack[w] \in Seq(CommandTexts) /\ Len(stack[w]) - 1 \in 0..Len(stack[w])
    BY <1>3 DEF NestingInv
  <2>2. /\ SubSeq(q, 1, Len(q) - 1) \in Seq(CommandTexts)
        /\ Len(SubSeq(q, 1, Len(q) - 1)) = Len(q) - 1
        /\ \A n \in 1..Len(q) - 1 : SubSeq(q, 1, Len(q) - 1)[n] = q[n]
    BY <2>1, SplitProperties
  <2>3. /\ stack'[w] = SubSeq(q, 1, Len(q) - 1)
        /\ \A v \in Cmd!Worlds : v # w => stack'[v] = stack[v]
        /\ stack' = [v \in Cmd!Worlds |-> stack'[v]]
    BY <1>2, <1>3 DEF NestingInv
  <2>4. \A v \in Cmd!Worlds : stack'[v] \in Seq(CommandTexts)
    BY <2>2, <2>3 DEF NestingInv
  <2>5. Len(q) \in Nat
    BY <1>3
  <2>6. stack' \in [Cmd!Worlds -> Seq(CommandTexts)]
    BY <2>3, <2>4
  <2> HIDE DEF q
  <2>7. /\ \A k \in 1..Len(q) - 1 : k \in 1..Len(q) /\ k # Len(q)
        /\ \A k \in 1..Len(q) : k # Len(q) => k \in 1..Len(q) - 1
    BY <2>5
  <2>8. /\ Len(stack'[w]) = Len(q) - 1
        /\ \A k \in 1..Len(stack'[w]) : k \in 1..Len(q) /\ k # Len(q) /\ stack'[w][k] = q[k]
        /\ \A k \in 1..Len(q) : k # Len(q) => k \in 1..Len(stack'[w])
    BY <2>2, <2>3, <2>7
  <2> QED BY <2>3, <2>6, <2>8 DEF q
<1>7. ASSUME NEW n \in 1..Len(params')
      PROVE  /\ params'[n].nesting \in 1..Len(stack'[params'[n].world])
             /\ stack'[params'[n].world][params'[n].nesting] = params'[n].of
  <2>1. n \in 1..Len(params) /\ n < last /\ params'[n] = params[n]
    BY <1>5
  <2>2. params[n].world \in Cmd!Worlds
    <3>1. params[n] \in Place
      BY <2>1 DEF NestingInv
    <3> QED BY <3>1 DEF Place
  <2>3. /\ params[n].nesting \in 1..Len(stack[params[n].world])
        /\ stack[params[n].world][params[n].nesting] = params[n].of
    BY <2>1 DEF NestingInv
  <2>4. CASE params[n].world = w
    <3>1. params[n].nesting < params[last].nesting
      BY <1>1, <2>1, <2>4 DEF NestingInv, w
    <3>2. params[n].nesting # Len(stack[w]) /\ params[n].nesting \in 1..Len(stack[w])
      BY <1>3, <1>4, <2>3, <2>4, <3>1
    <3> QED BY <1>6, <2>1, <2>3, <2>4, <3>2
  <2>5. CASE params[n].world # w
    BY <1>6, <2>1, <2>2, <2>3, <2>5
  <2> QED BY <2>4, <2>5
<1>8. \A m, n \in 1..Len(params') :
        m < n /\ params'[m].world = params'[n].world => params'[m].nesting < params'[n].nesting
  BY <1>5 DEF NestingInv
<1>9. ASSUME NEW v \in Cmd!Worlds, NEW k \in 1..Len(stack'[v])
      PROVE  \E n \in 1..Len(params') : params'[n].world = v /\ params'[n].nesting = k
  <2>1. k \in 1..Len(stack[v]) /\ (v = w => k # Len(stack[w]))
    BY <1>6
  <2>2. PICK n \in 1..Len(params) : params[n].world = v /\ params[n].nesting = k
    BY <2>1 DEF NestingInv
  <2>3. n # last
    BY <1>4, <2>1, <2>2 DEF w
  <2> QED BY <1>5, <2>2, <2>3
<1> QED BY <1>5, <1>6, <1>7, <1>8, <1>9 DEF NestingInv

LEMMA CommandInvStep ==
    TableInv /\ NestingInv /\ SeenInv /\ [Cmd!CommandNext]_(Cmd!commandVars)
      => (TableInv /\ NestingInv /\ SeenInv)'
<1> SUFFICES ASSUME TableInv, NestingInv, SeenInv, [Cmd!CommandNext]_(Cmd!commandVars)
             PROVE  TableInv' /\ NestingInv' /\ SeenInv'
  OBVIOUS
<1>1. UNCHANGED <<command_map, added, latest>> => TableInv'
  BY DEF TableInv
<1>2. UNCHANGED <<stack, params>> => NestingInv'
  BY DEF NestingInv
<1>3. UNCHANGED ran => SeenInv'
  BY DEF SeenInv, Cmd!ArgumentsAreOwn
<1>4. ASSUME NEW world \in Cmd!Worlds, Cmd!Add(world) PROVE TableInv' /\ NestingInv' /\ SeenInv'
  BY <1>2, <1>3, <1>4, AddTable DEF Cmd!Add
<1>5. ASSUME NEW world \in Cmd!Worlds, Cmd!Execute(world) PROVE TableInv' /\ NestingInv' /\ SeenInv'
  <2>1. PICK text \in CommandTexts :
          /\ \E n \in DOMAIN added : added[n].world = world /\ Lower[added[n].name] = Lower[text[1]]
          /\ stack' = [stack EXCEPT ![world] = Append(@, text)]
          /\ params' = Append(params, Cmd!Params(world, text))
          /\ ran' = [kind |-> "called", function |-> command_map[world][Lower[text[1]]],
                      is |-> latest[world][Lower[text[1]]]]
    BY <1>5 DEF Cmd!Execute
  <2>2. DOMAIN added = 1..Len(added)
    BY DomainOfSeq DEF TableInv
  <2>3. command_map[world][Lower[text[1]]] # None /\ latest = command_map
    BY <2>1, <2>2 DEF TableInv
  <2>4. SeenInv'
    BY <2>1, <2>3 DEF SeenInv, Cmd!ArgumentsAreOwn
  <2>5. NestingInv'
    BY <2>1, NestingDeeper
  <2> QED BY <1>1, <1>5, <2>4, <2>5 DEF Cmd!Execute
<1>6. ASSUME NEW world \in Cmd!Worlds, Cmd!Tokenize(world) PROVE TableInv' /\ NestingInv' /\ SeenInv'
  <2>1. PICK text \in CommandTexts :
          /\ stack' = [stack EXCEPT ![world] = Append(@, text)]
          /\ params' = Append(params, Cmd!Params(world, text))
    BY <1>6 DEF Cmd!Tokenize
  <2>2. NestingInv'
    BY <2>1, NestingDeeper
  <2> QED BY <1>1, <1>3, <1>6, <2>2 DEF Cmd!Tokenize
<1>7. ASSUME Cmd!ReadArguments PROVE TableInv' /\ NestingInv' /\ SeenInv'
  <2>1. PICK n \in DOMAIN params : \E index \in 1 .. MaxNesting :
          LET own == Cmd!ArgumentsOf(params[n])
          IN ran' = [kind |-> "read", of |-> params[n].of, index |-> index,
                      get |-> IF index > Len(own) THEN <<>> ELSE <<own[index]>>,
                      join |-> SubSeq(own, index, Len(own))]
    BY <1>7, Zenon DEF Cmd!ReadArguments
  <2>2. DOMAIN params = 1..Len(params) /\ params[n] \in Place
    BY DomainOfSeq DEF NestingInv
  <2>3. Cmd!ArgumentsOf(params[n]) = params[n].of /\ params[n].of \in CommandTexts
    BY <2>2 DEF NestingInv, Cmd!ArgumentsOf, Place
  <2> DEFINE text == params[n].of
  <2>4. PICK index \in 1 .. MaxNesting :
          ran' = [kind |-> "read", of |-> text, index |-> index,
                   get |-> IF index > Len(text) THEN <<>> ELSE <<text[index]>>,
                   join |-> SubSeq(text, index, Len(text))]
    BY <2>1, <2>3
  <2>5. Len(text) \in Nat /\ DOMAIN text = 1..Len(text) /\ index \in Nat /\ index >= 1
    BY <2>3, CommandsAssumption
  <2> HIDE DEF text
  <2>6. index > Len(text) <=> index \notin DOMAIN text
    BY <2>5
  <2>7. SeenInv'
    BY <2>4, <2>6 DEF SeenInv, Cmd!ArgumentsAreOwn
  <2> QED BY <1>1, <1>2, <1>7, <2>7 DEF Cmd!ReadArguments
<1>8. ASSUME Cmd!End PROVE TableInv' /\ NestingInv' /\ SeenInv'
  BY <1>1, <1>3, <1>8, NestingEnds DEF Cmd!End
<1>9. CASE UNCHANGED Cmd!commandVars
  BY <1>1, <1>2, <1>3, <1>9 DEF Cmd!commandVars
<1> QED BY <1>4, <1>5, <1>6, <1>7, <1>8, <1>9 DEF Cmd!CommandNext

(* CommandsAreOwn: whatever commands and texts a handler runs and splits,    *)
(* and however deep, the handler of a command is the one added last under    *)
(* its name, and params read the words they were made of.                    *)
THEOREM CommandsStayOwn == Cmd!CommandSpec => []CommandsAreOwn
<1>1. ASSUME TableInv, SeenInv PROVE CommandsAreOwn
  <2>1. DOMAIN added = 1..Len(added)
    BY <1>1, DomainOfSeq DEF TableInv
  <2> QED BY <1>1, <2>1 DEF TableInv, SeenInv, CommandsAreOwn, Cmd!LastHandlerRuns
<1> QED BY <1>1, CommandInvInit, CommandInvStep, PTL DEF Cmd!CommandSpec

------------------------------------------------------------------------------
(* Variables: the pointers that were fetched are of variables that the game *)
(* still has, under the names of the table.                                 *)

PointerInv ==
    /\ DOMAIN pointer = DOMAIN dvars_table
    /\ \A n \in DOMAIN pointer :
         pointer[n] # None => pointer[n] = Lower[dvars_table[n]] /\ pointer[n] \in registered

LEMMA PointerInvInit == Cmd!DvarInit => PointerInv
  BY DEF Cmd!DvarInit, PointerInv

LEMMA PointerInvStep == PointerInv /\ [Cmd!DvarNext]_(Cmd!dvarVars) => PointerInv'
<1> SUFFICES ASSUME PointerInv, [Cmd!DvarNext]_(Cmd!dvarVars) PROVE PointerInv'
  OBVIOUS
<1>1. CASE Cmd!Register
  BY <1>1 DEF Cmd!Register, PointerInv
<1>2. CASE Cmd!Fetch
  BY <1>2 DEF Cmd!Fetch, Cmd!GameFinds, PointerInv
<1>3. CASE UNCHANGED Cmd!dvarVars
  BY <1>3 DEF Cmd!dvarVars, PointerInv
<1> QED BY <1>1, <1>2, <1>3 DEF Cmd!DvarNext

(* An entry of the table is found by its name in any spelling. *)
LEMMA EntryFacts ==
    ASSUME NEW name, Cmd!Entry(name) # 0
    PROVE  /\ Cmd!Entry(name) \in DOMAIN dvars_table
           /\ Lower[dvars_table[Cmd!Entry(name)]] = Lower[name]
<1> DEFINE S == {n \in DOMAIN dvars_table :
                   dvars_table[n] = name \/ Lower[dvars_table[n]] = Lower[name]}
<1>1. Cmd!Entry(name) = IF S # {} THEN Cmd!Min(S) ELSE 0
  BY DEF Cmd!Entry
<1>2. S # {} /\ S \subseteq Nat
  BY <1>1, CommandsAssumption
<1>3. Cmd!Min(S) \in S
  <2>1. \E x \in S : \A y \in S : x <= y
    BY <1>2, SmallestOfSet
  <2> QED BY <2>1 DEF Cmd!Min
<1> QED BY <1>1, <1>2, <1>3

LEMMA ClientFindsAsTheGame == PointerInv => Cmd!FindsAsTheGame
<1> SUFFICES ASSUME PointerInv, NEW name \in DvarSpellings
             PROVE  Cmd!find_dvar(name) = Cmd!GameFinds(name)
  BY DEF Cmd!FindsAsTheGame
<1> DEFINE e == Cmd!Entry(name)
<1>1. CASE e # 0 /\ pointer[e] # None
  <2>1. e \in DOMAIN dvars_table /\ Lower[dvars_table[e]] = Lower[name]
    BY <1>1, EntryFacts
  <2> HIDE DEF e
  <2>2. pointer[e] = Lower[name] /\ Lower[name] \in registered
    BY <1>1, <2>1 DEF PointerInv
  <2> QED BY <1>1, <2>2 DEF Cmd!find_dvar, Cmd!GameFinds, e
<1>2. CASE ~(e # 0 /\ pointer[e] # None)
  BY <1>2 DEF Cmd!find_dvar
<1> QED BY <1>1, <1>2

(* The words that a domain is told with, by the bounds that are there. *)
LEMMA TellsOne ==
    ASSUME NEW word, NEW a
    PROVE  Cmd!ToSet(Tail(<<word, a>>)) = {a}
<1>1. Tail(<<word, a>>) = <<a>> /\ DOMAIN <<a>> = {1}
  OBVIOUS
<1> QED BY <1>1 DEF Cmd!ToSet

LEMMA TellsTwo ==
    ASSUME NEW word, NEW a, NEW b
    PROVE  <<word, a, b>>[1] = word /\ Cmd!ToSet(Tail(<<word, a, b>>)) = {a, b}
<1>1. Tail(<<word, a, b>>) = <<a, b>> /\ DOMAIN <<a, b>> = {1, 2}
  OBVIOUS
<1> QED BY <1>1 DEF Cmd!ToSet

(* A text that is told of a domain is right about its bounds. *)
TextIsRight(d) ==
    LET text == Cmd!get_domain_string(d)
        told == Cmd!ToSet(Tail(text))
        real == {b \in {d.min, d.max} : b \notin {Cmd!Least(d.type), Cmd!Greatest(d.type)}}
    IN /\ real \subseteq told
       /\ text[1] = "or smaller" => d.min = Cmd!Least(d.type)
       /\ text[1] = "or bigger" => d.max = Cmd!Greatest(d.type)
       /\ text[1] = "any" => {d.min, d.max} = {Cmd!Least(d.type), Cmd!Greatest(d.type)}

LEMMA DomainsTellTheirBounds == Cmd!DomainsAreTold
<1> SUFFICES ASSUME NEW d \in Domains PROVE TextIsRight(d)
  BY DEF Cmd!DomainsAreTold, TextIsRight
<1> DEFINE least == Cmd!Least(d.type)
           greatest == Cmd!Greatest(d.type)
           text == Cmd!get_domain_string(d)
<1>1. /\ <<"any">>[1] = "any"
      /\ \A a : <<"or smaller", a>>[1] = "or smaller" /\ <<"or bigger", a>>[1] = "or bigger"
  OBVIOUS
<1>2. d.type = "uint64" => least = 0
  BY CommandsAssumption DEF Cmd!Least
<1>3. CASE d.min = least /\ d.max = greatest
  <2>1. text = <<"any">>
    BY <1>2, <1>3 DEF Cmd!get_domain_string, Cmd!DomainOfSigned, Cmd!DomainOfUnsigned
  <2> HIDE DEF text, least, greatest
  <2>2. text[1] = "any"
    BY <1>1, <2>1
  <2> QED BY <1>3, <2>2 DEF TextIsRight, text, least, greatest
<1>4. CASE d.min = least /\ d.max # greatest
  <2>1. text = <<"or smaller", d.max>>
    BY <1>2, <1>4 DEF Cmd!get_domain_string, Cmd!DomainOfSigned, Cmd!DomainOfUnsigned
  <2> HIDE DEF text, least, greatest
  <2>2. text[1] = "or smaller" /\ Cmd!ToSet(Tail(text)) = {d.max}
    BY <1>1, <2>1, TellsOne
  <2> QED BY <1>4, <2>2 DEF TextIsRight, text, least, greatest
<1>5. CASE d.min # least /\ d.max = greatest
  <2>1. text = <<"or bigger", d.min>>
    BY <1>2, <1>5 DEF Cmd!get_domain_string, Cmd!DomainOfSigned, Cmd!DomainOfUnsigned
  <2> HIDE DEF text, least, greatest
  <2>2. text[1] = "or bigger" /\ Cmd!ToSet(Tail(text)) = {d.min}
    BY <1>1, <2>1, TellsOne
  <2> QED BY <1>5, <2>2 DEF TextIsRight, text, least, greatest
<1>6. CASE d.min # least /\ d.max # greatest
  <2>1. text = <<"from to", d.min, d.max>>
    BY <1>2, <1>6 DEF Cmd!get_domain_string, Cmd!DomainOfSigned, Cmd!DomainOfUnsigned
  <2> HIDE DEF text, least, greatest
  <2>2. text[1] = "from to" /\ Cmd!ToSet(Tail(text)) = {d.min, d.max}
    <3>1. /\ <<"from to", d.min, d.max>>[1] = "from to"
          /\ Cmd!ToSet(Tail(<<"from to", d.min, d.max>>)) = {d.min, d.max}
      BY TellsTwo
    <3> QED BY <2>1, <3>1, Zenon
  <2>3. text[1] # "or smaller" /\ text[1] # "or bigger" /\ text[1] # "any"
    BY <2>2
  <2>4. {b \in {d.min, d.max} : b \notin {least, greatest}} \subseteq Cmd!ToSet(Tail(text))
    BY <2>2
  <2> QED BY <2>3, <2>4, Zenon DEF TextIsRight, text, least, greatest
<1> QED BY <1>3, <1>4, <1>5, <1>6

(* VariablesAreTrue: whether the game registers a variable before or after   *)
(* the pointers are fetched, find_dvar finds what the game finds, under any  *)
(* spelling of the name; and the text of a domain tells its bounds.          *)
THEOREM VariablesAreFound == Cmd!DvarSpec => []VariablesAreTrue
<1>1. PointerInv => VariablesAreTrue
  BY ClientFindsAsTheGame, DomainsTellTheirBounds DEF VariablesAreTrue
<1> QED BY <1>1, PointerInvInit, PointerInvStep, PTL DEF Cmd!DvarSpec
==============================================================================
