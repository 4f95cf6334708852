------------------------------ MODULE MCWindows -------------------------------
(* What the player sees and types, each part on its own: the line of input  *)
(* and the output of the console inside the game, the texts of scripts, the *)
(* console window, the splash window, the message about a crash, and the    *)
(* commands and variables of the consoles share nothing that is modelled.   *)
(* A behaviour explores one of them: the output and the two windows in      *)
(* Windows.cfg, the others in GameConsoleInput.cfg.                         *)
(*   - GameConsoleInput: a letter and the slash are typed, one name is      *)
(*     known, a line has two characters and the history one entry;          *)
(*   - ScriptHud: two elements, three calls, places left of the screen too; *)
(*   - Blackbox: three threads of which two may crash, in two seconds;      *)
(*   - GameConsoleOutput: a ring of three lines, windows of one and two;    *)
(*   - ConsoleWindow: a prompt of four cells in a row of seven, so that a   *)
(*     line of three fills the row, a history of two;                       *)
(*   - Splash: the window thread and the two hooks of the loader;           *)
(*   - Commands: two spellings of a command, two levels of commands and     *)
(*     texts; three spellings of variables, two of them in the table.       *)
EXTENDS GameConsoleInput

MCKeys == {"a", "/"}
MCNames == {<<"a">>}

CONSTANTS MaxOutput, VisibleCounts

VARIABLES size, offset, visible, open, outputVisible, clearing, raced

Output == INSTANCE GameConsoleOutput

outputVars == <<size, offset, visible, open, outputVisible, clearing, raced>>

MCVisible == {1, 2}

CONSTANTS PromptKeys, PromptLength, Width, BufferSize, PromptHistory

VARIABLES promptBuffer, promptCursor, promptHistory, promptIndex, row, column, wrapped,
          thread, kill, event, destroying

Prompt == INSTANCE ConsoleWindow
    WITH Keys <- PromptKeys, MaxHistory <- PromptHistory,
         buffer <- promptBuffer, cursor <- promptCursor, history <- promptHistory,
         historyIndex <- promptIndex

promptVars == <<promptBuffer, promptCursor, promptHistory, promptIndex, row, column,
                wrapped, thread, kill, event, destroying>>

MCPromptKeys == {"a"}

VARIABLES window, exists, onScreen, owner, object, call, loose, overlap, clash

SplashWindow == INSTANCE Splash

splashVars == <<window, exists, onScreen, owner, object, call, loose, overlap, clash>>

CONSTANTS Ids, RegisterArgs, HudTexts, Positions, Scales, Colors, Screen, TextWidth(_, _),
          TextHeight(_), MaxCalls

VARIABLES elems, hudLevel, drawn, calls

Hud == INSTANCE ScriptHud WITH level <- hudLevel, Texts <- HudTexts

hudVars == <<elems, hudLevel, drawn, calls>>

MCRegisterArgs ==
    {<<>>, <<"hi", <<1, 2, 3, 0>>, 5, 6, 1, 2, 2, 1, 50>>, <<"yo", <<1, 2, 3, 4>>, 5, 6, 4, 3, 3, 4, 0>>,
     <<"no", <<1, 2, 3, 4>>, 5, 6, -1, 2, 1, -1>>}
MCColors == {[form |-> form, values |-> <<9, 8, 7, 0>>] : form \in {"packed", "vector", "mixed"}}
MCScreen == <<100, 60>>
MCTextWidth(text, scale) == scale \div 10
MCTextHeight(scale) == scale \div 5

CONSTANTS Threads, MainThread, Codes, Harmless, MaxTime

VARIABLES at, asked, suspended, lock, data, others, dumps, time, recovery_counts, exit_code,
          second, crossed

Crash == INSTANCE Blackbox

crashVars == <<at, asked, suspended, lock, data, others, dumps, time, recovery_counts, exit_code,
               second, crossed>>

\* The last of the threads never crashes.
MCCodes == <<{"av", "ii", "so"}, {"av", "ii"}, {}>>

CONSTANTS Spellings, Lower, Functions, CommandTexts, MaxNesting, MaxAdded, DvarSpellings, dvars_table,
          NumberTypes, Domains

VARIABLES command_map, added, latest, stack, params, ran, registered, fetched, pointer

Cmd == INSTANCE Commands WITH Texts <- CommandTexts, args <- stack, open <- params, seen <- ran

commandVars == <<command_map, added, latest, stack, params, ran>>
dvarVars == <<registered, fetched, pointer>>

MCLower == [Say |-> "say", say |-> "say", Name |-> "name", name |-> "name", map |-> "map"]
MCTexts == {<<"Say", "a", "b">>, <<"say">>}
MCTable == <<"Name", "map">>
MCNumberTypes == [int |-> <<-2, 2>>, uint64 |-> <<0, 4>>]
MCDomains ==
    {d \in [type : {"int"}, min : {-2, 0, 2}, max : {-2, 0, 2}]
              \cup [type : {"uint64"}, min : {0, 1, 4}, max : {0, 1, 4}] : d.min <= d.max}

(* Commands and texts are sequences of words, and the least unsigned number *)
(* is 0.                                                                    *)
ASSUME CommandsAssumption ==
    /\ None \notin Functions /\ MaxNesting \in Nat
    /\ \A text \in CommandTexts : Len(text) \in Nat /\ DOMAIN text = 1..Len(text)
    /\ Len(dvars_table) \in Nat /\ DOMAIN dvars_table = 1..Len(dvars_table)
    /\ (\E d \in Domains : d.type = "uint64") => NumberTypes["uint64"][1] = 0

(* What the other modules assume of their constants *)
ASSUME WindowsAssumption ==
    /\ MaxOutput \in Nat \ {0} /\ VisibleCounts \subseteq Nat
    /\ PromptLength \in Nat /\ Width \in Nat \ {0} /\ BufferSize \in Nat \ {0}
    /\ PromptHistory \in Nat
    /\ Positions \subseteq Int /\ Scales \subseteq Int /\ MaxCalls \in Nat
    /\ MainThread \in Threads /\ MaxTime \in Nat
    /\ \A t \in Threads : None \notin Codes[t]
    /\ None \notin [thread : Threads, whole : BOOLEAN]

MCInit ==
    /\ Init /\ Output!Init /\ Prompt!Init /\ SplashWindow!Init /\ Hud!Init /\ Crash!BlackboxInit
    /\ Cmd!CommandInit /\ Cmd!DvarInit

\* The other parts are still where they started, and stay there.
Rest(part) ==
    /\ part = "input" \/ (Init /\ UNCHANGED vars)
    /\ part = "output" \/ (Output!Init /\ UNCHANGED outputVars)
    /\ part = "prompt" \/ (Prompt!Init /\ UNCHANGED promptVars)
    /\ part = "splash" \/ (SplashWindow!Init /\ UNCHANGED splashVars)
    /\ part = "hud" \/ (Hud!Init /\ UNCHANGED hudVars)
    /\ part = "crash" \/ (Crash!BlackboxInit /\ UNCHANGED crashVars)
    /\ part = "commands" \/ (Cmd!CommandInit /\ UNCHANGED commandVars)
    /\ part = "variables" \/ (Cmd!DvarInit /\ UNCHANGED dvarVars)

InputNext ==
    \/ Rest("input") /\ Next
    \/ Rest("hud") /\ Hud!Next
    \/ Rest("crash") /\ Crash!BlackboxNext
    \/ Rest("commands") /\ Cmd!CommandNext
    \/ Rest("variables") /\ Cmd!DvarNext

allVars == <<vars, outputVars, promptVars, splashVars, hudVars, crashVars, commandVars, dvarVars>>

InputSpec == MCInit /\ [][InputNext]_allVars

MCNext ==
    \/ Rest("output") /\ Output!Next
    \/ Rest("prompt") /\ Prompt!Next
    \/ Rest("splash") /\ SplashWindow!Next

\* The threads of the two windows run; the user is free not to type.
MCSpec ==
    /\ MCInit /\ [][MCNext]_allVars
    /\ WF_promptVars(Rest("prompt") /\ Prompt!Resized)
    /\ WF_promptVars(Rest("prompt") /\ Prompt!Woken("event"))
    /\ WF_promptVars(Rest("prompt") /\ Prompt!SetKillEvent)
    /\ WF_promptVars(Rest("prompt") /\ Prompt!Joined)
    /\ WF_splashVars(Rest("splash") /\ SplashWindow!OwnerStep)
    /\ \A h \in SplashWindow!Hooks : WF_splashVars(Rest("splash") /\ SplashWindow!HookStep(h))

(* In-game console: a line printed while the newest one is drawn is drawn.  *)
OutputFollows == Output!OutputFollows

(* Elements on the screen: the table is what the last calls asked for.      *)
DrawnAsAsked == Hud!DrawnAsAsked

(* Crashes: of the threads that crash one shows its error, and the process   *)
(* ends with what was shown.                                                *)
CrashIsReported == Crash!SomebodyReports /\ Crash!EndIsExplained

(* Console window: the row shows the prompt and the line, and no more.      *)
RowShowsLine == Prompt!RowShowsLine

(* Splash: a hook that has returned has taken the window off the screen.    *)
SplashIsGone == SplashWindow!SplashIsGone

(* Commands: the last handler of a name runs, and reads its own arguments   *)
(* whatever it has run and split before.                                    *)
CommandsAreOwn == Cmd!LastHandlerRuns /\ Cmd!ArgumentsAreOwn

(* Variables: the client finds what the game finds, and tells its bounds.   *)
VariablesAreTrue == Cmd!FindsAsTheGame /\ Cmd!DomainsAreTold

(* Both windows: pre_destroy of the console and destroy_window of the       *)
(* splash end.                                                              *)
WindowsEnd == Prompt!ConsoleEnds /\ SplashWindow!DestroyEnds
==============================================================================
