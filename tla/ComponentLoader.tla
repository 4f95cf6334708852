--------------------------- MODULE ComponentLoader ---------------------------
(***************************************************************************)
(* loader/component_loader.cpp and main.cpp: the components are registered *)
(* while the DLL is loaded, pre_start is called for each of them before the *)
(* game's entry point, post_unpack at the game's first GetSystemMetrics and *)
(* pre_destroy when a thread of the game calls ExitProcess or the start    *)
(* fails.  Each of the three runs once, under the guard of a static local  *)
(* variable: a second thread waits until the first is through.             *)
(*                                                                         *)
(* A component is known by when it creates its thread, if it has one; its  *)
(* pre_destroy joins that thread if it is joinable.  clean() removes the   *)
(* components that are not supported: no component says so of itself.      *)
(***************************************************************************)
EXTENDS Integers, SequencesExt

CONSTANTS
    Components,
    Priority,    \* [Components -> Nat]: priority()
    ThreadAt,    \* [Components -> Hooks or "registered" or "never"]
    GameThreads, \* the threads of the game
    Main,        \* the one that runs the entry point
    None

Hooks == {"pre_start", "post_unpack", "pre_destroy"}

ASSUME LoaderAssumption ==
    /\ Priority \in [Components -> Nat]
    /\ ThreadAt \in [Components -> {"registered", "pre_start", "post_unpack", "never"}]
    /\ Main \in GameThreads
    /\ None \notin GameThreads \cup Components

VARIABLES
    list,        \* get_components()
    process,     \* "loading", "running", "exited" or "terminated"
    pc,          \* [GameThreads -> Places]
    guard,       \* [Hooks -> "fresh", "running", "true" or "false"]: static auto res
    runner,      \* [Hooks -> GameThreads or None]: who evaluates it
    index,       \* [Hooks -> Nat]: the loop over the components
    initialized, \* of get_system_metrics
    thread,      \* [Components -> "none", "joinable" or "gone"]
    called,      \* history: [Components -> [Hooks -> 0..2]], calls that returned
    lateUnpack   \* history: a post_unpack was called after pre_destroy had begun

vars == <<list, process, pc, guard, runner, index, initialized, thread, called, lateUnpack>>

(* run: before the entry point; unwind: the finally of run; game: the       *)
(* game's code; metrics, verified: in get_system_metrics; exit: in          *)
(* exit_hook; returned: patch_main has returned 1.                         *)
Places == {"unborn", "run", "pre_start", "unwind", "returned",
           "game", "verified", "exit"}

FirstIndex == 1

Init ==
    /\ list = <<>>
    /\ process = "loading"
    /\ pc = [th \in GameThreads |-> "unborn"]
    /\ guard = [h \in Hooks |-> "fresh"]
    /\ runner = [h \in Hooks |-> None]
    /\ index = [h \in Hooks |-> FirstIndex]
    /\ initialized = FALSE
    /\ thread = [c \in Components |-> "none"]
    /\ called = [c \in Components |-> [h \in Hooks |-> 0]]
    /\ lateUnpack = FALSE

At(th, place) == process = "running" /\ pc[th] = place
Go(th, place) == pc' = [pc EXCEPT ![th] = place]

-----------------------------------------------------------------------------
(* Mutant: the components stay in the order of registration. *)
Lands_Last(c, k) == k = Len(list) + 1

(* push_back and stable_sort by descending priority: the list is in order   *)
(* already, so the new component lands behind all of at least its priority. *)
Lands(c, k) ==
    /\ \A i \in 1..k - 1 : Priority[list[i]] >= Priority[c]
    /\ \A i \in k..Len(list) : Priority[list[i]] < Priority[c]

(* register_component, from the static initializer of each component's file, *)
(* in whatever order the linker chose.                                       *)
Register(c) ==
    /\ process = "loading"
    /\ c \notin ToSet(list)
    /\ \E k \in 1..Len(list) + 1 : Lands(c, k) /\ list' = InsertAt(list, k, c)
    /\ thread' = [thread EXCEPT ![c] = IF ThreadAt[c] = "registered" THEN "joinable" ELSE @]
    /\ UNCHANGED <<process, pc, guard, runner, index, initialized, called, lateUnpack>>

(* DllMain diverts the entry point to patch_main, which calls run. *)
Attach ==
    /\ process = "loading"
    /\ ToSet(list) = Components
    /\ process' = "running"
    /\ Go(Main, "run")
    /\ UNCHANGED <<list, guard, runner, index, initialized, thread, called, lateUnpack>>

(* patch_imports and remove_crash_file, either of which may throw. *)
PatchImports ==
    /\ At(Main, "run")
    /\ \E place \in {"pre_start", "unwind"} : Go(Main, place)
    /\ UNCHANGED <<list, process, guard, runner, index, initialized, thread, called, lateUnpack>>

-----------------------------------------------------------------------------
(* The three functions of the loader. *)

(* Where a thread calls each of them. *)
CallSite(h) ==
    CASE h = "pre_start"   -> {"pre_start"}
      [] h = "post_unpack" -> {"verified"}
      [] h = "pre_destroy" -> {"unwind", "exit"}

CanBegin(h) == guard[h] = "fresh"

(* The first thread to arrive evaluates the initializer. *)
Begin(th, h) ==
    /\ process = "running"
    /\ pc[th] \in CallSite(h)
    /\ CanBegin(h)
    /\ guard' = [guard EXCEPT ![h] = "running"]
    /\ runner' = [runner EXCEPT ![h] = th]
    /\ index' = [index EXCEPT ![h] = FirstIndex]
    /\ UNCHANGED <<list, process, pc, initialized, thread, called, lateUnpack>>

InLoop(h) == process = "running" /\ guard[h] = "running"

(* What the hook of a component does to its thread. *)
ThreadAfter(c, h) ==
    CASE ThreadAt[c] = h   -> "joinable"
      [] h = "pre_destroy" -> IF thread[c] = "joinable" THEN "gone" ELSE thread[c]
      [] OTHER             -> thread[c]

CallHook(h) ==
    /\ InLoop(h)
    /\ index[h] \in DOMAIN list
    /\ LET c == list[index[h]]
       IN /\ thread' = [thread EXCEPT ![c] = ThreadAfter(c, h)]
          /\ called' = [called EXCEPT ![c][h] = IF @ = 2 THEN 2 ELSE @ + 1]
    /\ index' = [index EXCEPT ![h] = @ + 1]
    /\ lateUnpack' = (lateUnpack \/ (h = "post_unpack" /\ guard["pre_destroy"] # "fresh"))
    /\ UNCHANGED <<list, process, pc, guard, runner, initialized>>

AfterThrow == "false"

(* The hook throws: a message box, and the rest of the list is not called. *)
HookThrows(h) ==
    /\ InLoop(h)
    /\ index[h] \in DOMAIN list
    /\ guard' = [guard EXCEPT ![h] = AfterThrow]
    /\ UNCHANGED <<list, process, pc, runner, index, initialized, thread, called, lateUnpack>>

EndLoop(h) ==
    /\ InLoop(h)
    /\ index[h] \notin DOMAIN list
    /\ guard' = [guard EXCEPT ![h] = "true"]
    /\ UNCHANGED <<list, process, pc, runner, index, initialized, thread, called, lateUnpack>>

-----------------------------------------------------------------------------
(* Back in the callers. *)

(* Mutant: a thread that finds another one at work does not wait for it. *)
Evaluated_NoWait(h) == guard[h] # "fresh"

(* Mutant: a hook that throws leaves the variable without a value. *)
Evaluated_IfTrue(h) == guard[h] = "true"

(* The static variable has its value. *)
Evaluated(h) == guard[h] \in {"true", "false"}

(* Mutant: a failed start does not call pre_destroy. *)
AfterFailure_Return == "returned"

AfterFailure == "unwind"

(* run: on to the game's entry point, or premature_shutdown. *)
PreStartReturns ==
    /\ At(Main, "pre_start")
    /\ Evaluated("pre_start")
    /\ pc' = IF guard["pre_start"] = "true"
             THEN [th \in GameThreads |-> "game"]
             ELSE [pc EXCEPT ![Main] = AfterFailure]
    /\ UNCHANGED <<list, process, guard, runner, index, initialized, thread, called, lateUnpack>>

(* pre_destroy has returned in the finally of run: patch_main returns 1.   *)
UnwindReturns ==
    /\ At(Main, "unwind")
    /\ Evaluated("pre_destroy")
    /\ IF guard["pre_destroy"] = "false"
       THEN process' = "terminated" /\ UNCHANGED pc
       ELSE Go(Main, "returned") /\ UNCHANGED process
    /\ UNCHANGED <<list, guard, runner, index, initialized, thread, called, lateUnpack>>

(* The process ends with its main thread: nothing of the game has run. *)
MainReturned ==
    /\ At(Main, "returned")
    /\ process' = "exited"
    /\ UNCHANGED <<list, pc, guard, runner, index, initialized, thread, called, lateUnpack>>

(* get_system_metrics: the unlocked test of initialized, the game's version *)
(* (the right one), then post_unpack.                                       *)
GetSystemMetrics(th) ==
    /\ At(th, "game")
    /\ ~initialized
    /\ Go(th, "verified")
    /\ UNCHANGED <<list, process, guard, runner, index, initialized, thread, called, lateUnpack>>

MetricsReturns(th) ==
    /\ At(th, "verified")
    /\ Evaluated("post_unpack")
    /\ IF guard["post_unpack"] = "false"
       THEN process' = "terminated" /\ UNCHANGED <<pc, initialized>>
       ELSE Go(th, "game") /\ initialized' = TRUE /\ UNCHANGED process
    /\ UNCHANGED <<list, guard, runner, index, thread, called, lateUnpack>>

(* exit_hook *)
ExitHook(th) ==
    /\ At(th, "game")
    /\ Go(th, "exit")
    /\ UNCHANGED <<list, process, guard, runner, index, initialized, thread, called, lateUnpack>>

(* ExitProcess; the deleter of the list calls pre_destroy once more, whose  *)
(* static variable has been evaluated.                                     *)
ExitProcess(th) ==
    /\ At(th, "exit")
    /\ Evaluated("pre_destroy")
    /\ process' = IF guard["pre_destroy"] = "false" THEN "terminated" ELSE "exited"
    /\ UNCHANGED <<list, pc, guard, runner, index, initialized, thread, called, lateUnpack>>

-----------------------------------------------------------------------------
Next ==
    \/ \E c \in Components : Register(c)
    \/ Attach
    \/ PatchImports
    \/ \E th \in GameThreads, h \in Hooks : Begin(th, h)
    \/ \E h \in Hooks : CallHook(h)
    \/ \E h \in Hooks : HookThrows(h)
    \/ \E h \in Hooks : EndLoop(h)
    \/ PreStartReturns
    \/ UnwindReturns
    \/ MainReturned
    \/ \E th \in GameThreads : GetSystemMetrics(th)
    \/ \E th \in GameThreads : MetricsReturns(th)
    \/ \E th \in GameThreads : ExitHook(th)
    \/ \E th \in GameThreads : ExitProcess(th)

Spec == Init /\ [][Next]_vars

(* The hooks return or throw and the threads are scheduled; nothing obliges *)
(* the game to call GetSystemMetrics or ExitProcess.                       *)
Fairness ==
    /\ \A h \in Hooks :
        /\ WF_vars(CallHook(h) \/ HookThrows(h) \/ EndLoop(h))
        /\ \A th \in GameThreads : WF_vars(Begin(th, h))
    /\ WF_vars(Attach)
    /\ WF_vars(PatchImports)
    /\ WF_vars(PreStartReturns)
    /\ WF_vars(UnwindReturns)
    /\ WF_vars(MainReturned)
    /\ \A th \in GameThreads : WF_vars(MetricsReturns(th)) /\ WF_vars(ExitProcess(th))

FairSpec == Spec /\ Fairness

-----------------------------------------------------------------------------
TypeOK ==
    /\ list \in Seq(Components)
    /\ process \in {"loading", "running", "exited", "terminated"}
    /\ pc \in [GameThreads -> Places]
    /\ guard \in [Hooks -> {"fresh", "running", "true", "false"}]
    /\ runner \in [Hooks -> GameThreads \cup {None}]
    /\ index \in [Hooks -> 1..Len(list) + 1]
    /\ initialized \in BOOLEAN
    /\ thread \in [Components -> {"none", "joinable", "gone"}]
    /\ called \in [Components -> [Hooks -> 0..2]]
    /\ lateUnpack \in BOOLEAN

(* However many threads reach GetSystemMetrics and ExitProcess at the same  *)
(* time, and although the deleter of the list calls pre_destroy again, no   *)
(* component is started, unpacked or destroyed twice; and whatever the      *)
(* order of registration, one of higher priority is called first (arxan     *)
(* before everything that patches the game).                                *)
HooksInOrder ==
    \A h \in Hooks, c \in Components :
        /\ called[c][h] <= 1
        /\ \A d \in Components :
              Priority[c] > Priority[d] /\ called[d][h] > 0 => called[c][h] > 0

(* Nothing is unpacked, and no code of the game runs, before every component *)
(* has been started; a start that fails is never followed by post_unpack.    *)
StartedBeforeUnpack ==
    (\E th \in GameThreads : pc[th] \in {"game", "verified", "exit"})
    \/ (\E c \in Components : called[c]["post_unpack"] > 0)
        => \A d \in Components : called[d]["pre_start"] = 1

(* A game thread that has its answer from get_system_metrics finds every    *)
(* component unpacked, also if another thread was doing the unpacking.      *)
MetricsAfterUnpack ==
    initialized => \A c \in Components : called[c]["post_unpack"] = 1

(* The three together: the functions of a component are called in their     *)
(* place, once, and no thread goes on before those that it relies on.       *)
CallsInPlace == HooksInOrder /\ StartedBeforeUnpack /\ MetricsAfterUnpack

(* A process that exits, after a failed start or by ExitProcess, has called *)
(* pre_destroy on every component and leaves no thread that a std::thread   *)
(* still owns, except one made by a post_unpack that came too late.         *)
CleanExit ==
    process = "exited" =>
        \A c \in Components :
            /\ called[c]["pre_destroy"] = 1
            /\ thread[c] = "joinable" => ThreadAt[c] = "post_unpack" /\ lateUnpack

(* ExitProcess is not delayed for ever by other threads in the loader. *)
ExitCompletes ==
    (\E th \in GameThreads : pc[th] = "exit") ~> process \in {"exited", "terminated"}
==============================================================================
