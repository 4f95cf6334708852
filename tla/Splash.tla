-------------------------------- MODULE Splash --------------------------------
(***************************************************************************)
(* component/splash.cpp: the splash window and the thread that owns it.    *)
(* The constructor of the component starts the thread; post_unpack and     *)
(* pre_destroy call destroy_window, one after the other or, when a thread  *)
(* of the game exits while another unpacks, at once (ComponentLoader).     *)
(*                                                                         *)
(* External, as the code uses it: a window belongs to the thread that made *)
(* it, DestroyWindow from another thread fails, ShowWindow of a window on  *)
(* the screen waits for its thread to handle messages, and the end of a    *)
(* thread destroys its windows.                                            *)
(***************************************************************************)
EXTENDS Integers

VARIABLES
    window,    \* the global variable window is not null
    exists,    \* IsWindow(window)
    onScreen,  \* the window is visible
    owner,     \* the window thread: "start", "made", "loop", "stop", "ended"
    object,    \* window_thread: "joinable", "joined" or "detached"
    call,      \* [Hooks -> pc]: where destroy_window is in each hook
    loose,     \* history: the thread was detached while it ran
    overlap,   \* history: both hooks were inside destroy_window at once
    clash      \* history: a thread was joined or detached twice

vars == <<window, exists, onScreen, owner, object, call, loose, overlap, clash>>

Hooks == {"post_unpack", "pre_destroy"}

Init ==
    /\ window = FALSE /\ exists = FALSE /\ onScreen = FALSE
    /\ owner = "start" /\ object = "joinable"
    /\ call = [h \in Hooks |-> "no"]
    /\ loose = FALSE /\ overlap = FALSE /\ clash = FALSE

------------------------------------------------------------------------------
(* The window thread: draw *)

(* CreateWindow in show; without the image there is no window *)
CreateWindow ==
    /\ owner = "start"
    /\ \/ window' = TRUE /\ exists' = TRUE /\ owner' = "made"
       \/ owner' = "loop" /\ UNCHANGED <<window, exists>>
    /\ UNCHANGED <<onScreen, object, call, loose, overlap, clash>>

(* The rest of show reads window again: a null window is not shown *)
ShowWindow ==
    /\ owner = "made"
    /\ onScreen' = window
    /\ owner' = "loop"
    /\ UNCHANGED <<window, exists, object, call, loose, overlap, clash>>

(* draw_frame ends the loop when it finds no window *)
DrawFrame ==
    /\ owner = "loop"
    /\ ~window
    /\ owner' = "stop"
    /\ UNCHANGED <<window, exists, onScreen, object, call, loose, overlap, clash>>

(* The user closes the window: it is destroyed by its own thread, and      *)
(* neither window nor the loop notice, as WM_DESTROY is never in a queue.  *)
UserCloses ==
    /\ owner = "loop" /\ exists
    /\ exists' = FALSE /\ onScreen' = FALSE
    /\ UNCHANGED <<window, owner, object, call, loose, overlap, clash>>

DrawEnds ==
    /\ owner = "stop"
    /\ window' = FALSE /\ exists' = FALSE /\ onScreen' = FALSE
    /\ owner' = "ended"
    /\ UNCHANGED <<object, call, loose, overlap, clash>>

------------------------------------------------------------------------------
(* destroy_window in hook h *)

Goto(h, pc) ==
    /\ call' = [call EXCEPT ![h] = pc]
    /\ overlap' = (overlap \/ \E g \in Hooks \ {h} : call[g] \notin {"no", "done"})

Begin(h) ==
    /\ call[h] = "no"
    /\ Goto(h, IF window /\ exists THEN "hide" ELSE "detach")
    /\ UNCHANGED <<window, exists, onScreen, owner, object, loose, clash>>

Hide(h) ==
    /\ call[h] = "hide"
    /\ onScreen => owner = "loop"
    /\ onScreen' = FALSE
    /\ Goto(h, "forget")
    /\ UNCHANGED <<window, exists, owner, object, loose, clash>>

\* Mutant: the window is destroyed and not forgotten: its thread goes on.
Forget_Keep(h) ==
    /\ call[h] = "forget"
    /\ Goto(h, IF object = "joinable" THEN "join" ELSE "done")
    /\ UNCHANGED <<window, exists, onScreen, owner, object, loose, clash>>

(* DestroyWindow fails; window is null and the thread is still joinable? *)
Forget(h) ==
    /\ call[h] = "forget"
    /\ window' = FALSE
    /\ Goto(h, IF object = "joinable" THEN "join" ELSE "done")
    /\ UNCHANGED <<exists, onScreen, owner, object, loose, clash>>

(* Whether a second join or detach of one thread throws, waits or does     *)
(* nothing is undefined: the hook is done in the model.                    *)
Join(h) ==
    /\ call[h] = "join"
    /\ owner = "ended" \/ object # "joinable"
    /\ object' = IF object = "joinable" THEN "joined" ELSE object
    /\ clash' = (clash \/ object # "joinable")
    /\ window' = FALSE
    /\ Goto(h, "done")
    /\ UNCHANGED <<exists, onScreen, owner, loose>>

\* Mutant: the thread is detached without the test.
Detach_Always(h) ==
    /\ call[h] = "detach"
    /\ object' = "detached"
    /\ loose' = (loose \/ owner # "ended")
    /\ clash' = (clash \/ object # "joinable" \/ \E g \in Hooks : call[g] = "join")
    /\ Goto(h, "done")
    /\ UNCHANGED <<window, exists, onScreen, owner>>

(* The branch without a window.  pre_destroy repeats it. *)
Detach(h) ==
    /\ call[h] = "detach"
    /\ IF object = "joinable"
         THEN /\ object' = "detached"
              /\ loose' = (loose \/ owner # "ended")
              /\ clash' = (clash \/ \E g \in Hooks : call[g] = "join")
         ELSE UNCHANGED <<object, loose, clash>>
    /\ Goto(h, "done")
    /\ UNCHANGED <<window, exists, onScreen, owner>>

(* What the window thread and a hook do of themselves; the user is free    *)
(* not to click.                                                           *)
OwnerStep == CreateWindow \/ ShowWindow \/ DrawFrame \/ DrawEnds
HookStep(h) == Hide(h) \/ Forget(h) \/ Join(h) \/ Detach(h)

Next ==
    \/ OwnerStep \/ UserCloses
    \/ \E h \in Hooks : Begin(h) \/ HookStep(h)

Spec == Init /\ [][Next]_vars

------------------------------------------------------------------------------
(* Properties *)

(* A hook that returns has taken the window off the screen for good: the   *)
(* window thread has ended, unless it was detached, before it made its     *)
(* window or after the user closed it, or the hooks overlapped.  Without   *)
(* an overlap the thread is joined or detached once.                       *)
SplashIsGone ==
    /\ overlap \/ ~clash
    /\ (\E h \in Hooks : call[h] = "done") /\ ~loose /\ ~overlap
         => owner = "ended" /\ ~onScreen

(* destroy_window ends: the thread it joins sees that its window is gone.  *)
DestroyEnds ==
    \A h \in Hooks : call[h] \in {"hide", "detach"} ~> call[h] = "done"
==============================================================================
