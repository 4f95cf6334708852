------------------------------ MODULE Scheduler ------------------------------
(***************************************************************************)
(* component/scheduler.cpp: four pipelines of tasks, each with a list that *)
(* a pass iterates under a recursive mutex (callbacks_) and a list that    *)
(* callers append to under a second mutex (new_callbacks_).  One thread of *)
(* the component runs the async pipeline; the hooks on R_EndFrame and      *)
(* Com_Frame run the renderer and main pipelines on the game's threads.    *)
(*                                                                         *)
(* A task is one call of schedule, loop or once.  Instead of the time of   *)
(* last_call the model keeps what execute computes from it: how much of    *)
(* the interval is left, counted down by the clock to 0 (the task is due). *)
(***************************************************************************)
EXTENDS Integers, SequencesExt

CONSTANTS
    Tasks,          \* calls of schedule, loop and once that can be made
    Pipe,           \* the pipeline each call names
    Interval,       \* the delay each call names
    OneShot,        \* the calls made through once (the others loop)
    GameThreads,    \* the game's threads
    RenderThreads,  \* those that call R_EndFrame
    MainThreads,    \* those that call Com_Frame
    AsyncThread,    \* the thread pre_start creates
    NoThread

Pipelines == {"async", "renderer", "server", "main"}
Threads   == GameThreads \cup {AsyncThread}

ASSUME SchedulerAssumption ==
    /\ Pipe \in [Tasks -> Pipelines]
    /\ Interval \in [Tasks -> Nat]
    /\ OneShot \subseteq Tasks
    /\ RenderThreads \subseteq GameThreads
    /\ MainThreads \subseteq GameThreads
    /\ AsyncThread \notin GameThreads
    /\ NoThread \notin Threads

VARIABLES
    callbacks,     \* [Pipelines -> Seq(Tasks)]: callbacks_
    newCallbacks,  \* [Pipelines -> Seq(Tasks)]: new_callbacks_
    owner,         \* who holds the mutex of callbacks_, for a whole pass
    at,            \* the iterator of the pass in progress, 0 outside a pass
    inHandler,     \* the pass is inside the handler of callbacks[p][at[p]]
    wait,          \* what is left of each task's interval
    async,         \* the loop of the async thread
    hooked,        \* post_unpack has installed the frame hooks
    kill,
    destroyer,     \* the thread inside pre_destroy
    joined,        \* its join of the async thread has returned
    ticket,        \* history: place of each task in the order of submission
    issued,        \* history: tasks submitted so far
    calls,         \* history: handler invocations of each task, up to 2
    visited        \* history: tasks the pass in progress has considered

lists == <<callbacks, newCallbacks>>
pass  == <<owner, at, inHandler, visited>>
life  == <<async, hooked, kill, destroyer, joined>>
vars  == <<lists, pass, wait, life, ticket, issued, calls>>

-----------------------------------------------------------------------------
(* Which threads reach execute(p): the async loop, r_end_frame_stub and    *)
(* main_frame_stub.  The hook of server_frame_stub is commented out.       *)
Executors(p) ==
    CASE p = "async"    -> {AsyncThread}
      [] p = "renderer" -> RenderThreads
      [] p = "main"     -> MainThreads
      [] p = "server"   -> {}

Current(p)    == callbacks[p][at[p]]
Running(t)    == LET p == Pipe[t] IN inHandler[p] /\ Current(p) = t
Holds(p, t)   == \E i \in DOMAIN callbacks[p] : callbacks[p][i] = t
Queued(p, t)  == \E i \in DOMAIN newCallbacks[p] : newCallbacks[p][i] = t
InAPass(th)   == \E p \in Pipelines : owner[p] = th

(* A thread can call into the scheduler from a handler or outside a pass;  *)
(* the async thread runs nothing but handlers, and a thread that entered   *)
(* pre_destroy does not leave it before the process ends.                  *)
CanCall(th) ==
    /\ th # destroyer
    /\ \A p \in Pipelines : owner[p] = th => inHandler[p]
    /\ th = AsyncThread => InAPass(th)

Init ==
    /\ callbacks = [p \in Pipelines |-> <<>>]
    /\ newCallbacks = [p \in Pipelines |-> <<>>]
    /\ owner = [p \in Pipelines |-> NoThread]
    /\ at = [p \in Pipelines |-> 0]
    /\ inHandler = [p \in Pipelines |-> FALSE]
    /\ visited = [p \in Pipelines |-> {}]
    /\ wait = [t \in Tasks |-> 0]
    /\ async = "unstarted"
    /\ hooked = FALSE
    /\ kill = FALSE
    /\ destroyer = NoThread
    /\ joined = FALSE
    /\ ticket = [t \in Tasks |-> 0]
    /\ issued = 0
    /\ calls = [t \in Tasks |-> 0]

-----------------------------------------------------------------------------
(* pre_start and post_unpack of the component. *)

PreStart ==
    /\ async = "unstarted"
    /\ destroyer = NoThread
    /\ async' = "loop"
    /\ UNCHANGED <<lists, pass, wait, hooked, kill, destroyer, joined, ticket, issued, calls>>

PostUnpack ==
    /\ async # "unstarted"
    /\ ~hooked
    /\ destroyer = NoThread
    /\ hooked' = TRUE
    /\ UNCHANGED <<lists, pass, wait, async, kill, destroyer, joined, ticket, issued, calls>>

(* schedule: stamps last_call and appends under the mutex of new_callbacks_. *)
Schedule(th, t) ==
    /\ CanCall(th)
    /\ ticket[t] = 0
    /\ newCallbacks' = [newCallbacks EXCEPT ![Pipe[t]] = Append(@, t)]
    /\ wait' = [wait EXCEPT ![t] = Interval[t]]
    /\ issued' = issued + 1
    /\ ticket' = [ticket EXCEPT ![t] = issued + 1]
    /\ UNCHANGED <<callbacks, pass, life, calls>>

-----------------------------------------------------------------------------
(* Mutant: the read of kill is hoisted out of the loop. *)
KillSeen_Hoisted == FALSE

(* while (!kill): the flag is volatile, each turn reads it again. *)
KillSeen == kill

(* The async thread tests kill, then runs a pass, then sleeps and tests again. *)
AsyncCheck ==
    /\ async = "loop"
    /\ async' = IF KillSeen THEN "exited" ELSE "execute"
    /\ UNCHANGED <<lists, pass, wait, hooked, kill, destroyer, joined, ticket, issued, calls>>

CanExecute(th, p) ==
    /\ th \in Executors(p)
    /\ th # destroyer
    /\ ~InAPass(th)
    /\ IF p = "async" THEN async = "execute" ELSE hooked

(* Mutants: the new tasks replace the old ones, come first, or are dropped *)
(* when there is nothing to add them to.                                   *)
Merged_Replace(old, new) == new
Merged_Front(old, new)   == new \o old
Merged_Nonempty(old, new) == IF old = <<>> THEN old ELSE old \o new

(* merge_callbacks *)
Merged(old, new) == old \o new

(* execute: take the mutex of callbacks_, merge, start at begin(). *)
BeginPass(th, p) ==
    /\ CanExecute(th, p)
    /\ owner[p] = NoThread
    /\ owner' = [owner EXCEPT ![p] = th]
    /\ at' = [at EXCEPT ![p] = 1]
    /\ visited' = [visited EXCEPT ![p] = {}]
    /\ callbacks' = [callbacks EXCEPT ![p] = Merged(@, newCallbacks[p])]
    /\ newCallbacks' = [newCallbacks EXCEPT ![p] = <<>>]
    /\ UNCHANGED <<inHandler, wait, life, ticket, issued, calls>>

(* The loop of execute: what the iterator does next. *)
AtTask(p) ==
    /\ owner[p] \notin {NoThread, destroyer}
    /\ ~inHandler[p]
    /\ at[p] \in DOMAIN callbacks[p]

SkipTask(p) ==
    /\ AtTask(p)
    /\ wait[Current(p)] > 0
    /\ at' = [at EXCEPT ![p] = @ + 1]
    /\ visited' = [visited EXCEPT ![p] = @ \cup {Current(p)}]
    /\ UNCHANGED <<lists, owner, inHandler, wait, life, ticket, issued, calls>>

CallTask(p) ==
    /\ AtTask(p)
    /\ wait[Current(p)] = 0
    /\ wait' = [wait EXCEPT ![Current(p)] = Interval[Current(p)]]
    /\ inHandler' = [inHandler EXCEPT ![p] = TRUE]
    /\ visited' = [visited EXCEPT ![p] = @ \cup {Current(p)}]
    /\ calls' = [calls EXCEPT ![Current(p)] = IF @ = 2 THEN 2 ELSE @ + 1]
    /\ UNCHANGED <<lists, owner, at, life, ticket, issued>>

(* Mutants: every task is erased; erase also steps. *)
ListAfter_EraseAll(list, i, t) == RemoveAt(list, i)
IndexAfter_Step(i, t)          == i + 1

(* The handler of t has returned: cond_end erases the task, which leaves   *)
(* the iterator at its successor; cond_continue moves on.                  *)
ListAfter(list, i, t) == IF t \in OneShot THEN RemoveAt(list, i) ELSE list
IndexAfter(i, t)      == IF t \in OneShot THEN i ELSE i + 1

HandlerReturns(p) ==
    /\ inHandler[p]
    /\ owner[p] # destroyer
    /\ inHandler' = [inHandler EXCEPT ![p] = FALSE]
    /\ callbacks' = [callbacks EXCEPT ![p] = ListAfter(@, at[p], Current(p))]
    /\ at' = [at EXCEPT ![p] = IndexAfter(@, Current(p))]
    /\ UNCHANGED <<newCallbacks, owner, visited, wait, life, ticket, issued, calls>>

EndPass(p) ==
    /\ owner[p] \notin {NoThread, destroyer}
    /\ ~inHandler[p]
    /\ at[p] \notin DOMAIN callbacks[p]
    /\ owner' = [owner EXCEPT ![p] = NoThread]
    /\ at' = [at EXCEPT ![p] = 0]
    /\ visited' = [visited EXCEPT ![p] = {}]
    /\ async' = IF p = "async" THEN "loop" ELSE async
    /\ UNCHANGED <<lists, inHandler, wait, hooked, kill, destroyer, joined, ticket, issued, calls>>

-----------------------------------------------------------------------------
(* pre_destroy: any game thread, also one that is inside a handler when the *)
(* game exits.  The thread stays in it: ExitProcess follows.                *)
PreDestroy(th) ==
    /\ th \in GameThreads
    /\ CanCall(th)
    /\ destroyer = NoThread
    /\ destroyer' = th
    /\ kill' = TRUE
    /\ UNCHANGED <<lists, pass, wait, async, hooked, joined, ticket, issued, calls>>

(* thread.joinable() is false or the async thread has returned. *)
AsyncStopped == async \in {"unstarted", "exited"}

JoinReturns ==
    /\ destroyer # NoThread
    /\ ~joined
    /\ AsyncStopped
    /\ joined' = TRUE
    /\ UNCHANGED <<lists, pass, wait, async, hooked, kill, destroyer, ticket, issued, calls>>

Elapsed(w) == IF w > 0 THEN w - 1 ELSE 0

(* The clock: a unit of every interval passes. *)
Tick ==
    /\ \E t \in Tasks : wait[t] > 0
    /\ wait' = [t \in Tasks |-> Elapsed(wait[t])]
    /\ UNCHANGED <<lists, pass, life, ticket, issued, calls>>

-----------------------------------------------------------------------------
Next ==
    \/ PreStart
    \/ PostUnpack
    \/ AsyncCheck
    \/ \E th \in Threads, t \in Tasks : Schedule(th, t)
    \/ \E th \in Threads, p \in Pipelines : BeginPass(th, p)
    \/ \E p \in Pipelines : SkipTask(p)
    \/ \E p \in Pipelines : CallTask(p)
    \/ \E p \in Pipelines : HandlerReturns(p)
    \/ \E p \in Pipelines : EndPass(p)
    \/ \E th \in GameThreads : PreDestroy(th)
    \/ JoinReturns
    \/ Tick

Spec == Init /\ [][Next]_vars

(* Start-up completes, time passes, every handler returns, the async thread *)
(* is scheduled, and the game goes on ending frames of both kinds: strongly *)
(* fair, as a thread that does both is not always free to do either; some   *)
(* thread gets the mutex, no particular one.  Nothing obliges anybody to    *)
(* submit a task or to exit.                                                *)
Fairness ==
    /\ WF_vars(PreStart)
    /\ WF_vars(PostUnpack)
    /\ WF_vars(AsyncCheck)
    /\ WF_vars(JoinReturns)
    /\ WF_vars(Tick)
    /\ \A p \in Pipelines :
        /\ SF_vars(\E th \in Threads : BeginPass(th, p))
        /\ WF_vars(SkipTask(p) \/ CallTask(p))
        /\ WF_vars(HandlerReturns(p))
        /\ WF_vars(EndPass(p))

FairSpec == Spec /\ Fairness

-----------------------------------------------------------------------------
TypeOK ==
    /\ callbacks \in [Pipelines -> Seq(Tasks)]
    /\ newCallbacks \in [Pipelines -> Seq(Tasks)]
    /\ owner \in [Pipelines -> Threads \cup {NoThread}]
    /\ at \in [Pipelines -> Nat]
    /\ inHandler \in [Pipelines -> BOOLEAN]
    /\ visited \in [Pipelines -> SUBSET Tasks]
    /\ wait \in [Tasks -> Nat]
    /\ async \in {"unstarted", "loop", "execute", "exited"}
    /\ hooked \in BOOLEAN
    /\ kill \in BOOLEAN
    /\ destroyer \in GameThreads \cup {NoThread}
    /\ joined \in BOOLEAN
    /\ ticket \in [Tasks -> Nat]
    /\ issued \in Nat
    /\ calls \in [Tasks -> 0..2]

(* Every submitted task is in the lists of its own pipeline until a one-shot *)
(* task has been called: whatever the interleaving of add, merge_callbacks   *)
(* and erase, no task is dropped and none leaves before its handler ran.     *)
NoTaskLost ==
    \A t \in Tasks :
        ticket[t] > 0 =>
            \/ Holds(Pipe[t], t)
            \/ Queued(Pipe[t], t)
            \/ t \in OneShot /\ calls[t] = 1

(* The two lists of a pipeline, read one after the other, hold its tasks in *)
(* the order of submission and therefore each of them once: tasks added     *)
(* while a pass runs end up behind every older one (merge_callbacks inserts *)
(* at the end, erase keeps the rest in order).                              *)
SubmissionOrder ==
    \A p \in Pipelines :
        LET both == callbacks[p] \o newCallbacks[p]
        IN  \A i, j \in DOMAIN both : i < j => ticket[both[i]] < ticket[both[j]]

(* A task submitted with once is called at most once. *)
OnceIsOnce == \A t \in OneShot : calls[t] <= 1

(* Everything behind the iterator of a pass has been considered by that     *)
(* pass: erasing a finished task never makes the iterator jump over the     *)
(* next one.                                                                *)
NothingSkippedOver ==
    \A p \in Pipelines :
        owner[p] # NoThread =>
            \A i \in DOMAIN callbacks[p] : i < at[p] => callbacks[p][i] \in visited[p]

(* Both: a pipeline considers its tasks in the order of their submission, *)
(* each of them once in a pass.                                           *)
TasksInOrder == SubmissionOrder /\ NothingSkippedOver

(* A handler that submits to its own pipeline, and any thread that submits  *)
(* while the pass runs, never lengthens the pass: the list being iterated   *)
(* only shrinks until the mutex is released.                                *)
PassNeverGrows ==
    [][\A p \in Pipelines :
        owner[p] # NoThread /\ owner'[p] = owner[p] =>
            {callbacks'[p][i] : i \in DOMAIN callbacks'[p]}
                \subseteq {callbacks[p][i] : i \in DOMAIN callbacks[p]}]_vars

(* Once pre_destroy has returned no handler of the async pipeline is running *)
(* and none will start: the callees of async tasks may be torn down.         *)
QuietAfterJoin ==
    joined => owner["async"] = NoThread /\ async \in {"unstarted", "exited"}

(* The scheduler implements the life cycle its interface promises. *)
StageOf(t) ==
    IF ticket[t] = 0 THEN "unscheduled"
    ELSE IF Running(t) THEN "running"
    ELSE IF Holds(Pipe[t], t) \/ Queued(Pipe[t], t) THEN "pending"
    ELSE "done"

Lifecycle == INSTANCE TaskLifecycle WITH stage <- [t \in Tasks |-> StageOf(t)]
ImplementsLifecycle == Lifecycle!Spec

(* A submitted task is eventually called, and a looping one again and       *)
(* again, unless shutdown begins: no pass is endless and no submission is   *)
(* dropped or overtaken for ever by newer ones.                             *)
Unfinished(t) == ticket[t] > 0 /\ (t \in OneShot => calls[t] = 0)
EventuallyCalled ==
    \A t \in {u \in Tasks : Pipe[u] # "server"} : Unfinished(t) ~> (Running(t) \/ kill)

(* pre_destroy returns, also when it is entered from inside a main or       *)
(* renderer handler, whose pass then keeps its mutex for ever: the async    *)
(* thread gets through its own pass and sees kill.                          *)
ShutdownCompletes == kill ~> joined

(* scheduler.hpp describes pipeline::server as "The game's server thread".  *)
ServerTasksCalled ==
    \A t \in {u \in Tasks : Pipe[u] = "server"} : Unfinished(t) ~> (Running(t) \/ kill)
==============================================================================
