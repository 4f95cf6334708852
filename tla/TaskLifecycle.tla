---------------------------- MODULE TaskLifecycle ----------------------------
(***************************************************************************)
(* What the scheduler promises its callers, whatever lists, locks and      *)
(* iterators it uses: a task is submitted once, waits, is run, and either  *)
(* waits again (scheduler::loop) or is finished for good (scheduler::once).*)
(* The handlers of one pipeline never overlap.                             *)
(***************************************************************************)

CONSTANTS
    Tasks,      \* the calls of scheduler::schedule, loop and once
    Pipelines,  \* the pipelines a task can be submitted to
    Pipe,       \* the pipeline of each task
    OneShot     \* the tasks submitted with scheduler::once

VARIABLE stage

Stages == {"unscheduled", "pending", "running", "done"}

Init == stage = [t \in Tasks |-> "unscheduled"]

Submit(t) ==
    /\ stage[t] = "unscheduled"
    /\ stage' = [stage EXCEPT ![t] = "pending"]

Start(t) ==
    /\ stage[t] = "pending"
    /\ \A u \in Tasks : Pipe[u] = Pipe[t] => stage[u] # "running"
    /\ stage' = [stage EXCEPT ![t] = "running"]

Finish(t) ==
    /\ stage[t] = "running"
    /\ stage' = [stage EXCEPT ![t] = IF t \in OneShot THEN "done" ELSE "pending"]

Next == \E t \in Tasks : Submit(t) \/ Start(t) \/ Finish(t)

Spec == Init /\ [][Next]_stage
==============================================================================
