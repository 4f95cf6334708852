----------------------------- MODULE MCScheduler -----------------------------
(* Scheduler on small instances: two game threads, both of which render, one *)
(* of which runs Com_Frame.                                                  *)
EXTENDS Scheduler, TLC

CONSTANTS t1, t2, t3, Main, Render

(* A main pipeline shared by a looping and a one-shot task, beside a task of *)
(* the async thread.                                                        *)
MCTasks    == {t1, t2, t3}
MCPipe     == t1 :> "main" @@ t2 :> "main" @@ t3 :> "async"
MCInterval == t1 :> 0 @@ t2 :> 1 @@ t3 :> 0
MCOneShot  == {t1, t3}

(* A single task on the pipeline without a hook, beside one on main. *)
ServerTasks    == {t1, t2}
ServerPipe     == t1 :> "server" @@ t2 :> "main"
ServerInterval == t1 :> 0 @@ t2 :> 0
ServerOneShot  == {t1, t2}
==============================================================================
