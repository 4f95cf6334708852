-------------------------- MODULE MCComponentLoader --------------------------
(* ComponentLoader with one component of each kind: arxan (priority 9999,   *)
(* no thread), splash (a thread from its constructor), scheduler (from      *)
(* pre_start) and demonware (from post_unpack).                             *)
EXTENDS ComponentLoader

CONSTANTS Arxan, Splash, Scheduler, Demonware

MCPriority == [c \in Components |-> IF c = Arxan THEN 9999 ELSE 0]
MCThreadAt == Arxan :> "never" @@ Splash :> "registered"
              @@ Scheduler :> "pre_start" @@ Demonware :> "post_unpack"
==============================================================================
