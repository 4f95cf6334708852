------------------------------- MODULE Blackbox -------------------------------
(***************************************************************************)
(* component/blackbox.cpp with suspend_other_threads of thread.cpp: what   *)
(* becomes of a process one or several of whose threads have crashed.  The *)
(* exception filter writes a dump and lets the thread go on in reset_state,*)
(* which would give the game another chance or shows an error and ends it. *)
(*                                                                         *)
(* SuspendThread only asks: the thread that is asked goes on for a while.  *)
(* The locks of the heap and of the loader, which every thread takes now   *)
(* and then, are one lock.  It matters when its owner never gives it back: *)
(* when the owner is frozen in it, or has crashed in it.                   *)
(***************************************************************************)
EXTENDS Integers, FiniteSets

CONSTANTS
    Threads, MainThread,
    Codes,     \* of exceptions, per thread
    Harmless,  \* those is_harmless_error knows
    MaxTime,   \* bound on the clock, in seconds
    None

VARIABLES
    at,         \* per thread: "none", "running", "dumping", "reset", "suspending", "dialog"
    asked,      \* the threads that SuspendThread was called for
    suspended,  \* those of them that have stopped
    lock,       \* the thread that will not leave the heap or the loader, or None
    data,       \* the exception, per thread: its code, or None
    others,     \* per thread: those suspend_other_threads has still to suspend
    dumps,      \* files: from seconds to the thread they tell of and whether all of it is there
    time,       \* the second of the last dump
    recovery_counts,
    exit_code,  \* of the process once it has ended
    second,     \* history: per thread, the second its dump is named after
    crossed     \* history: a thread suspended another although it was asked itself

blackboxVars == <<at, asked, suspended, lock, data, others, dumps, time, recovery_counts,
                  exit_code, second, crossed>>
files == <<dumps, time, second>>
stops == <<asked, suspended, others, crossed>>

\* Mutant: the client considers itself ready for another try.
is_initialized_Started == TRUE

\* Nothing ever sets the flag.
is_initialized == FALSE

\* The interval is a minute, longer than anything here but the start.
is_recoverable(t) == is_initialized /\ t = MainThread /\ recovery_counts < 3

BlackboxInit ==
    /\ at = [t \in Threads |-> IF t = MainThread THEN "running" ELSE "none"]
    /\ asked = {} /\ suspended = {} /\ lock = None
    /\ data = [t \in Threads |-> None] /\ others = [t \in Threads |-> {}]
    /\ dumps = [s \in 0 .. MaxTime |-> None] /\ time = 0 /\ recovery_counts = 0 /\ exit_code = None
    /\ second = [t \in Threads |-> None] /\ crossed = FALSE

Runs(t) == exit_code = None /\ t \notin suspended
Free(t) == lock \in {None, t}

\* Where the thread uses the heap: the list of threads is the last it frees.
Allocates(t) ==
    at[t] \in {"running", "dumping", "reset"} \/ (at[t] = "suspending" /\ others[t] = {})

\* A thread that comes to its end here may be in the heap.
Owners(t) == IF lock = None /\ Allocates(t) THEN {None, t} ELSE {lock}

\* A thread is made; it is in no list of threads that was taken before.
Spawn(t) ==
    /\ at[t] = "none" /\ \E u \in Threads : at[u] = "running" /\ Runs(u)
    /\ at' = [at EXCEPT ![t] = "running"]
    /\ UNCHANGED <<stops, lock, data, files, recovery_counts, exit_code>>

\* exception_filter; a harmless error leaves everything as it is.  The thread
\* does not come back to where it was.
Crash(t) ==
    /\ at[t] = "running" /\ Runs(t)
    /\ lock' \in Owners(t)
    /\ \E code \in Codes[t] \ Harmless : data' = [data EXCEPT ![t] = code]
    /\ at' = [at EXCEPT ![t] = "dumping"]
    /\ UNCHANGED <<stops, files, recovery_counts, exit_code>>

\* write_minidump: the name of the file has the second in it, that of the last
\* dump or a later one.  An older file of that name is removed first; whether
\* the archive was written is not looked at.
WriteMinidump(t) ==
    /\ at[t] = "dumping" /\ Runs(t) /\ Free(t)
    /\ \E now \in time .. MaxTime, written \in BOOLEAN :
         /\ time' = now
         /\ second' = [second EXCEPT ![t] = now]
         /\ dumps' = [dumps EXCEPT ![now] = [thread |-> t, whole |-> written]]
    /\ at' = [at EXCEPT ![t] = "reset"]
    /\ UNCHANGED <<stops, lock, data, recovery_counts, exit_code>>

\* reset_state and, in display_error_dialog, get_thread_ids
ResetState(t) ==
    /\ at[t] = "reset" /\ Runs(t) /\ Free(t)
    /\ IF is_recoverable(t)
         THEN /\ recovery_counts' = recovery_counts + 1
              /\ at' = [at EXCEPT ![t] = "running"]
              /\ others' = others
         ELSE /\ recovery_counts' = recovery_counts
              /\ at' = [at EXCEPT ![t] = "suspending"]
              /\ others' = [others EXCEPT ![t] = {u \in Threads : at[u] # "none"} \ {t}]
    /\ UNCHANGED <<asked, suspended, crossed, lock, data, files, exit_code>>

\* SuspendThread, for each of the threads in the list; it does not wait.
Suspend(t) ==
    /\ at[t] = "suspending" /\ Runs(t) /\ others[t] # {}
    /\ \E u \in others[t] :
         /\ asked' = asked \cup {u}
         /\ others' = [others EXCEPT ![t] = @ \ {u}]
    /\ crossed' = (crossed \/ t \in asked)
    /\ UNCHANGED <<at, suspended, lock, data, files, recovery_counts, exit_code>>

\* The system stops a thread that was asked, wherever it is.
Stop(t) ==
    /\ t \in asked /\ Runs(t)
    /\ suspended' = suspended \cup {t}
    /\ lock' \in Owners(t)
    /\ UNCHANGED <<at, asked, others, crossed, data, files, recovery_counts, exit_code>>

\* The list of threads is freed and the message is shown.
Display(t) ==
    /\ at[t] = "suspending" /\ Runs(t) /\ Free(t) /\ others[t] = {}
    /\ at' = [at EXCEPT ![t] = "dialog"]
    /\ UNCHANGED <<stops, lock, data, files, recovery_counts, exit_code>>

\* The user has closed the message: TerminateProcess.
Terminate(t) ==
    /\ at[t] = "dialog" /\ Runs(t)
    /\ exit_code' = data[t]
    /\ UNCHANGED <<at, stops, lock, data, files, recovery_counts>>

BlackboxNext ==
    \E t \in Threads :
        \/ Spawn(t) \/ Crash(t) \/ WriteMinidump(t) \/ ResetState(t) \/ Suspend(t)
        \/ Stop(t) \/ Display(t) \/ Terminate(t)

BlackboxSpec == BlackboxInit /\ [][BlackboxNext]_blackboxVars

------------------------------------------------------------------------------
(* Properties *)

Crashed == {t \in Threads : at[t] \notin {"none", "running"}}

Waiting(t) == at[t] # "running" /\ Allocates(t) /\ ~Free(t)
Frozen(t) == t \in suspended \/ (Waiting(t) /\ lock \in suspended)

\* Threads that crash together suspend each other.  All of them are frozen, and
\* nobody reports, only when one went on suspending although it was asked to
\* stop itself, or when a frozen one holds the heap or the loader.  Otherwise a
\* crashed thread was asked by nobody, and can go on.  Of those that show an
\* error all but one have been asked to stop.
SomebodyReports ==
    exit_code = None =>
      /\ (\A t \in Threads : at[t] # "none" => Frozen(t)) => crossed \/ lock \in suspended
      /\ asked # {} /\ ~crossed => \E t \in Crashed : t \notin asked
      /\ Cardinality({t \in Threads : at[t] = "dialog" /\ t \notin asked}) <= 1

\* A process that ends tells the code of a crash that was shown.  The file of
\* that crash's second is of a thread that crashed in that second, with its own
\* code: of that thread, or of one that replaced its file.  It is whole or not.
\* The game never goes on after a crash.
EndIsExplained ==
    /\ exit_code # None =>
         \E t \in Threads :
            /\ at[t] = "dialog" /\ data[t] = exit_code
            /\ LET file == dumps[second[t]] IN
               file # None /\ second[file.thread] = second[t] /\ data[file.thread] # None
    /\ \A t \in Threads : data[t] # None => at[t] # "running"
===============================================================================
