--------------------------- MODULE SchedulerProofs ---------------------------
(***************************************************************************)
(* Theorems about Scheduler for any tasks, intervals and threads, among    *)
(* them that it implements TaskLifecycle.                                  *)
(***************************************************************************)
EXTENDS Scheduler, SequenceFacts

(* A pipeline whose lists are old (under iteration) and new: its own tasks, *)
(* with the tickets tk of which n are issued, in ascending order.           *)
Ordered(p, old, new, tk, n) ==
    /\ \A i \in 1..Len(old) : Pipe[old[i]] = p /\ tk[old[i]] \in 1..n
    /\ \A i \in 1..Len(new) : Pipe[new[i]] = p /\ tk[new[i]] \in 1..n
    /\ \A i, j \in 1..Len(old) : i < j => tk[old[i]] < tk[old[j]]
    /\ \A i, j \in 1..Len(new) : i < j => tk[new[i]] < tk[new[j]]
    /\ \A i \in 1..Len(old), j \in 1..Len(new) : tk[old[i]] < tk[new[j]]

ListsInv(p) == Ordered(p, callbacks[p], newCallbacks[p], ticket, issued)

(* The pass in progress on pipeline p, if any. *)
PassInv(p) ==
    /\ owner[p] = NoThread => ~inHandler[p]
    /\ owner[p] # NoThread => at[p] \in 1..Len(callbacks[p]) + 1
    /\ inHandler[p] => at[p] \in 1..Len(callbacks[p])
    /\ owner[p] # NoThread =>
          \A i \in 1..Len(callbacks[p]) : i < at[p] => callbacks[p][i] \in visited[p]
    /\ inHandler[p] => callbacks[p][at[p]] \in visited[p]

(* A one-shot task still listed has not been called, or is being called. *)
OnceInv(p) ==
    /\ \A i \in 1..Len(callbacks[p]) :
          callbacks[p][i] \in OneShot =>
              calls[callbacks[p][i]] = IF inHandler[p] /\ i = at[p] THEN 1 ELSE 0
    /\ \A i \in 1..Len(newCallbacks[p]) : calls[newCallbacks[p][i]] = 0

(* The async pipeline is only held by the async thread, between its test of *)
(* kill and the next; pre_destroy returns when that thread is out of reach.  *)
ShutdownInv ==
    /\ owner["async"] # NoThread => async = "execute"
    /\ joined => destroyer # NoThread /\ async \in {"unstarted", "exited"}

IInv ==
    /\ TypeOK
    /\ \A p \in Pipelines : ListsInv(p)
    /\ \A p \in Pipelines : PassInv(p)
    /\ \A p \in Pipelines : OnceInv(p)
    /\ \A t \in Tasks : ticket[t] = 0 => calls[t] = 0
    /\ OnceIsOnce
    /\ NoTaskLost
    /\ ShutdownInv

-----------------------------------------------------------------------------
(* Ordered is kept by submitting, merging and erasing.                     *)

LEMMA OrderedOther ==
    ASSUME NEW p, NEW old \in Seq(Tasks), NEW new \in Seq(Tasks),
           NEW tk \in [Tasks -> Nat], NEW n \in Nat, Ordered(p, old, new, tk, n),
           NEW t \in Tasks, tk[t] = 0
    PROVE  Ordered(p, old, new, [tk EXCEPT ![t] = n + 1], n + 1)
  <1>1. \A i \in 1..Len(old) : old[i] \in Tasks /\ old[i] # t
    BY ElementOfSeq DEF Ordered
  <1>2. \A i \in 1..Len(new) : new[i] \in Tasks /\ new[i] # t
    BY ElementOfSeq DEF Ordered
  <1>3. QED
    <2> DEFINE tk1 == [tk EXCEPT ![t] = n + 1]
    <2>1. \A i \in 1..Len(old) : tk1[old[i]] = tk[old[i]]
      BY <1>1
    <2>2. \A i \in 1..Len(new) : tk1[new[i]] = tk[new[i]]
      BY <1>2
    <2> HIDE DEF tk1
    <2>3. \A m \in 1..n : m \in 1..n + 1
      OBVIOUS
    <2>4. Ordered(p, old, new, tk1, n + 1)
      BY <2>1, <2>2, <2>3 DEF Ordered
    <2>5. QED
      BY <2>4 DEF tk1

LEMMA OrderedAppend ==
    ASSUME NEW p, NEW old \in Seq(Tasks), NEW new \in Seq(Tasks),
           NEW tk \in [Tasks -> Nat], NEW n \in Nat, Ordered(p, old, new, tk, n),
           NEW t \in Tasks, tk[t] = 0, Pipe[t] = p
    PROVE  Ordered(p, old, Append(new, t), [tk EXCEPT ![t] = n + 1], n + 1)
  <1> DEFINE new1 == Append(new, t)
             tk1  == [tk EXCEPT ![t] = n + 1]
  <1>1. /\ Len(new) \in Nat /\ Len(new1) = Len(new) + 1
        /\ \A i \in 1..Len(new) : new1[i] = new[i]
        /\ new1[Len(new) + 1] = t
    BY AppendFacts, LenProperties
  <1>2. tk1[t] = n + 1 /\ \A u \in Tasks : u # t => tk1[u] = tk[u]
    OBVIOUS
  <1>3. Ordered(p, old, new, tk1, n + 1)
    BY OrderedOther
  <1>4. \A i \in 1..Len(old) : old[i] \in Tasks /\ tk[old[i]] \in 1..n /\ old[i] # t
    BY ElementOfSeq DEF Ordered
  <1>5. \A i \in 1..Len(new) : new[i] \in Tasks /\ tk[new[i]] \in 1..n /\ new[i] # t
    BY ElementOfSeq DEF Ordered
  <1> HIDE DEF new1, tk1
  <1>6. \A i \in 1..Len(new1) : i \in 1..Len(new) \/ i = Len(new) + 1
    BY <1>1
  <1>7. \A i \in 1..Len(new) : tk1[new1[i]] = tk[new[i]] /\ Pipe[new1[i]] = p
    BY <1>1, <1>2, <1>5 DEF Ordered
  <1>8. \A i \in 1..Len(old) : tk1[old[i]] = tk[old[i]]
    BY <1>2, <1>4
  <1>9. \A i \in 1..Len(new1) : Pipe[new1[i]] = p /\ tk1[new1[i]] \in 1..n + 1
    <2> TAKE i \in 1..Len(new1)
    <2>1. CASE i \in 1..Len(new)
      BY <2>1, <1>5, <1>7
    <2>2. CASE i = Len(new) + 1
      BY <2>2, <1>1, <1>2
    <2>3. QED
      BY <2>1, <2>2, <1>6
  <1>10. \A i, j \in 1..Len(new1) : i < j => tk1[new1[i]] < tk1[new1[j]]
    <2> SUFFICES ASSUME NEW i \in 1..Len(new1), NEW j \in 1..Len(new1), i < j
                 PROVE  tk1[new1[i]] < tk1[new1[j]]
      OBVIOUS
    <2>1. i \in 1..Len(new)
      BY <1>1
    <2>2. CASE j \in 1..Len(new)
      BY <2>1, <2>2, <1>7 DEF Ordered
    <2>3. CASE j = Len(new) + 1
      <3>1. tk1[new1[j]] = n + 1
        BY <2>3, <1>1, <1>2
      <3>2. tk1[new1[i]] \in 1..n
        BY <2>1, <1>5, <1>7
      <3>3. QED
        BY <3>1, <3>2
    <2>4. QED
      BY <2>2, <2>3, <1>6
  <1>11. \A i \in 1..Len(old), j \in 1..Len(new1) : tk1[old[i]] < tk1[new1[j]]
    <2> TAKE i \in 1..Len(old), j \in 1..Len(new1)
    <2>1. CASE j \in 1..Len(new)
      BY <2>1, <1>7, <1>8 DEF Ordered
    <2>2. CASE j = Len(new) + 1
      <3>1. tk1[new1[j]] = n + 1
        BY <2>2, <1>1, <1>2
      <3>2. tk1[old[i]] \in 1..n
        BY <1>4, <1>8
      <3>3. QED
        BY <3>1, <3>2
    <2>3. QED
      BY <2>1, <2>2, <1>6
  <1>12. QED
    BY <1>3, <1>9, <1>10, <1>11 DEF Ordered, new1, tk1

LEMMA OrderedMerge ==
    ASSUME NEW p, NEW old \in Seq(Tasks), NEW new \in Seq(Tasks),
           NEW tk \in [Tasks -> Nat], NEW n \in Nat, Ordered(p, old, new, tk, n)
    PROVE  Ordered(p, old \o new, <<>>, tk, n)
  <1> DEFINE both == old \o new
  <1>1. /\ Len(old) \in Nat /\ Len(new) \in Nat
        /\ \A i \in 1..Len(old) : both[i] = old[i]
    BY ConcatFacts
  <1>2. \A i \in 1..Len(both) :
          \/ i \in 1..Len(old) /\ both[i] = old[i]
          \/ i - Len(old) \in 1..Len(new) /\ both[i] = new[i - Len(old)]
    BY ConcatFacts
  <1> HIDE DEF both
  <1>3. \A i \in 1..Len(both) : Pipe[both[i]] = p /\ tk[both[i]] \in 1..n
    BY <1>2 DEF Ordered
  <1>4. \A i, j \in 1..Len(both) : i < j => tk[both[i]] < tk[both[j]]
    <2> SUFFICES ASSUME NEW i \in 1..Len(both), NEW j \in 1..Len(both), i < j
                 PROVE  tk[both[i]] < tk[both[j]]
      OBVIOUS
    <2>1. CASE j \in 1..Len(old) /\ both[j] = old[j]
      <3>1. i \in 1..Len(old) /\ both[i] = old[i]
        BY <2>1, <1>1
      <3>2. QED
        BY <2>1, <3>1 DEF Ordered
    <2>2. CASE j - Len(old) \in 1..Len(new) /\ both[j] = new[j - Len(old)]
      <3>1. CASE i \in 1..Len(old) /\ both[i] = old[i]
        BY <2>2, <3>1 DEF Ordered
      <3>2. CASE i - Len(old) \in 1..Len(new) /\ both[i] = new[i - Len(old)]
        <4>1. i - Len(old) < j - Len(old)
          BY <2>2, <3>2, <1>1
        <4>2. \A a, b \in 1..Len(new) : a < b => tk[new[a]] < tk[new[b]]
          BY DEF Ordered
        <4>3. tk[new[i - Len(old)]] < tk[new[j - Len(old)]]
          BY <2>2, <3>2, <4>1, <4>2, Zenon
        <4>4. QED
          BY <2>2, <3>2, <4>3, Zenon
      <3>3. QED
        BY <3>1, <3>2, <1>2
    <2>3. QED
      BY <2>1, <2>2, <1>2
  <1>5. Len(<<>>) = 0
    BY EmptySeq
  <1>6. Ordered(p, both, <<>>, tk, n)
    BY <1>3, <1>4, <1>5 DEF Ordered
  <1>7. QED
    BY <1>6 DEF both

LEMMA OrderedErase ==
    ASSUME NEW p, NEW old \in Seq(Tasks), NEW new \in Seq(Tasks),
           NEW tk \in [Tasks -> Nat], NEW n \in Nat, Ordered(p, old, new, tk, n),
           NEW i \in 1..Len(old)
    PROVE  Ordered(p, RemoveAt(old, i), new, tk, n)
  <1> DEFINE rest == RemoveAt(old, i)
             k(j) == IF j < i THEN j ELSE j + 1
  <1>1. /\ Len(old) \in Nat /\ Len(rest) = Len(old) - 1
        /\ \A j \in 1..Len(old) - 1 : rest[j] = IF j < i THEN old[j] ELSE old[j + 1]
    BY RemoveAtProperties, LenProperties
  <1> HIDE DEF rest
  <1>2. \A j \in 1..Len(rest) : k(j) \in 1..Len(old) /\ rest[j] = old[k(j)]
    BY <1>1
  <1>3. \A j, m \in 1..Len(rest) : j < m => k(j) < k(m)
    BY <1>1
  <1> HIDE DEF k
  <1>4. \A j \in 1..Len(rest) : Pipe[rest[j]] = p /\ tk[rest[j]] \in 1..n
    <2> TAKE j \in 1..Len(rest)
    <2>1. \A m \in 1..Len(old) : Pipe[old[m]] = p /\ tk[old[m]] \in 1..n
      BY Zenon DEF Ordered
    <2>2. QED
      BY <2>1, <1>2, Zenon
  <1>5. \A j, m \in 1..Len(rest) : j < m => tk[rest[j]] < tk[rest[m]]
    BY <1>2, <1>3 DEF Ordered
  <1>6. \A j \in 1..Len(rest), m \in 1..Len(new) : tk[rest[j]] < tk[new[m]]
    BY <1>2 DEF Ordered
  <1>7. Ordered(p, rest, new, tk, n)
    BY <1>4, <1>5, <1>6 DEF Ordered
  <1>8. QED
    BY <1>7 DEF rest

-----------------------------------------------------------------------------
(* The inductive invariant: it holds initially and every action keeps it.  *)

LEMMA InitIInv == Init => IInv
  <1> SUFFICES ASSUME Init PROVE IInv
    OBVIOUS
  <1> USE SchedulerAssumption DEF Init
  <1>1. TypeOK
    <2>1. callbacks \in [Pipelines -> Seq(Tasks)] /\ newCallbacks \in [Pipelines -> Seq(Tasks)]
      BY EmptySeq
    <2>2. owner \in [Pipelines -> Threads \cup {NoThread}] /\ at \in [Pipelines -> Nat]
      OBVIOUS
    <2>3. inHandler \in [Pipelines -> BOOLEAN] /\ visited \in [Pipelines -> SUBSET Tasks]
      OBVIOUS
    <2>4. wait \in [Tasks -> Nat] /\ ticket \in [Tasks -> Nat] /\ calls \in [Tasks -> 0..2]
      OBVIOUS
    <2>5. QED
      BY <2>1, <2>2, <2>3, <2>4 DEF TypeOK
  <1>2. \A p \in Pipelines : ListsInv(p) /\ PassInv(p) /\ OnceInv(p)
    BY DEF ListsInv, PassInv, OnceInv, Ordered
  <1>3. OnceIsOnce /\ NoTaskLost /\ ShutdownInv /\ \A t \in Tasks : ticket[t] = 0 => calls[t] = 0
    BY DEF OnceIsOnce, NoTaskLost, ShutdownInv, Pipelines
  <1>4. QED
    BY <1>1, <1>2, <1>3 DEF IInv

(* What the type invariant says of the lists of one pipeline. *)
LEMMA ListTypes ==
    ASSUME TypeOK, NEW p \in Pipelines
    PROVE  /\ callbacks[p] \in Seq(Tasks) /\ newCallbacks[p] \in Seq(Tasks)
           /\ DOMAIN callbacks[p] = 1..Len(callbacks[p]) /\ Len(callbacks[p]) \in Nat
           /\ DOMAIN newCallbacks[p] = 1..Len(newCallbacks[p]) /\ Len(newCallbacks[p]) \in Nat
           /\ \A i \in 1..Len(callbacks[p]) : callbacks[p][i] \in Tasks
           /\ \A i \in 1..Len(newCallbacks[p]) : newCallbacks[p][i] \in Tasks
  <1>1. callbacks[p] \in Seq(Tasks) /\ newCallbacks[p] \in Seq(Tasks)
    BY DEF TypeOK
  <1>2. QED
    BY <1>1, LenProperties, ElementOfSeq

LEMMA ScheduleIInv ==
    ASSUME IInv, NEW th \in Threads, NEW t \in Tasks, Schedule(th, t)
    PROVE  IInv'
  <1> DEFINE q == Pipe[t]
  <1> USE SchedulerAssumption
  <1>1. TypeOK /\ q \in Pipelines /\ ticket[t] = 0
    BY DEF IInv, Schedule
  <1>2. /\ callbacks' = callbacks /\ calls' = calls /\ issued' = issued + 1
        /\ ticket' = [ticket EXCEPT ![t] = issued + 1]
        /\ newCallbacks' = [newCallbacks EXCEPT ![q] = Append(newCallbacks[q], t)]
    BY DEF Schedule
  <1>3. /\ owner' = owner /\ at' = at /\ inHandler' = inHandler /\ visited' = visited
        /\ async' = async /\ joined' = joined /\ destroyer' = destroyer
    BY DEF Schedule, pass, life
  <1>4. Append(newCallbacks[q], t) \in Seq(Tasks)
    BY <1>1, ListTypes, AppendFacts
  <1>5. TypeOK'
    <2>1. newCallbacks' \in [Pipelines -> Seq(Tasks)]
      BY <1>1, <1>2, <1>4 DEF TypeOK
    <2>2. ticket' \in [Tasks -> Nat] /\ issued' \in Nat
      BY <1>1, <1>2 DEF TypeOK
    <2>3. wait' \in [Tasks -> Nat]
      BY <1>1 DEF TypeOK, Schedule
    <2>4. hooked' = hooked /\ kill' = kill
      BY DEF Schedule, life
    <2>5. QED
      BY <1>1, <1>2, <1>3, <2>1, <2>2, <2>3, <2>4 DEF TypeOK
  <1>6. ASSUME NEW p \in Pipelines
        PROVE  ListsInv(p)' /\ PassInv(p)' /\ OnceInv(p)'
    <2>1. /\ Ordered(p, callbacks[p], newCallbacks[p], ticket, issued)
          /\ PassInv(p) /\ OnceInv(p) /\ calls[t] = 0
      BY <1>1 DEF IInv, ListsInv
    <2>2. /\ callbacks[p] \in Seq(Tasks) /\ newCallbacks[p] \in Seq(Tasks)
          /\ ticket \in [Tasks -> Nat] /\ issued \in Nat /\ newCallbacks \in [Pipelines -> Seq(Tasks)]
      BY <1>1, ListTypes DEF TypeOK
    <2>3. CASE p = q
      <3>1. newCallbacks'[p] = Append(newCallbacks[p], t)
        BY <2>2, <2>3, <1>1, <1>2
      <3>2. ListsInv(p)'
        BY <2>1, <2>2, <2>3, <3>1, <1>1, <1>2, OrderedAppend DEF ListsInv
      <3>3. OnceInv(p)'
        <4> DEFINE new  == newCallbacks[p]
                   new1 == Append(new, t)
        <4>1. \A i \in 1..Len(new) : calls[new[i]] = 0
          BY <2>1 DEF OnceInv
        <4>2. /\ Len(new) \in Nat /\ Len(new1) = Len(new) + 1
              /\ \A i \in 1..Len(new) : new1[i] = new[i]
              /\ new1[Len(new) + 1] = t
          BY <2>2, <1>1, AppendFacts, LenProperties
        <4> HIDE DEF new, new1
        <4>3. \A i \in 1..Len(new1) : i \in 1..Len(new) \/ i = Len(new) + 1
          BY <4>2
        <4>4. \A i \in 1..Len(new1) : calls[new1[i]] = 0
          BY <2>1, <4>1, <4>2, <4>3
        <4>5. calls' = calls /\ callbacks' = callbacks /\ newCallbacks'[p] = new1
          BY <3>1, <1>2 DEF new, new1
        <4>6. QED
          BY <2>1, <4>4, <4>5, <1>3 DEF OnceInv
      <3>4. QED
        BY <2>1, <3>2, <3>3, <1>2, <1>3 DEF PassInv
    <2>4. CASE p # q
      <3>1. newCallbacks'[p] = newCallbacks[p]
        BY <2>2, <2>4, <1>1, <1>2
      <3>2. ListsInv(p)'
        BY <2>1, <2>2, <3>1, <1>1, <1>2, OrderedOther DEF ListsInv
      <3>3. QED
        BY <2>1, <3>1, <3>2, <1>2, <1>3 DEF PassInv, OnceInv
    <2>5. QED
      BY <2>3, <2>4
  <1>7. (\A u \in Tasks : ticket[u] = 0 => calls[u] = 0)'
    BY <1>1, <1>2 DEF IInv, TypeOK
  <1>8. NoTaskLost'
    <2> SUFFICES ASSUME NEW u \in Tasks, ticket'[u] > 0
                 PROVE  \/ Holds(Pipe[u], u)' \/ Queued(Pipe[u], u)'
                        \/ u \in OneShot /\ calls'[u] = 1
      BY DEF NoTaskLost
    <2>1. /\ newCallbacks \in [Pipelines -> Seq(Tasks)] /\ newCallbacks[q] \in Seq(Tasks)
          /\ Pipe[u] \in Pipelines
      BY <1>1, ListTypes DEF TypeOK
    <2>2. newCallbacks'[q] = Append(newCallbacks[q], t)
      BY <2>1, <1>1, <1>2
    <2>3. CASE u = t
      <3>1. Len(newCallbacks[q]) + 1 \in DOMAIN newCallbacks'[q]
        BY <2>1, <2>2, AppendFacts, DomainOfSeq
      <3>2. newCallbacks'[q][Len(newCallbacks[q]) + 1] = t
        BY <2>1, <2>2, AppendFacts
      <3>3. QED
        BY <2>3, <3>1, <3>2 DEF Queued
    <2>4. CASE u # t
      <3>1. Holds(Pipe[u], u) \/ Queued(Pipe[u], u) \/ (u \in OneShot /\ calls[u] = 1)
        BY <2>4, <1>1, <1>2 DEF IInv, NoTaskLost, TypeOK
      <3>2. ASSUME Queued(Pipe[u], u) PROVE Queued(Pipe[u], u)'
        <4>1. CASE Pipe[u] = q
          <5>1. PICK i \in DOMAIN newCallbacks[q] : newCallbacks[q][i] = u
            BY <3>2, <4>1 DEF Queued
          <5>2. i \in DOMAIN newCallbacks'[q] /\ newCallbacks'[q][i] = u
            BY <2>1, <2>2, <5>1, AppendFacts, DomainOfSeq
          <5>3. QED
            BY <4>1, <5>2 DEF Queued
        <4>2. CASE Pipe[u] # q
          BY <3>2, <4>2, <2>1, <1>1, <1>2 DEF Queued
        <4>3. QED
          BY <4>1, <4>2
      <3>3. QED
        BY <3>1, <3>2, <1>2 DEF Holds
    <2>5. QED
      BY <2>3, <2>4
  <1>9. OnceIsOnce' /\ ShutdownInv'
    BY <1>2, <1>3 DEF IInv, OnceIsOnce, ShutdownInv
  <1>10. QED
    BY <1>5, <1>6, <1>7, <1>8, <1>9 DEF IInv

LEMMA BeginPassIInv ==
    ASSUME IInv, NEW th \in Threads, NEW q \in Pipelines, BeginPass(th, q)
    PROVE  IInv'
  <1> USE SchedulerAssumption
  <1>1. TypeOK /\ owner[q] = NoThread /\ ~inHandler[q] /\ th \in Threads
    BY DEF IInv, BeginPass, PassInv
  <1>2. /\ callbacks' = [callbacks EXCEPT ![q] = callbacks[q] \o newCallbacks[q]]
        /\ newCallbacks' = [newCallbacks EXCEPT ![q] = <<>>]
        /\ owner' = [owner EXCEPT ![q] = th]
        /\ at' = [at EXCEPT ![q] = 1]
        /\ visited' = [visited EXCEPT ![q] = {}]
    BY DEF BeginPass, Merged
  <1>3. /\ ticket' = ticket /\ issued' = issued /\ calls' = calls /\ inHandler' = inHandler
        /\ async' = async /\ joined' = joined /\ destroyer' = destroyer
        /\ wait' = wait /\ hooked' = hooked /\ kill' = kill
    BY DEF BeginPass, life
  <1>4. callbacks[q] \o newCallbacks[q] \in Seq(Tasks) /\ <<>> \in Seq(Tasks)
    BY <1>1, ListTypes, ConcatFacts, EmptySeq
  <1>5. TypeOK'
    <2>1. callbacks' \in [Pipelines -> Seq(Tasks)] /\ newCallbacks' \in [Pipelines -> Seq(Tasks)]
      BY <1>1, <1>2, <1>4 DEF TypeOK
    <2>2. owner' \in [Pipelines -> Threads \cup {NoThread}] /\ at' \in [Pipelines -> Nat]
      BY <1>1, <1>2 DEF TypeOK
    <2>3. visited' \in [Pipelines -> SUBSET Tasks]
      BY <1>1, <1>2 DEF TypeOK
    <2>4. QED
      BY <1>1, <1>3, <2>1, <2>2, <2>3 DEF TypeOK
  <1>6. /\ callbacks'[q] = callbacks[q] \o newCallbacks[q] /\ newCallbacks'[q] = <<>>
        /\ owner'[q] = th /\ at'[q] = 1
        /\ \A p \in Pipelines : p # q =>
              /\ callbacks'[p] = callbacks[p] /\ newCallbacks'[p] = newCallbacks[p]
              /\ owner'[p] = owner[p] /\ at'[p] = at[p] /\ visited'[p] = visited[p]
    BY <1>1, <1>2 DEF TypeOK
  <1>7. /\ callbacks[q] \in Seq(Tasks) /\ newCallbacks[q] \in Seq(Tasks)
        /\ Len(callbacks'[q]) \in Nat
        /\ \A j \in 1..Len(callbacks[q]) :
              j \in 1..Len(callbacks'[q]) /\ callbacks'[q][j] = callbacks[q][j]
        /\ \A j \in 1..Len(newCallbacks[q]) :
              /\ Len(callbacks[q]) + j \in 1..Len(callbacks'[q])
              /\ callbacks'[q][Len(callbacks[q]) + j] = newCallbacks[q][j]
        /\ \A j \in 1..Len(callbacks'[q]) :
              \/ j \in 1..Len(callbacks[q]) /\ callbacks'[q][j] = callbacks[q][j]
              \/ /\ j - Len(callbacks[q]) \in 1..Len(newCallbacks[q])
                 /\ callbacks'[q][j] = newCallbacks[q][j - Len(callbacks[q])]
    <2>1. callbacks[q] \in Seq(Tasks) /\ newCallbacks[q] \in Seq(Tasks)
      BY <1>1, ListTypes
    <2>2. Len(callbacks'[q]) \in Nat
      BY <1>4, <1>6, LenProperties
    <2> DEFINE old == callbacks[q]
               new == newCallbacks[q]
    <2>3. callbacks'[q] = old \o new
      BY <1>6
    <2>4. /\ \A j \in 1..Len(old) : j \in 1..Len(old \o new) /\ (old \o new)[j] = old[j]
          /\ \A j \in 1..Len(new) :
                /\ Len(old) + j \in 1..Len(old \o new)
                /\ (old \o new)[Len(old) + j] = new[j]
          /\ \A j \in 1..Len(old \o new) :
                \/ j \in 1..Len(old) /\ (old \o new)[j] = old[j]
                \/ j - Len(old) \in 1..Len(new) /\ (old \o new)[j] = new[j - Len(old)]
      <3> HIDE DEF old, new
      <3>1. old \in Seq(Tasks) /\ new \in Seq(Tasks)
        BY <2>1 DEF old, new
      <3>2. \A j \in 1..Len(old) : j \in 1..Len(old \o new) /\ (old \o new)[j] = old[j]
        BY <3>1, ConcatFacts
      <3>3. \A j \in 1..Len(new) : /\ Len(old) + j \in 1..Len(old \o new)
                                   /\ (old \o new)[Len(old) + j] = new[j]
        BY <3>1, ConcatFacts
      <3>4. \A j \in 1..Len(old \o new) :
               \/ j \in 1..Len(old) /\ (old \o new)[j] = old[j]
               \/ j - Len(old) \in 1..Len(new) /\ (old \o new)[j] = new[j - Len(old)]
        BY <3>1, ConcatFacts
      <3>5. QED
        BY <3>2, <3>3, <3>4, Zenon
    <2>5. QED
      BY <2>1, <2>2, <2>3, <2>4, Zenon
  <1>8. ASSUME NEW p \in Pipelines
        PROVE  ListsInv(p)' /\ PassInv(p)' /\ OnceInv(p)'
    <2>1. ListsInv(p) /\ PassInv(p) /\ OnceInv(p)
      BY DEF IInv
    <2>2. CASE p # q
      <3>1. ListsInv(p)'
        BY <2>1, <2>2, <1>3, <1>6 DEF ListsInv
      <3>2. PassInv(p)'
        BY <2>1, <2>2, <1>3, <1>6 DEF PassInv
      <3>3. OnceInv(p)'
        BY <2>1, <2>2, <1>3, <1>6 DEF OnceInv
      <3>4. QED
        BY <3>1, <3>2, <3>3
    <2>3. CASE p = q
      <3>1. ticket \in [Tasks -> Nat] /\ issued \in Nat
        BY <1>1 DEF TypeOK
      <3>2. ListsInv(p)'
        BY <2>1, <2>3, <3>1, <1>3, <1>6, <1>7, OrderedMerge DEF ListsInv
      <3>3. PassInv(p)'
        <4>1. owner'[p] = th /\ at'[p] = 1 /\ ~inHandler'[p] /\ Len(callbacks'[p]) \in Nat
          BY <2>3, <1>1, <1>3, <1>6, <1>7
        <4>2. th # NoThread
          BY <1>1
        <4>3. QED
          BY <4>1, <4>2 DEF PassInv
      <3>4. \A i \in 1..Len(callbacks'[q]) :
               callbacks'[q][i] \in OneShot => calls[callbacks'[q][i]] = 0
        <4> TAKE i \in 1..Len(callbacks'[q])
        <4>1. CASE i \in 1..Len(callbacks[q]) /\ callbacks'[q][i] = callbacks[q][i]
          BY <2>1, <2>3, <4>1, <1>1 DEF OnceInv
        <4>2. CASE /\ i - Len(callbacks[q]) \in 1..Len(newCallbacks[q])
                   /\ callbacks'[q][i] = newCallbacks[q][i - Len(callbacks[q])]
          <5>1. \A j \in 1..Len(newCallbacks[q]) : calls[newCallbacks[q][j]] = 0
            BY <2>1, <2>3 DEF OnceInv
          <5>2. QED
            BY <4>2, <5>1, Zenon
        <4>3. QED
          BY <4>1, <4>2, <1>7
      <3>5. OnceInv(p)'
        <4>1. Len(newCallbacks'[p]) = 0
          BY <2>3, <1>6, EmptySeq
        <4>2. QED
          BY <2>3, <3>4, <4>1, <1>1, <1>3 DEF OnceInv
      <3>6. QED
        BY <3>2, <3>3, <3>5
    <2>4. QED
      BY <2>2, <2>3
  <1>9. NoTaskLost'
    <2> SUFFICES ASSUME NEW u \in Tasks, ticket'[u] > 0
                 PROVE  \/ Holds(Pipe[u], u)' \/ Queued(Pipe[u], u)'
                        \/ u \in OneShot /\ calls'[u] = 1
      BY DEF NoTaskLost
    <2>1. Holds(Pipe[u], u) \/ Queued(Pipe[u], u) \/ (u \in OneShot /\ calls[u] = 1)
      BY <1>3 DEF IInv, NoTaskLost
    <2>2. CASE Pipe[u] = q
      <3>1. DOMAIN callbacks'[q] = 1..Len(callbacks'[q]) /\ callbacks'[q] \in Seq(Tasks)
        BY <1>4, <1>6, DomainOfSeq
      <3>2. ASSUME Holds(q, u) PROVE Holds(q, u)'
        <4>1. PICK i \in 1..Len(callbacks[q]) : callbacks[q][i] = u
          BY <3>2, <1>7, DomainOfSeq DEF Holds
        <4>2. i \in DOMAIN callbacks'[q] /\ callbacks'[q][i] = u
          BY <3>1, <4>1, <1>7
        <4>3. QED
          BY <4>2 DEF Holds
      <3>3. ASSUME Queued(q, u) PROVE Holds(q, u)'
        <4>1. PICK i \in 1..Len(newCallbacks[q]) : newCallbacks[q][i] = u
          BY <3>3, <1>7, DomainOfSeq DEF Queued
        <4>2. /\ Len(callbacks[q]) + i \in DOMAIN callbacks'[q]
              /\ callbacks'[q][Len(callbacks[q]) + i] = u
          BY <3>1, <4>1, <1>7
        <4>3. QED
          BY <4>2 DEF Holds
      <3>4. QED
        BY <2>1, <2>2, <3>2, <3>3, <1>3
    <2>3. CASE Pipe[u] # q
      BY <2>1, <2>3, <1>3, <1>6 DEF Holds, Queued
    <2>4. QED
      BY <2>2, <2>3
  <1>10. ShutdownInv'
    <2>1. q = "async" => async = "execute"
      BY DEF BeginPass, CanExecute
    <2>2. "async" # q => owner'["async"] = owner["async"]
      BY <1>6 DEF Pipelines
    <2>3. QED
      BY <2>1, <2>2, <1>3 DEF IInv, ShutdownInv
  <1>11. OnceIsOnce' /\ (\A t \in Tasks : ticket[t] = 0 => calls[t] = 0)'
    BY <1>3 DEF IInv, OnceIsOnce
  <1>12. QED
    BY <1>5, <1>8, <1>9, <1>10, <1>11 DEF IInv

LEMMA HandlerReturnsIInv ==
    ASSUME IInv, NEW q \in Pipelines, HandlerReturns(q)
    PROVE  IInv'
  <1> DEFINE t == callbacks[q][at[q]]
  <1> USE SchedulerAssumption
  <1>1. TypeOK /\ ListsInv(q) /\ PassInv(q) /\ OnceInv(q) /\ inHandler[q]
    BY DEF IInv, HandlerReturns
  <1>2. /\ callbacks' = [callbacks EXCEPT ![q] = IF t \in OneShot THEN RemoveAt(@, at[q]) ELSE @]
        /\ at' = [at EXCEPT ![q] = IF t \in OneShot THEN @ ELSE @ + 1]
        /\ inHandler' = [inHandler EXCEPT ![q] = FALSE]
    BY DEF HandlerReturns, ListAfter, IndexAfter, Current
  <1>3. /\ ticket' = ticket /\ issued' = issued /\ calls' = calls /\ newCallbacks' = newCallbacks
        /\ async' = async /\ joined' = joined /\ destroyer' = destroyer /\ owner' = owner
        /\ wait' = wait /\ hooked' = hooked /\ kill' = kill /\ visited' = visited
    BY DEF HandlerReturns, life
  <1>4. /\ callbacks[q] \in Seq(Tasks) /\ newCallbacks[q] \in Seq(Tasks)
        /\ Len(callbacks[q]) \in Nat /\ at[q] \in 1..Len(callbacks[q])
        /\ t \in Tasks /\ ticket \in [Tasks -> Nat] /\ issued \in Nat
    BY <1>1, ListTypes DEF PassInv, TypeOK
  <1> DEFINE rest == RemoveAt(callbacks[q], at[q])
  <1>5. /\ rest \in Seq(Tasks) /\ Len(rest) = Len(callbacks[q]) - 1
        /\ \A j \in 1..Len(rest) :
              \/ j < at[q] /\ rest[j] = callbacks[q][j]
              \/ j >= at[q] /\ j + 1 \in 1..Len(callbacks[q]) /\ rest[j] = callbacks[q][j + 1]
        /\ \A k \in 1..Len(callbacks[q]) :
              k # at[q] => \E j \in 1..Len(rest) : rest[j] = callbacks[q][k]
    <2> DEFINE s == callbacks[q]
               i == at[q]
    <2> HIDE DEF s, i
    <2>1. s \in Seq(Tasks) /\ i \in 1..Len(s)
      BY <1>4 DEF s, i
    <2>2. /\ RemoveAt(s, i) \in Seq(Tasks) /\ Len(RemoveAt(s, i)) = Len(s) - 1
          /\ \A j \in 1..Len(RemoveAt(s, i)) :
                \/ j < i /\ RemoveAt(s, i)[j] = s[j]
                \/ j >= i /\ j + 1 \in 1..Len(s) /\ RemoveAt(s, i)[j] = s[j + 1]
          /\ \A k \in 1..Len(s) :
                k # i => \E j \in 1..Len(RemoveAt(s, i)) : RemoveAt(s, i)[j] = s[k]
      <3>1. RemoveAt(s, i) \in Seq(Tasks) /\ Len(RemoveAt(s, i)) = Len(s) - 1
        BY <2>1, EraseFacts, Zenon
      <3>2. \A j \in 1..Len(RemoveAt(s, i)) :
                \/ j < i /\ RemoveAt(s, i)[j] = s[j]
                \/ j >= i /\ j + 1 \in 1..Len(s) /\ RemoveAt(s, i)[j] = s[j + 1]
        BY <2>1, EraseFacts, Zenon
      <3>3. \A k \in 1..Len(s) :
                k # i => \E j \in 1..Len(RemoveAt(s, i)) : RemoveAt(s, i)[j] = s[k]
        BY <2>1, EraseFacts, Zenon
      <3>4. QED
        BY <3>1, <3>2, <3>3, Zenon
    <2>3. QED
      BY <2>2, Zenon DEF s, i
  <1>6. TypeOK'
    <2>1. callbacks' \in [Pipelines -> Seq(Tasks)]
      BY <1>1, <1>2, <1>4, <1>5 DEF TypeOK
    <2>2. at' \in [Pipelines -> Nat]
      BY <1>1, <1>2 DEF TypeOK
    <2>3. inHandler' \in [Pipelines -> BOOLEAN]
      BY <1>1, <1>2 DEF TypeOK
    <2>4. QED
      BY <1>1, <1>3, <2>1, <2>2, <2>3 DEF TypeOK
  <1>7. /\ callbacks'[q] = IF t \in OneShot THEN RemoveAt(callbacks[q], at[q]) ELSE callbacks[q]
        /\ at'[q] = IF t \in OneShot THEN at[q] ELSE at[q] + 1
        /\ ~inHandler'[q]
        /\ \A p \in Pipelines : p # q => /\ callbacks'[p] = callbacks[p]
                                        /\ at'[p] = at[p]
                                        /\ inHandler'[p] = inHandler[p]
    BY <1>1, <1>2 DEF TypeOK
  <1>8. ASSUME NEW p \in Pipelines
        PROVE  ListsInv(p)' /\ PassInv(p)' /\ OnceInv(p)'
    <2>1. ListsInv(p) /\ PassInv(p) /\ OnceInv(p)
      BY DEF IInv
    <2>2. CASE p # q
      <3>1. ListsInv(p)'
        BY <2>1, <2>2, <1>3, <1>7 DEF ListsInv
      <3>2. PassInv(p)'
        BY <2>1, <2>2, <1>3, <1>7 DEF PassInv
      <3>3. OnceInv(p)'
        BY <2>1, <2>2, <1>3, <1>7 DEF OnceInv
      <3>4. QED
        BY <3>1, <3>2, <3>3
    <2>3. CASE p = q /\ t \in OneShot
      <3>1. callbacks'[p] = RemoveAt(callbacks[p], at[p]) /\ at'[p] = at[p] /\ ~inHandler'[p]
        BY <2>3, <1>7
      <3>2. ListsInv(p)'
        BY <2>1, <2>3, <3>1, <1>3, <1>4, OrderedErase DEF ListsInv
      <3> HIDE DEF rest
      <3>3. callbacks'[p] = rest
        BY <2>3, <3>1 DEF rest
      <3>4. PassInv(p)'
        <4>1. at'[p] \in 1..Len(callbacks'[p]) + 1
          BY <2>3, <3>1, <3>3, <1>4, <1>5
        <4>2. ASSUME NEW i \in 1..Len(rest), i < at[q]
              PROVE  rest[i] \in visited[q]
          <5>1. rest[i] = callbacks[q][i] /\ i \in 1..Len(callbacks[q])
            <6>1. ~(i >= at[q]) /\ i \in 1..Len(callbacks[q])
              BY <4>2, <1>4
            <6>2. QED
              BY <6>1, <1>5, Zenon
          <5>2. owner[q] # NoThread
            BY <1>1 DEF PassInv
          <5>3. QED
            BY <4>2, <5>1, <5>2, <1>1 DEF PassInv
        <4>3. QED
          BY <2>3, <3>1, <3>3, <4>1, <4>2, <1>3 DEF PassInv
      <3>5. OnceInv(p)'
        <4>1. ASSUME NEW i \in 1..Len(rest)
              PROVE  \E k \in 1..Len(callbacks[q]) : k # at[q] /\ rest[i] = callbacks[q][k]
          <5>1. CASE i < at[q] /\ rest[i] = callbacks[q][i]
            <6>1. i \in 1..Len(callbacks[q]) /\ i # at[q]
              <7> DEFINE m == at[q]
                         n == Len(callbacks[q])
              <7>1. m \in 1..n /\ n \in Nat /\ Len(rest) = n - 1 /\ i < m
                BY <5>1, <1>4, <1>5, Zenon
              <7> HIDE DEF m, n
              <7>2. i \in 1..n /\ i # m
                BY <7>1
              <7>3. QED
                BY <7>2 DEF m, n
            <6>2. QED
              BY <5>1, <6>1
          <5>2. CASE /\ i >= at[q] /\ i + 1 \in 1..Len(callbacks[q])
                     /\ rest[i] = callbacks[q][i + 1]
            <6>1. i + 1 # at[q]
              BY <5>2, <1>4
            <6>2. QED
              BY <5>2, <6>1
          <5>3. QED
            BY <5>1, <5>2, <1>5
        <4>2. \A i \in 1..Len(rest) : rest[i] \in OneShot => calls[rest[i]] = 0
          BY <4>1, <1>1 DEF OnceInv
        <4>3. QED
          BY <2>1, <2>3, <3>1, <3>3, <4>2, <1>3 DEF OnceInv
      <3>6. QED
        BY <3>2, <3>4, <3>5
    <2>4. CASE p = q /\ t \notin OneShot
      <3>1. callbacks'[p] = callbacks[p] /\ at'[p] = at[p] + 1 /\ ~inHandler'[p]
        BY <2>4, <1>7
      <3>2. PassInv(p)'
        <4>1. at'[p] \in 1..Len(callbacks'[p]) + 1
          <5>1. \A n \in Nat : \A m \in 1..n : m + 1 \in 1..n + 1
            OBVIOUS
          <5>2. at[q] + 1 \in 1..Len(callbacks[q]) + 1
            BY <5>1, <1>4, Zenon
          <5>3. QED
            BY <2>4, <3>1, <5>2, Zenon
        <4>2. callbacks[q][at[q]] \in visited[q] /\ owner[q] # NoThread
          BY <1>1 DEF PassInv
        <4>3. ASSUME NEW i \in 1..Len(callbacks[q]), i < at[q] + 1
              PROVE  callbacks[q][i] \in visited[q]
          <5>1. i < at[q] \/ i = at[q]
            BY <4>3, <1>4
          <5>2. CASE i < at[q]
            BY <5>2, <4>2, <1>1 DEF PassInv
          <5>3. QED
            BY <5>1, <5>2, <4>2
        <4>4. QED
          BY <2>4, <3>1, <4>1, <4>2, <4>3, <1>3 DEF PassInv
      <3>3. OnceInv(p)'
        BY <2>1, <2>4, <3>1, <1>3 DEF OnceInv
      <3>4. QED
        BY <2>1, <3>1, <3>2, <3>3, <1>3 DEF ListsInv
    <2>5. QED
      BY <2>2, <2>3, <2>4
  <1>9. NoTaskLost'
    <2> SUFFICES ASSUME NEW u \in Tasks, ticket'[u] > 0
                 PROVE  \/ Holds(Pipe[u], u)' \/ Queued(Pipe[u], u)'
                        \/ u \in OneShot /\ calls'[u] = 1
      BY DEF NoTaskLost
    <2>1. Holds(Pipe[u], u) \/ Queued(Pipe[u], u) \/ (u \in OneShot /\ calls[u] = 1)
      BY <1>3 DEF IInv, NoTaskLost
    <2>2. Queued(Pipe[u], u) => Queued(Pipe[u], u)'
      BY <1>3 DEF Queued
    <2>3. CASE Pipe[u] # q \/ t \notin OneShot
      <3>1. callbacks'[Pipe[u]] = callbacks[Pipe[u]]
        BY <2>3, <1>7
      <3>2. QED
        BY <2>1, <2>2, <3>1, <1>3 DEF Holds
    <2>4. CASE Pipe[u] = q /\ t \in OneShot
      <3>1. CASE u = t
        BY <2>4, <3>1, <1>1, <1>3, <1>4 DEF OnceInv
      <3>2. CASE u # t
        <4>1. ASSUME Holds(q, u) PROVE Holds(q, u)'
          <5>1. PICK i \in 1..Len(callbacks[q]) : callbacks[q][i] = u
            BY <4>1, <1>4, DomainOfSeq DEF Holds
          <5>2. i # at[q]
            BY <3>2, <5>1
          <5>3. PICK j \in 1..Len(rest) : rest[j] = u
            BY <5>1, <5>2, <1>5
          <5>4. DOMAIN callbacks'[q] = 1..Len(rest) /\ callbacks'[q] = rest
            BY <2>4, <1>5, <1>7, DomainOfSeq
          <5>5. QED
            BY <5>3, <5>4 DEF Holds
        <4>2. QED
          BY <2>1, <2>2, <2>4, <4>1, <1>3
      <3>3. QED
        BY <3>1, <3>2
    <2>5. QED
      BY <2>3, <2>4
  <1>10. OnceIsOnce' /\ ShutdownInv' /\ (\A u \in Tasks : ticket[u] = 0 => calls[u] = 0)'
    BY <1>3 DEF IInv, OnceIsOnce, ShutdownInv
  <1>11. QED
    BY <1>6, <1>8, <1>9, <1>10 DEF IInv

(* The steps of start-up, of shutdown and of the clock touch no list and no pass. *)
LEMMA QuietStepIInv ==
    ASSUME IInv, TypeOK', ShutdownInv', lists' = lists, pass' = pass,
           ticket' = ticket, issued' = issued, calls' = calls
    PROVE  IInv'
  <1>1. /\ callbacks' = callbacks /\ newCallbacks' = newCallbacks /\ owner' = owner
        /\ at' = at /\ inHandler' = inHandler /\ visited' = visited
    BY DEF lists, pass
  <1>2. \A p \in Pipelines : ListsInv(p)' /\ PassInv(p)' /\ OnceInv(p)'
    BY <1>1 DEF IInv, ListsInv, PassInv, OnceInv
  <1>3. NoTaskLost'
    BY <1>1 DEF IInv, NoTaskLost, Holds, Queued
  <1>4. OnceIsOnce' /\ (\A t \in Tasks : ticket[t] = 0 => calls[t] = 0)'
    BY DEF IInv, OnceIsOnce
  <1>5. QED
    BY <1>2, <1>3, <1>4 DEF IInv

LEMMA LifeIInv ==
    ASSUME IInv, PreStart \/ PostUnpack \/ AsyncCheck \/ JoinReturns \/ Tick
                 \/ \E th \in GameThreads : PreDestroy(th)
    PROVE  IInv'
  <1> USE SchedulerAssumption
  <1>1. TypeOK /\ ShutdownInv
    BY DEF IInv
  <1>2. /\ lists' = lists /\ pass' = pass /\ ticket' = ticket /\ issued' = issued
        /\ calls' = calls
    BY DEF PreStart, PostUnpack, AsyncCheck, JoinReturns, Tick, PreDestroy
  <1>3. /\ callbacks' = callbacks /\ newCallbacks' = newCallbacks /\ owner' = owner
        /\ at' = at /\ inHandler' = inHandler /\ visited' = visited
    BY <1>2 DEF lists, pass
  <1>4. /\ async' \in {"unstarted", "loop", "execute", "exited"} /\ hooked' \in BOOLEAN
        /\ kill' \in BOOLEAN /\ destroyer' \in GameThreads \cup {NoThread}
        /\ joined' \in BOOLEAN
    BY <1>1 DEF TypeOK, PreStart, PostUnpack, AsyncCheck, JoinReturns, Tick, PreDestroy, life
  <1>5. wait' \in [Tasks -> Nat]
    <2>1. CASE Tick
      BY <2>1, <1>1 DEF Tick, TypeOK, Elapsed
    <2>2. CASE wait' = wait
      BY <2>2, <1>1 DEF TypeOK
    <2>3. QED
      BY <2>1, <2>2 DEF PreStart, PostUnpack, AsyncCheck, JoinReturns, PreDestroy
  <1>6. TypeOK'
    BY <1>1, <1>2, <1>3, <1>4, <1>5 DEF TypeOK
  <1>7. ShutdownInv'
    <2>1. CASE PreStart
      BY <2>1, <1>1, <1>3 DEF PreStart, ShutdownInv
    <2>2. CASE PostUnpack
      BY <2>2, <1>1, <1>3 DEF PostUnpack, ShutdownInv
    <2>3. CASE AsyncCheck
      BY <2>3, <1>1, <1>3 DEF AsyncCheck, ShutdownInv
    <2>4. CASE JoinReturns
      BY <2>4, <1>1, <1>3 DEF JoinReturns, AsyncStopped, ShutdownInv
    <2>5. CASE Tick
      BY <2>5, <1>1, <1>3 DEF Tick, life, ShutdownInv
    <2>6. CASE \E th \in GameThreads : PreDestroy(th)
      <3>1. PICK th \in GameThreads : PreDestroy(th)
        BY <2>6
      <3>2. th # NoThread
        BY DEF Threads
      <3>3. QED
        BY <3>1, <3>2, <1>1, <1>3 DEF PreDestroy, ShutdownInv
    <2>7. QED
      BY <2>1, <2>2, <2>3, <2>4, <2>5, <2>6
  <1>8. QED
    BY <1>2, <1>6, <1>7, QuietStepIInv

(* What the invariant says of a pass whose iterator is on a task. *)
LEMMA AtTaskFacts ==
    ASSUME IInv, NEW q \in Pipelines, AtTask(q)
    PROVE  /\ callbacks[q] \in Seq(Tasks) /\ Len(callbacks[q]) \in Nat
           /\ at[q] \in 1..Len(callbacks[q]) /\ Current(q) \in Tasks
           /\ Pipe[Current(q)] = q /\ ticket[Current(q)] > 0
           /\ ~inHandler[q] /\ owner[q] # NoThread
  <1>1. TypeOK /\ ListsInv(q)
    BY DEF IInv
  <1>2. /\ callbacks[q] \in Seq(Tasks) /\ Len(callbacks[q]) \in Nat
        /\ DOMAIN callbacks[q] = 1..Len(callbacks[q])
        /\ \A i \in 1..Len(callbacks[q]) : callbacks[q][i] \in Tasks
    BY <1>1, ListTypes
  <1>3. QED
    BY <1>1, <1>2 DEF AtTask, Current, ListsInv, Ordered

LEMMA SkipTaskIInv ==
    ASSUME IInv, NEW q \in Pipelines, SkipTask(q)
    PROVE  IInv'
  <1>1. /\ TypeOK /\ callbacks[q] \in Seq(Tasks) /\ Len(callbacks[q]) \in Nat
        /\ at[q] \in 1..Len(callbacks[q]) /\ Current(q) \in Tasks
        /\ ~inHandler[q] /\ owner[q] # NoThread
    BY AtTaskFacts DEF IInv, SkipTask
  <1>2. /\ at' = [at EXCEPT ![q] = at[q] + 1]
        /\ visited' = [visited EXCEPT ![q] = visited[q] \cup {Current(q)}]
        /\ callbacks' = callbacks /\ newCallbacks' = newCallbacks /\ owner' = owner
        /\ inHandler' = inHandler /\ wait' = wait /\ ticket' = ticket /\ issued' = issued
        /\ calls' = calls /\ async' = async /\ hooked' = hooked /\ kill' = kill
        /\ destroyer' = destroyer /\ joined' = joined
    BY DEF SkipTask, lists, life
  <1>3. TypeOK'
    <2>1. at' \in [Pipelines -> Nat] /\ visited' \in [Pipelines -> SUBSET Tasks]
      BY <1>1, <1>2 DEF TypeOK
    <2>2. QED
      BY <1>1, <1>2, <2>1 DEF TypeOK
  <1>4. /\ at'[q] = at[q] + 1 /\ visited'[q] = visited[q] \cup {Current(q)}
        /\ \A p \in Pipelines : p # q => at'[p] = at[p] /\ visited'[p] = visited[p]
    BY <1>1, <1>2 DEF TypeOK
  <1>5. ASSUME NEW p \in Pipelines
        PROVE  ListsInv(p)' /\ PassInv(p)' /\ OnceInv(p)'
    <2>1. ListsInv(p) /\ PassInv(p) /\ OnceInv(p)
      BY DEF IInv
    <2>2. ListsInv(p)'
      BY <2>1, <1>2 DEF ListsInv
    <2>3. CASE p # q
      BY <2>1, <2>2, <2>3, <1>2, <1>4 DEF PassInv, OnceInv
    <2>4. CASE p = q
      <3>1. ASSUME NEW i \in 1..Len(callbacks[q]), i < at[q] + 1
            PROVE  callbacks[q][i] \in visited[q] \cup {Current(q)}
        <4>1. CASE i < at[q]
          BY <4>1, <2>1, <2>4, <1>1 DEF PassInv
        <4>2. CASE i = at[q]
          BY <4>2 DEF Current
        <4>3. QED
          BY <4>1, <4>2, <3>1, <1>1
      <3>2. at'[q] \in 1..Len(callbacks'[q]) + 1
        BY <1>1, <1>2, <1>4
      <3>3. PassInv(p)'
        BY <2>4, <3>1, <3>2, <1>1, <1>2, <1>4 DEF PassInv
      <3>4. OnceInv(p)'
        BY <2>1, <2>4, <1>1, <1>2 DEF OnceInv
      <3>5. QED
        BY <2>2, <3>3, <3>4
    <2>5. QED
      BY <2>3, <2>4
  <1>6. NoTaskLost' /\ ShutdownInv'
    BY <1>2 DEF IInv, NoTaskLost, ShutdownInv, Holds, Queued
  <1>7. OnceIsOnce' /\ (\A t \in Tasks : ticket[t] = 0 => calls[t] = 0)'
    BY <1>2 DEF IInv, OnceIsOnce
  <1>8. QED
    BY <1>3, <1>5, <1>6, <1>7 DEF IInv

LEMMA CallTaskIInv ==
    ASSUME IInv, NEW q \in Pipelines, CallTask(q)
    PROVE  IInv'
  <1> DEFINE t == Current(q)
  <1>1. /\ TypeOK /\ callbacks[q] \in Seq(Tasks) /\ Len(callbacks[q]) \in Nat
        /\ at[q] \in 1..Len(callbacks[q]) /\ t \in Tasks
        /\ Pipe[t] = q /\ ticket[t] > 0
        /\ ~inHandler[q] /\ owner[q] # NoThread
    BY AtTaskFacts DEF IInv, CallTask
  <1>2. /\ wait' = [wait EXCEPT ![t] = Interval[t]]
        /\ inHandler' = [inHandler EXCEPT ![q] = TRUE]
        /\ visited' = [visited EXCEPT ![q] = visited[q] \cup {t}]
        /\ calls' = [calls EXCEPT ![t] = IF calls[t] = 2 THEN 2 ELSE calls[t] + 1]
    BY DEF CallTask
  <1>3. /\ callbacks' = callbacks /\ newCallbacks' = newCallbacks /\ owner' = owner
        /\ at' = at /\ ticket' = ticket /\ issued' = issued
        /\ async' = async /\ hooked' = hooked /\ kill' = kill
        /\ destroyer' = destroyer /\ joined' = joined
    BY DEF CallTask, lists, life
  <1>4. t = callbacks[q][at[q]]
    BY DEF Current
  <1> HIDE DEF t
  <1>5. /\ inHandler'[q] /\ visited'[q] = visited[q] \cup {t}
        /\ \A p \in Pipelines : p # q =>
              (inHandler'[p] <=> inHandler[p]) /\ visited'[p] = visited[p]
    BY <1>1, <1>2 DEF TypeOK
  <1>6. /\ calls[t] \in 0..2 /\ calls'[t] = IF calls[t] = 2 THEN 2 ELSE calls[t] + 1
        /\ \A u \in Tasks : u # t => calls'[u] = calls[u]
    BY <1>1, <1>2 DEF TypeOK
  <1>7. TypeOK'
    <2>1. wait' \in [Tasks -> Nat]
      BY <1>1, <1>2, SchedulerAssumption DEF TypeOK
    <2>2. calls' \in [Tasks -> 0..2]
      BY <1>1, <1>2, <1>6 DEF TypeOK
    <2>3. inHandler' \in [Pipelines -> BOOLEAN]
      BY <1>1, <1>2 DEF TypeOK
    <2>4. visited' \in [Pipelines -> SUBSET Tasks]
      BY <1>1, <1>2 DEF TypeOK
    <2>5. QED
      BY <1>1, <1>3, <2>1, <2>2, <2>3, <2>4 DEF TypeOK
  <1>8. t \in OneShot => calls[t] = 0 /\ calls'[t] = 1
    BY <1>1, <1>4, <1>6 DEF IInv, OnceInv
  <1>9. ASSUME NEW p \in Pipelines
        PROVE  ListsInv(p)' /\ PassInv(p)' /\ OnceInv(p)'
    <2>1. ListsInv(p) /\ PassInv(p) /\ OnceInv(p)
      BY DEF IInv
    <2>2. ListsInv(p)'
      BY <2>1, <1>3 DEF ListsInv
    <2>3. /\ callbacks[p] \in Seq(Tasks) /\ newCallbacks[p] \in Seq(Tasks)
          /\ ticket \in [Tasks -> Nat] /\ issued \in Nat
          /\ \A i \in 1..Len(callbacks[p]) : callbacks[p][i] \in Tasks
          /\ \A i \in 1..Len(newCallbacks[p]) : newCallbacks[p][i] \in Tasks
      BY <1>1, ListTypes DEF TypeOK
    <2>4. CASE p # q
      <3>1. /\ \A i \in 1..Len(callbacks[p]) : callbacks[p][i] # t
            /\ \A i \in 1..Len(newCallbacks[p]) : newCallbacks[p][i] # t
        BY <2>1, <2>4, <1>1 DEF ListsInv, Ordered
      <3>2. OnceInv(p)'
        <4>1. /\ \A i \in 1..Len(callbacks[p]) :
                    calls'[callbacks[p][i]] = calls[callbacks[p][i]]
              /\ \A i \in 1..Len(newCallbacks[p]) :
                    calls'[newCallbacks[p][i]] = calls[newCallbacks[p][i]]
          BY <2>3, <3>1, <1>6
        <4>2. inHandler'[p] <=> inHandler[p]
          BY <2>4, <1>5
        <4>3. QED
          BY <2>1, <4>1, <4>2, <1>3 DEF OnceInv
      <3>3. PassInv(p)'
        BY <2>1, <2>4, <1>3, <1>5 DEF PassInv
      <3>4. QED
        BY <2>2, <3>2, <3>3
    <2>5. CASE p = q
      <3>1. /\ \A i \in 1..Len(callbacks[q]) : callbacks[q][i] = t => i = at[q]
            /\ \A i \in 1..Len(newCallbacks[q]) : newCallbacks[q][i] # t
        <4>1. Ordered(q, callbacks[q], newCallbacks[q], ticket, issued)
          BY <2>1, <2>5 DEF ListsInv
        <4>2. /\ callbacks[q] \in Seq(Tasks) /\ newCallbacks[q] \in Seq(Tasks)
              /\ ticket \in [Tasks -> Nat] /\ issued \in Nat
          BY <2>3, <2>5
        <4>3. /\ \A j \in 1..Len(callbacks[q]) : callbacks[q][j] = callbacks[q][at[q]] => j = at[q]
              /\ \A j \in 1..Len(newCallbacks[q]) : newCallbacks[q][j] # callbacks[q][at[q]]
          <5>1. at[q] \in 1..Len(callbacks[q])
            BY <1>1
          <5>2. \A i, j \in 1..Len(callbacks[q]) :
                   i < j => ticket[callbacks[q][i]] < ticket[callbacks[q][j]]
            BY <4>1 DEF Ordered
          <5>3. \A j \in 1..Len(newCallbacks[q]) :
                   ticket[callbacks[q][at[q]]] < ticket[newCallbacks[q][j]]
            BY <4>1, <5>1 DEF Ordered
          <5>4. \A j \in 1..Len(callbacks[q]) :
                   ticket[callbacks[q][j]] \in Nat /\ (j = at[q] \/ j < at[q] \/ at[q] < j)
            BY <2>3, <2>5, <5>1
          <5>5. ticket[callbacks[q][at[q]]] \in Nat
            BY <5>1, <5>4
          <5>6. ASSUME NEW j \in 1..Len(callbacks[q]), callbacks[q][j] = callbacks[q][at[q]]
                PROVE  j = at[q]
            BY <5>1, <5>2, <5>4, <5>5, <5>6
          <5>7. ASSUME NEW j \in 1..Len(newCallbacks[q])
                PROVE  newCallbacks[q][j] # callbacks[q][at[q]]
            BY <5>3, <5>5, <5>7
          <5>8. QED
            BY <5>6, <5>7
        <4>4. QED
          BY <4>3, <1>4, Zenon
      <3>2. ASSUME NEW i \in 1..Len(callbacks[q]), callbacks[q][i] \in OneShot
            PROVE  calls'[callbacks[q][i]] = IF i = at[q] THEN 1 ELSE 0
        <4>1. CASE i = at[q]
          BY <3>2, <4>1, <1>4, <1>8
        <4>2. CASE i # at[q]
          BY <3>1, <3>2, <4>2, <2>1, <2>3, <2>5, <1>1, <1>6 DEF OnceInv
        <4>3. QED
          BY <4>1, <4>2
      <3>3. \A i \in 1..Len(newCallbacks[q]) : calls'[newCallbacks[q][i]] = 0
        BY <3>1, <2>1, <2>3, <2>5, <1>6 DEF OnceInv
      <3>4. OnceInv(p)'
        BY <2>5, <3>2, <3>3, <1>3, <1>5 DEF OnceInv
      <3>5. PassInv(p)'
        BY <2>1, <2>5, <1>1, <1>3, <1>4, <1>5 DEF PassInv
      <3>6. QED
        BY <2>2, <3>4, <3>5
    <2>6. QED
      BY <2>4, <2>5
  <1>10. OnceIsOnce'
    BY <1>6, <1>8, SchedulerAssumption DEF IInv, OnceIsOnce
  <1>11. (\A u \in Tasks : ticket[u] = 0 => calls[u] = 0)'
    BY <1>1, <1>3, <1>6 DEF IInv
  <1>12. NoTaskLost'
    BY <1>3, <1>6, <1>8 DEF IInv, NoTaskLost, Holds, Queued
  <1>13. ShutdownInv'
    BY <1>3 DEF IInv, ShutdownInv
  <1>14. QED
    BY <1>7, <1>9, <1>10, <1>11, <1>12, <1>13 DEF IInv

LEMMA EndPassIInv ==
    ASSUME IInv, NEW q \in Pipelines, EndPass(q)
    PROVE  IInv'
  <1> USE SchedulerAssumption
  <1>1. TypeOK /\ ~inHandler[q] /\ owner[q] # NoThread
    BY DEF IInv, EndPass
  <1>2. /\ owner' = [owner EXCEPT ![q] = NoThread]
        /\ at' = [at EXCEPT ![q] = 0]
        /\ visited' = [visited EXCEPT ![q] = {}]
        /\ async' = IF q = "async" THEN "loop" ELSE async
    BY DEF EndPass
  <1>3. /\ callbacks' = callbacks /\ newCallbacks' = newCallbacks /\ inHandler' = inHandler
        /\ wait' = wait /\ ticket' = ticket /\ issued' = issued /\ calls' = calls
        /\ hooked' = hooked /\ kill' = kill /\ destroyer' = destroyer /\ joined' = joined
    BY DEF EndPass, lists
  <1>4. /\ owner'[q] = NoThread
        /\ \A p \in Pipelines : p # q =>
              owner'[p] = owner[p] /\ at'[p] = at[p] /\ visited'[p] = visited[p]
    BY <1>1, <1>2 DEF TypeOK
  <1>5. TypeOK'
    <2>1. owner' \in [Pipelines -> Threads \cup {NoThread}] /\ at' \in [Pipelines -> Nat]
      BY <1>1, <1>2 DEF TypeOK
    <2>2. visited' \in [Pipelines -> SUBSET Tasks]
      BY <1>1, <1>2 DEF TypeOK
    <2>3. async' \in {"unstarted", "loop", "execute", "exited"}
      BY <1>1, <1>2 DEF TypeOK
    <2>4. QED
      BY <1>1, <1>3, <2>1, <2>2, <2>3 DEF TypeOK
  <1>6. ASSUME NEW p \in Pipelines
        PROVE  ListsInv(p)' /\ PassInv(p)' /\ OnceInv(p)'
    <2>1. ListsInv(p) /\ PassInv(p) /\ OnceInv(p)
      BY DEF IInv
    <2>2. CASE p # q
      BY <2>1, <2>2, <1>3, <1>4 DEF ListsInv, PassInv, OnceInv
    <2>3. CASE p = q
      BY <2>1, <2>3, <1>1, <1>3, <1>4 DEF ListsInv, PassInv, OnceInv
    <2>4. QED
      BY <2>2, <2>3
  <1>7. ShutdownInv'
    <2>1. CASE q = "async"
      BY <2>1, <1>1, <1>2, <1>3, <1>4 DEF IInv, ShutdownInv
    <2>2. CASE q # "async"
      BY <2>2, <1>1, <1>2, <1>3, <1>4 DEF IInv, ShutdownInv, Pipelines
    <2>3. QED
      BY <2>1, <2>2
  <1>8. NoTaskLost'
    BY <1>3 DEF IInv, NoTaskLost, Holds, Queued
  <1>9. OnceIsOnce' /\ (\A t \in Tasks : ticket[t] = 0 => calls[t] = 0)'
    BY <1>3 DEF IInv, OnceIsOnce
  <1>10. QED
    BY <1>5, <1>6, <1>7, <1>8, <1>9 DEF IInv

LEMMA NextIInv == IInv /\ [Next]_vars => IInv'
  <1> SUFFICES ASSUME IInv, [Next]_vars PROVE IInv'
    OBVIOUS
  <1>1. CASE PreStart \/ PostUnpack \/ AsyncCheck \/ JoinReturns \/ Tick
             \/ \E th \in GameThreads : PreDestroy(th)
    BY <1>1, LifeIInv
  <1>2. ASSUME NEW th \in Threads, NEW t \in Tasks, Schedule(th, t) PROVE IInv'
    BY <1>2, ScheduleIInv
  <1>3. ASSUME NEW th \in Threads, NEW p \in Pipelines, BeginPass(th, p) PROVE IInv'
    BY <1>3, BeginPassIInv
  <1>4. ASSUME NEW p \in Pipelines, SkipTask(p) PROVE IInv'
    BY <1>4, SkipTaskIInv
  <1>5. ASSUME NEW p \in Pipelines, CallTask(p) PROVE IInv'
    BY <1>5, CallTaskIInv
  <1>6. ASSUME NEW p \in Pipelines, HandlerReturns(p) PROVE IInv'
    BY <1>6, HandlerReturnsIInv
  <1>7. ASSUME NEW p \in Pipelines, EndPass(p) PROVE IInv'
    BY <1>7, EndPassIInv
  <1>8. CASE UNCHANGED vars
    <2>1. /\ lists' = lists /\ pass' = pass /\ ticket' = ticket /\ issued' = issued
          /\ calls' = calls /\ wait' = wait /\ life' = life
      BY <1>8 DEF vars
    <2>2. TypeOK' /\ ShutdownInv'
      BY <2>1 DEF IInv, TypeOK, ShutdownInv, lists, pass, life
    <2>3. QED
      BY <2>1, <2>2, QuietStepIInv
  <1>9. QED
    BY <1>1, <1>2, <1>3, <1>4, <1>5, <1>6, <1>7, <1>8 DEF Next

-----------------------------------------------------------------------------
(* Theorems of the specification. *)

(* Every behaviour of the scheduler keeps the inductive invariant. *)
THEOREM Invariance == Spec => []IInv
  BY InitIInv, NextIInv, PTL DEF Spec

(* The lists, iterators, clocks and flags of scheduler.cpp stay in their types. *)
THEOREM TypeCorrect == Spec => []TypeOK
  <1>1. IInv => TypeOK
    BY DEF IInv
  <1>2. QED
    BY <1>1, Invariance, PTL

(* add, merge_callbacks and erase never drop a task before its handler ran. *)
THEOREM TasksAreKept == Spec => []NoTaskLost
  <1>1. IInv => NoTaskLost
    BY DEF IInv
  <1>2. QED
    BY <1>1, Invariance, PTL

(* A task given to once is called at most once. *)
THEOREM OnceAtMostOnce == Spec => []OnceIsOnce
  <1>1. IInv => OnceIsOnce
    BY DEF IInv
  <1>2. QED
    BY <1>1, Invariance, PTL

(* The lists of a pipeline stay in the order of submission. *)
THEOREM InOrder == Spec => []SubmissionOrder
  <1>1. ASSUME IInv, NEW p \in Pipelines
        PROVE  LET both == callbacks[p] \o newCallbacks[p]
               IN  \A i, j \in DOMAIN both : i < j => ticket[both[i]] < ticket[both[j]]
    <2> DEFINE both == callbacks[p] \o newCallbacks[p]
    <2>1. /\ Ordered(p, callbacks[p], newCallbacks[p], ticket, issued)
          /\ ticket \in [Tasks -> Nat] /\ issued \in Nat
          /\ callbacks[p] \in Seq(Tasks) /\ newCallbacks[p] \in Seq(Tasks)
      BY <1>1, ListTypes DEF IInv, ListsInv, TypeOK
    <2>2. Ordered(p, both, <<>>, ticket, issued)
      BY <2>1, OrderedMerge
    <2>3. DOMAIN both = 1..Len(both)
      BY <2>1, ConcatFacts, DomainOfSeq
    <2> HIDE DEF both
    <2>4. \A i, j \in DOMAIN both : i < j => ticket[both[i]] < ticket[both[j]]
      BY <2>2, <2>3 DEF Ordered
    <2>5. QED
      BY <2>4 DEF both
  <1>2. IInv => SubmissionOrder
    BY <1>1 DEF SubmissionOrder
  <1>3. QED
    BY <1>2, Invariance, PTL

(* Erasing a finished task never makes the iterator of a pass jump over another. *)
THEOREM NoTaskSkipped == Spec => []NothingSkippedOver
  <1>1. ASSUME IInv, NEW p \in Pipelines, owner[p] # NoThread
        PROVE  \A i \in DOMAIN callbacks[p] : i < at[p] => callbacks[p][i] \in visited[p]
    <2>1. PassInv(p) /\ DOMAIN callbacks[p] = 1..Len(callbacks[p])
      BY <1>1, ListTypes DEF IInv
    <2>2. QED
      BY <2>1, <1>1 DEF PassInv
  <1>2. IInv => NothingSkippedOver
    BY <1>1 DEF NothingSkippedOver
  <1>3. QED
    BY <1>2, Invariance, PTL

(* A pass considers the tasks of its pipeline in their order, each of them. *)
THEOREM InOrderWithoutGaps == Spec => []TasksInOrder
  <1>1. SubmissionOrder /\ NothingSkippedOver => TasksInOrder
    BY DEF TasksInOrder
  <1>2. QED
    BY <1>1, InOrder, NoTaskSkipped, PTL

(* After pre_destroy no handler of the async pipeline runs. *)
THEOREM ShutdownIsQuiet == Spec => []QuietAfterJoin
  <1>1. IInv => QuietAfterJoin
    BY DEF IInv, ShutdownInv, QuietAfterJoin
  <1>2. QED
    BY <1>1, Invariance, PTL

(* Nothing that happens during a pass lengthens the list it iterates. *)
THEOREM PassesAreBounded == Spec => PassNeverGrows
  <1> DEFINE Bounded(p) ==
               owner[p] # NoThread /\ owner'[p] = owner[p] =>
                   {callbacks'[p][i] : i \in DOMAIN callbacks'[p]}
                       \subseteq {callbacks[p][i] : i \in DOMAIN callbacks[p]}
  <1>1. ASSUME IInv, Next, NEW p \in Pipelines
        PROVE  Bounded(p)
    <2>1. CASE callbacks'[p] = callbacks[p]
      BY <2>1
    <2>2. ASSUME NEW th \in Threads, NEW q \in Pipelines, BeginPass(th, q)
          PROVE  Bounded(p)
      <3>1. CASE p = q
        BY <2>2, <3>1 DEF BeginPass
      <3>2. CASE p # q
        BY <1>1, <2>1, <2>2, <3>2 DEF BeginPass, IInv, TypeOK
      <3>3. QED
        BY <3>1, <3>2
    <2>3. ASSUME NEW q \in Pipelines, HandlerReturns(q)
          PROVE  Bounded(p)
      <3>1. TypeOK /\ PassInv(q) /\ inHandler[q]
        BY <1>1, <2>3 DEF IInv, HandlerReturns
      <3>2. CASE p # q
        BY <2>1, <2>3, <3>1, <3>2 DEF HandlerReturns, TypeOK
      <3>3. CASE p = q
        <4>1. /\ callbacks[q] \in Seq(Tasks) /\ at[q] \in 1..Len(callbacks[q])
              /\ DOMAIN callbacks[q] = 1..Len(callbacks[q])
          BY <3>1, ListTypes DEF PassInv
        <4>2. callbacks'[q] \in {RemoveAt(callbacks[q], at[q]), callbacks[q]}
          BY <2>3, <3>1 DEF HandlerReturns, ListAfter, TypeOK
        <4>3. CASE callbacks'[q] = RemoveAt(callbacks[q], at[q])
          <5> DEFINE rest == RemoveAt(callbacks[q], at[q])
          <5>1. /\ rest \in Seq(Tasks) /\ Len(callbacks[q]) \in Nat
                /\ Len(rest) = Len(callbacks[q]) - 1
                /\ \A j \in 1..Len(rest) :
                      \/ j < at[q] /\ rest[j] = callbacks[q][j]
                      \/ /\ j >= at[q] /\ j + 1 \in 1..Len(callbacks[q])
                         /\ rest[j] = callbacks[q][j + 1]
            BY <4>1, EraseFacts
          <5>2. DOMAIN rest = 1..Len(rest)
            BY <5>1, DomainOfSeq
          <5> HIDE DEF rest
          <5>3. \A j \in DOMAIN rest : \E k \in DOMAIN callbacks[q] : rest[j] = callbacks[q][k]
            <6> TAKE j \in DOMAIN rest
            <6>1. j \in 1..Len(callbacks[q])
              BY <5>1, <5>2
            <6>2. QED
              BY <6>1, <5>1, <5>2, <4>1
          <5>4. callbacks'[q] = rest
            BY <4>3 DEF rest
          <5>5. QED
            BY <3>3, <5>3, <5>4
        <4>4. QED
          BY <2>1, <3>3, <4>2, <4>3
      <3>4. QED
        BY <3>2, <3>3
    <2>4. CASE \/ PreStart \/ PostUnpack \/ AsyncCheck \/ JoinReturns \/ Tick
               \/ \E th \in GameThreads : PreDestroy(th)
               \/ \E th \in Threads, t \in Tasks : Schedule(th, t)
               \/ \E q \in Pipelines : SkipTask(q) \/ CallTask(q) \/ EndPass(q)
      <3>1. callbacks' = callbacks
        BY <2>4 DEF PreStart, PostUnpack, AsyncCheck, JoinReturns, Tick, PreDestroy,
                    Schedule, SkipTask, CallTask, EndPass, lists
      <3>2. QED
        BY <3>1
    <2>5. QED
      BY <1>1, <2>2, <2>3, <2>4 DEF Next
  <1>2. IInv /\ [Next]_vars =>
           [\A p \in Pipelines :
               owner[p] # NoThread /\ owner'[p] = owner[p] =>
                   {callbacks'[p][i] : i \in DOMAIN callbacks'[p]}
                       \subseteq {callbacks[p][i] : i \in DOMAIN callbacks[p]}]_vars
    BY <1>1
  <1>3. QED
    BY <1>2, Invariance, PTL DEF Spec, PassNeverGrows

------------------------------------------------------------------------------
(* Scheduler implements TaskLifecycle, for any tasks, intervals, threads.   *)

stageBar == [t \in Tasks |-> StageOf(t)]

Listed(t) == Holds(Pipe[t], t) \/ Queued(Pipe[t], t)

(* A running task is in the list of its pipeline, at the iterator. *)
LEMMA RunningIsListed ==
    ASSUME IInv, NEW t \in Tasks, Running(t)
    PROVE  Holds(Pipe[t], t) /\ ticket[t] > 0 /\ at[Pipe[t]] \in 1..Len(callbacks[Pipe[t]])
  <1>1. /\ Pipe[t] \in Pipelines /\ inHandler[Pipe[t]]
        /\ callbacks[Pipe[t]][at[Pipe[t]]] = t
    BY SchedulerAssumption DEF Running, Current
  <1>2. /\ TypeOK /\ PassInv(Pipe[t]) /\ ListsInv(Pipe[t])
        /\ DOMAIN callbacks[Pipe[t]] = 1..Len(callbacks[Pipe[t]])
    BY <1>1, ListTypes DEF IInv
  <1>3. at[Pipe[t]] \in 1..Len(callbacks[Pipe[t]])
    BY <1>1, <1>2 DEF PassInv
  <1>4. ticket[t] > 0
    BY <1>1, <1>2, <1>3 DEF ListsInv, Ordered
  <1>5. QED
    BY <1>1, <1>2, <1>3, <1>4 DEF Holds

(* A step that changes no ticket, no handler and no membership maps to a stutter. *)
LEMMA SameStage ==
    ASSUME NEW t \in Tasks, ticket'[t] = ticket[t],
           Running(t)' <=> Running(t), Listed(t)' <=> Listed(t)
    PROVE  StageOf(t)' = StageOf(t)
  BY DEF StageOf, Listed

LEMMA StageInit == Init => Lifecycle!Init
  BY DEF Init, Lifecycle!Init, StageOf

(* The steps that stutter because lists and handlers keep their contents. *)
LEMMA QuietStages ==
    ASSUME IInv, NEW u \in Tasks,
           \/ PreStart \/ PostUnpack \/ AsyncCheck \/ JoinReturns \/ Tick
           \/ \E th \in GameThreads : PreDestroy(th)
           \/ \E q \in Pipelines : SkipTask(q) \/ EndPass(q)
           \/ UNCHANGED vars
    PROVE  StageOf(u)' = StageOf(u)
  <1>1. /\ callbacks' = callbacks /\ newCallbacks' = newCallbacks /\ ticket' = ticket
        /\ inHandler' = inHandler
    BY DEF PreStart, PostUnpack, AsyncCheck, JoinReturns, Tick, PreDestroy, SkipTask,
           EndPass, lists, pass, vars
  <1>2. Pipe[u] \in Pipelines /\ TypeOK
    BY SchedulerAssumption DEF IInv
  <1>3. inHandler[Pipe[u]] => at'[Pipe[u]] = at[Pipe[u]]
    <2>1. CASE \E q \in Pipelines : SkipTask(q) \/ EndPass(q)
      <3>1. PICK q \in Pipelines : SkipTask(q) \/ EndPass(q)
        BY <2>1
      <3>2. ~inHandler[q] /\ (q # Pipe[u] => at'[Pipe[u]] = at[Pipe[u]])
        BY <3>1, <1>2 DEF SkipTask, EndPass, AtTask, TypeOK
      <3>3. QED
        BY <3>2
    <2>2. CASE at' = at
      BY <2>2
    <2>3. QED
      BY <2>1, <2>2 DEF PreStart, PostUnpack, AsyncCheck, JoinReturns, Tick, PreDestroy,
                        pass, vars
  <1>4. QED
    BY <1>1, <1>3, SameStage DEF Running, Current, Listed, Holds, Queued

LEMMA BeginPassStages ==
    ASSUME IInv, NEW th \in Threads, NEW q \in Pipelines, BeginPass(th, q), NEW u \in Tasks
    PROVE  StageOf(u)' = StageOf(u)
  <1>1. TypeOK /\ ~inHandler[q] /\ Pipe[u] \in Pipelines
    BY SchedulerAssumption DEF IInv, PassInv, BeginPass
  <1>2. /\ callbacks'[q] = callbacks[q] \o newCallbacks[q] /\ newCallbacks'[q] = <<>>
        /\ ticket' = ticket /\ inHandler' = inHandler
        /\ Pipe[u] # q => /\ callbacks'[Pipe[u]] = callbacks[Pipe[u]]
                          /\ newCallbacks'[Pipe[u]] = newCallbacks[Pipe[u]]
                          /\ at'[Pipe[u]] = at[Pipe[u]]
    BY <1>1 DEF BeginPass, Merged, TypeOK
  <1>3. Running(u)' <=> Running(u)
    BY <1>1, <1>2 DEF Running, Current
  <1>4. CASE Pipe[u] # q
    BY <1>2, <1>3, <1>4, SameStage DEF Listed, Holds, Queued
  <1>5. CASE Pipe[u] = q
    <2> DEFINE old == callbacks[q]
               new == newCallbacks[q]
    <2>1. /\ old \in Seq(Tasks) /\ new \in Seq(Tasks)
          /\ DOMAIN old = 1..Len(old) /\ DOMAIN new = 1..Len(new)
      BY <1>1, ListTypes
    <2> HIDE DEF old, new
    <2>2. /\ old \o new \in Seq(Tasks)
          /\ \A j \in 1..Len(old) : j \in 1..Len(old \o new) /\ (old \o new)[j] = old[j]
          /\ \A j \in 1..Len(new) :
                Len(old) + j \in 1..Len(old \o new) /\ (old \o new)[Len(old) + j] = new[j]
          /\ \A j \in 1..Len(old \o new) :
                \/ j \in 1..Len(old) /\ (old \o new)[j] = old[j]
                \/ j - Len(old) \in 1..Len(new) /\ (old \o new)[j] = new[j - Len(old)]
      BY <2>1, ConcatFacts
    <2>3. DOMAIN (old \o new) = 1..Len(old \o new)
      BY <2>2, DomainOfSeq
    <2>4. (\E i \in DOMAIN (old \o new) : (old \o new)[i] = u)
             <=> (\E i \in DOMAIN old : old[i] = u) \/ (\E i \in DOMAIN new : new[i] = u)
      <3>1. ASSUME NEW i \in DOMAIN (old \o new), (old \o new)[i] = u
            PROVE  (\E k \in DOMAIN old : old[k] = u) \/ (\E k \in DOMAIN new : new[k] = u)
        BY <3>1, <2>1, <2>2, <2>3
      <3>2. ASSUME NEW i \in DOMAIN old, old[i] = u
            PROVE  \E k \in DOMAIN (old \o new) : (old \o new)[k] = u
        BY <3>2, <2>1, <2>2, <2>3
      <3>3. ASSUME NEW i \in DOMAIN new, new[i] = u
            PROVE  \E k \in DOMAIN (old \o new) : (old \o new)[k] = u
        BY <3>3, <2>1, <2>2, <2>3
      <3>4. QED
        BY <3>1, <3>2, <3>3
    <2>5. ~\E i \in DOMAIN <<>> : <<>>[i] = u
      BY EmptySeq
    <2>6. Listed(u)' <=> Listed(u)
      <3>1. Listed(u) <=> (\E i \in DOMAIN old : old[i] = u) \/ (\E i \in DOMAIN new : new[i] = u)
        BY <1>5 DEF Listed, Holds, Queued, old, new
      <3>2. Listed(u)' <=> \/ \E i \in DOMAIN (old \o new) : (old \o new)[i] = u
                           \/ \E i \in DOMAIN <<>> : <<>>[i] = u
        BY <1>2, <1>5 DEF Listed, Holds, Queued, old, new
      <3>3. QED
        BY <3>1, <3>2, <2>4, <2>5
    <2>7. QED
      BY <2>6, <1>2, <1>3, SameStage
  <1>6. QED
    BY <1>4, <1>5

(* schedule, loop and once submit. *)
LEMMA ScheduleSubmits ==
    ASSUME IInv, NEW th \in Threads, NEW t \in Tasks, Schedule(th, t)
    PROVE  Lifecycle!Submit(t)
  <1> DEFINE q == Pipe[t]
  <1>1. /\ TypeOK /\ q \in Pipelines /\ ticket[t] = 0 /\ issued \in Nat
        /\ newCallbacks[q] \in Seq(Tasks)
        /\ DOMAIN newCallbacks[q] = 1..Len(newCallbacks[q]) /\ Len(newCallbacks[q]) \in Nat
    BY SchedulerAssumption, ListTypes DEF IInv, Schedule, TypeOK
  <1>2. /\ newCallbacks'[q] = Append(newCallbacks[q], t)
        /\ \A p \in Pipelines : p # q => newCallbacks'[p] = newCallbacks[p]
        /\ ticket'[t] = issued + 1 /\ \A u \in Tasks : u # t => ticket'[u] = ticket[u]
        /\ callbacks' = callbacks /\ inHandler' = inHandler /\ at' = at
    BY <1>1 DEF Schedule, TypeOK, pass
  <1>3. StageOf(t) = "unscheduled"
    BY <1>1 DEF StageOf
  <1>4. /\ DOMAIN newCallbacks'[q] = 1..Len(newCallbacks[q]) + 1
        /\ newCallbacks'[q][Len(newCallbacks[q]) + 1] = t
        /\ \A i \in 1..Len(newCallbacks[q]) : newCallbacks'[q][i] = newCallbacks[q][i]
    BY <1>1, <1>2, AppendFacts, DomainOfSeq
  <1>5. StageOf(t)' = "pending"
    <2>1. ~Running(t)
      BY <1>1, RunningIsListed
    <2>2. ~Running(t)'
      BY <2>1, <1>2 DEF Running, Current
    <2>3. Queued(Pipe[t], t)'
      BY <1>1, <1>4 DEF Queued
    <2>4. ticket'[t] # 0
      BY <1>1, <1>2
    <2>5. QED
      BY <2>2, <2>3, <2>4 DEF StageOf
  <1>6. ASSUME NEW u \in Tasks, u # t
        PROVE  StageOf(u)' = StageOf(u)
    <2>1. Pipe[u] \in Pipelines
      BY SchedulerAssumption
    <2>2. Queued(Pipe[u], u)' <=> Queued(Pipe[u], u)
      <3>1. CASE Pipe[u] # q
        BY <2>1, <3>1, <1>2 DEF Queued
      <3>2. CASE Pipe[u] = q
        <4>1. ASSUME NEW i \in DOMAIN newCallbacks'[q], newCallbacks'[q][i] = u
              PROVE  i \in DOMAIN newCallbacks[q] /\ newCallbacks[q][i] = u
          <5>1. i # Len(newCallbacks[q]) + 1
            BY <4>1, <1>4, <1>6
          <5>2. QED
            BY <4>1, <5>1, <1>1, <1>4
        <4>2. ASSUME NEW i \in DOMAIN newCallbacks[q], newCallbacks[q][i] = u
              PROVE  i \in DOMAIN newCallbacks'[q] /\ newCallbacks'[q][i] = u
          BY <4>2, <1>1, <1>4
        <4>3. QED
          BY <3>2, <4>1, <4>2 DEF Queued
      <3>3. QED
        BY <3>1, <3>2
    <2>3. QED
      BY <2>2, <1>2, <1>6, SameStage DEF Running, Current, Listed, Holds
  <1>7. QED
    BY <1>3, <1>5, <1>6 DEF Lifecycle!Submit

(* Calling the handler starts the task: no other task of the pipeline is running. *)
LEMMA CallTaskStarts ==
    ASSUME IInv, NEW q \in Pipelines, CallTask(q)
    PROVE  Lifecycle!Start(Current(q))
  <1>0. PICK t \in Tasks : t = Current(q)
    BY AtTaskFacts DEF CallTask
  <1>1. /\ TypeOK /\ Pipe[t] = q /\ ticket[t] > 0 /\ ~inHandler[q]
        /\ at[q] \in 1..Len(callbacks[q]) /\ t = callbacks[q][at[q]]
        /\ DOMAIN callbacks[q] = 1..Len(callbacks[q])
    BY <1>0, AtTaskFacts, ListTypes DEF IInv, CallTask, Current
  <1>2. /\ callbacks' = callbacks /\ newCallbacks' = newCallbacks /\ at' = at
        /\ ticket' = ticket /\ inHandler'[q]
        /\ \A p \in Pipelines : p # q => inHandler'[p] = inHandler[p]
    BY <1>1 DEF CallTask, lists, TypeOK
  <1>3. ASSUME NEW u \in Tasks, Pipe[u] = q
        PROVE  ~Running(u) /\ (Running(u)' <=> u = t)
    BY <1>1, <1>2, <1>3 DEF Running, Current
  <1>4. StageOf(t) = "pending" /\ StageOf(t)' = "running"
    <2>1. Holds(Pipe[t], t)
      BY <1>1 DEF Holds
    <2>2. ticket[t] # 0
      BY <1>1
    <2>3. QED
      BY <2>1, <2>2, <1>1, <1>2, <1>3 DEF StageOf
  <1>5. ASSUME NEW u \in Tasks, u # t
        PROVE  StageOf(u)' = StageOf(u)
    <2>1. Running(u)' <=> Running(u)
      <3>1. CASE Pipe[u] = q
        BY <3>1, <1>3, <1>5
      <3>2. CASE Pipe[u] # q
        BY <3>2, <1>2, SchedulerAssumption DEF Running, Current
      <3>3. QED
        BY <3>1, <3>2
    <2>2. QED
      BY <2>1, <1>2, SameStage DEF Listed, Holds, Queued
  <1>6. \A u \in Tasks : Pipe[u] = Pipe[t] => StageOf(u) # "running"
    BY <1>1, <1>3 DEF StageOf
  <1>7. Lifecycle!Start(t)
    BY <1>1, <1>4, <1>5, <1>6 DEF Lifecycle!Start
  <1>8. QED
    BY <1>0, <1>7

(* cond_end finishes a one-shot task, cond_continue sends a looping one back. *)
LEMMA HandlerReturnsFinishes ==
    ASSUME IInv, NEW q \in Pipelines, HandlerReturns(q)
    PROVE  Lifecycle!Finish(Current(q))
  <1>0. PICK t \in Tasks : t = Current(q)
    BY ListTypes DEF IInv, PassInv, HandlerReturns, Current
  <1>1. /\ TypeOK /\ ListsInv(q) /\ inHandler[q]
        /\ callbacks[q] \in Seq(Tasks) /\ newCallbacks[q] \in Seq(Tasks)
        /\ at[q] \in 1..Len(callbacks[q]) /\ Len(callbacks[q]) \in Nat
        /\ DOMAIN callbacks[q] = 1..Len(callbacks[q])
        /\ DOMAIN newCallbacks[q] = 1..Len(newCallbacks[q])
        /\ t = callbacks[q][at[q]]
    BY <1>0, ListTypes DEF IInv, PassInv, HandlerReturns, Current
  <1>2. Pipe[t] = q /\ ticket[t] > 0 /\ ticket \in [Tasks -> Nat]
    BY <1>1 DEF ListsInv, Ordered, TypeOK
  <1> DEFINE rest == RemoveAt(callbacks[q], at[q])
  <1>3. /\ rest \in Seq(Tasks) /\ DOMAIN rest = 1..Len(rest)
        /\ Len(rest) = Len(callbacks[q]) - 1
        /\ \A j \in 1..Len(rest) :
              \/ j < at[q] /\ rest[j] = callbacks[q][j]
              \/ j >= at[q] /\ j + 1 \in 1..Len(callbacks[q]) /\ rest[j] = callbacks[q][j + 1]
        /\ \A k \in 1..Len(callbacks[q]) :
              k # at[q] => \E j \in 1..Len(rest) : rest[j] = callbacks[q][k]
    <2>1. callbacks[q] \in Seq(Tasks) /\ at[q] \in 1..Len(callbacks[q])
      BY <1>1
    <2>2. rest \in Seq(Tasks)
      BY <2>1, EraseFacts
    <2> HIDE DEF rest
    <2>3. DOMAIN rest = 1..Len(rest)
      BY <2>2, DomainOfSeq
    <2> USE DEF rest
    <2>4. QED
      BY <2>1, <2>2, <2>3, EraseFacts, Zenon
  <1>4. /\ callbacks'[q] = IF t \in OneShot THEN rest ELSE callbacks[q]
        /\ \A p \in Pipelines : p # q => /\ callbacks'[p] = callbacks[p]
                                        /\ at'[p] = at[p]
                                        /\ inHandler'[p] = inHandler[p]
        /\ ~inHandler'[q] /\ newCallbacks' = newCallbacks /\ ticket' = ticket
    BY <1>0, <1>1 DEF HandlerReturns, ListAfter, TypeOK
  <1> HIDE DEF rest
  <1>5. ASSUME NEW j \in 1..Len(callbacks[q]), j # at[q]
        PROVE  callbacks[q][j] # t
    <2>1. j < at[q] \/ at[q] < j
      BY <1>1, <1>5
    <2>2. \A a, b \in 1..Len(callbacks[q]) :
             a < b => ticket[callbacks[q][a]] < ticket[callbacks[q][b]]
      BY <1>1 DEF ListsInv, Ordered
    <2>3. ticket[t] \in Nat
      BY <1>1, <1>2
    <2>4. QED
      BY <2>1, <2>2, <2>3, <1>1
  <1>6. ASSUME NEW j \in 1..Len(newCallbacks[q])
        PROVE  newCallbacks[q][j] # t
    <2>1. ticket[t] < ticket[newCallbacks[q][j]]
      BY <1>1 DEF ListsInv, Ordered
    <2>2. ticket[t] \in Nat
      BY <1>1, <1>2
    <2>3. QED
      BY <2>1, <2>2
  <1>7. ~\E j \in 1..Len(rest) : rest[j] = t
    <2> SUFFICES ASSUME NEW j \in 1..Len(rest) PROVE rest[j] # t
      OBVIOUS
    <2>1. CASE j < at[q] /\ rest[j] = callbacks[q][j]
      <3>1. j \in 1..Len(callbacks[q]) /\ j # at[q]
        BY <2>1, <1>1
      <3>2. QED
        BY <2>1, <3>1, <1>5
    <2>2. CASE j >= at[q] /\ j + 1 \in 1..Len(callbacks[q]) /\ rest[j] = callbacks[q][j + 1]
      <3>1. j + 1 # at[q]
        BY <2>2, <1>1
      <3>2. QED
        BY <2>2, <3>1, <1>5
    <2>3. QED
      BY <2>1, <2>2, <1>3
  <1>8. StageOf(t) = "running"
    <2>1. Running(t) /\ ticket[t] # 0
      BY <1>1, <1>2 DEF Running, Current
    <2>2. QED
      BY <2>1 DEF StageOf
  <1>9. StageOf(t)' = IF t \in OneShot THEN "done" ELSE "pending"
    <2>1. ~Running(t)' /\ ticket'[t] # 0
      BY <1>2, <1>4 DEF Running
    <2>2. CASE t \in OneShot
      <3>1. ~Holds(q, t)'
        BY <2>2, <1>3, <1>4, <1>7 DEF Holds
      <3>2. ~Queued(q, t)'
        BY <1>1, <1>4, <1>6 DEF Queued
      <3>3. QED
        BY <2>1, <2>2, <3>1, <3>2, <1>2 DEF StageOf
    <2>3. CASE t \notin OneShot
      <3>1. Holds(q, t)'
        BY <2>3, <1>1, <1>4 DEF Holds
      <3>2. QED
        BY <2>1, <2>3, <3>1, <1>2 DEF StageOf
    <2>4. QED
      BY <2>2, <2>3
  <1>10. ASSUME NEW u \in Tasks, u # t
         PROVE  StageOf(u)' = StageOf(u)
    <2>1. Pipe[u] \in Pipelines
      BY SchedulerAssumption
    <2>2. CASE Pipe[u] # q
      BY <2>1, <2>2, <1>4, SameStage DEF Running, Current, Listed, Holds, Queued
    <2>3. CASE Pipe[u] = q
      <3>1. ~Running(u) /\ ~Running(u)'
        BY <2>3, <1>1, <1>4, <1>10 DEF Running, Current
      <3>2. Holds(q, u)' <=> Holds(q, u)
        <4>1. CASE t \notin OneShot
          BY <4>1, <1>4 DEF Holds
        <4>2. CASE t \in OneShot
          <5>1. ASSUME NEW j \in 1..Len(rest), rest[j] = u
                PROVE  \E k \in 1..Len(callbacks[q]) : callbacks[q][k] = u
            <6>1. CASE j < at[q] /\ rest[j] = callbacks[q][j]
              <7>1. j \in 1..Len(callbacks[q])
                BY <6>1, <1>1
              <7>2. QED
                BY <5>1, <6>1, <7>1
            <6>2. CASE /\ j >= at[q] /\ j + 1 \in 1..Len(callbacks[q])
                       /\ rest[j] = callbacks[q][j + 1]
              BY <5>1, <6>2
            <6>3. QED
              BY <6>1, <6>2, <1>3
          <5>2. ASSUME NEW k \in 1..Len(callbacks[q]), callbacks[q][k] = u
                PROVE  \E j \in 1..Len(rest) : rest[j] = u
            BY <5>2, <1>1, <1>3, <1>10
          <5>3. QED
            BY <4>2, <5>1, <5>2, <1>1, <1>3, <1>4 DEF Holds
        <4>3. QED
          BY <4>1, <4>2
      <3>3. QED
        BY <2>3, <3>1, <3>2, <1>4, SameStage DEF Listed, Queued
    <2>4. QED
      BY <2>2, <2>3
  <1>11. Lifecycle!Finish(t)
    BY <1>1, <1>8, <1>9, <1>10 DEF Lifecycle!Finish
  <1>12. QED
    BY <1>0, <1>11

LEMMA StageStep == IInv /\ [Next]_vars => [Lifecycle!Next]_stageBar
  <1> SUFFICES ASSUME IInv, [Next]_vars PROVE Lifecycle!Next \/ stageBar' = stageBar
    OBVIOUS
  <1>1. CASE \/ PreStart \/ PostUnpack \/ AsyncCheck \/ JoinReturns \/ Tick
             \/ \E th \in GameThreads : PreDestroy(th)
             \/ \E q \in Pipelines : SkipTask(q) \/ EndPass(q)
             \/ UNCHANGED vars
    <2>1. \A u \in Tasks : StageOf(u)' = StageOf(u)
      BY <1>1, QuietStages
    <2>2. QED
      BY <2>1 DEF stageBar
  <1>2. ASSUME NEW th \in Threads, NEW q \in Pipelines, BeginPass(th, q)
        PROVE  stageBar' = stageBar
    <2>1. \A u \in Tasks : StageOf(u)' = StageOf(u)
      BY <1>2, BeginPassStages
    <2>2. QED
      BY <2>1 DEF stageBar
  <1>3. ASSUME NEW th \in Threads, NEW t \in Tasks, Schedule(th, t)
        PROVE  Lifecycle!Next
    BY <1>3, ScheduleSubmits DEF Lifecycle!Next
  <1>4. ASSUME NEW q \in Pipelines, CallTask(q)
        PROVE  Lifecycle!Next
    <2>1. Lifecycle!Start(Current(q)) /\ Current(q) \in Tasks
      BY <1>4, CallTaskStarts, AtTaskFacts DEF CallTask
    <2>2. QED
      BY <2>1 DEF Lifecycle!Next
  <1>5. ASSUME NEW q \in Pipelines, HandlerReturns(q)
        PROVE  Lifecycle!Next
    <2>1. Lifecycle!Finish(Current(q))
      BY <1>5, HandlerReturnsFinishes
    <2>2. Current(q) \in Tasks
      BY <1>5, ListTypes DEF IInv, PassInv, HandlerReturns, Current
    <2>3. QED
      BY <2>1, <2>2 DEF Lifecycle!Next
  <1>6. QED
    BY <1>1, <1>2, <1>3, <1>4, <1>5 DEF Next

(* Whatever the lists, mutexes and iterators do, a caller of the scheduler sees *)
(* its task submitted once, called alone in its pipeline, and then either       *)
(* waiting again or finished for good.                                          *)
THEOREM Refinement == Spec => ImplementsLifecycle
  BY StageInit, StageStep, Invariance, PTL
     DEF Spec, ImplementsLifecycle, Lifecycle!Spec, stageBar
==============================================================================
