------------------------- MODULE ComponentLoaderProofs -------------------------
(***************************************************************************)
(* Theorems about ComponentLoader for any components, priorities and       *)
(* threads of the game.                                                    *)
(***************************************************************************)
EXTENDS ComponentLoader, SequenceFacts

(* The list is in order of priority, without repetitions, and complete when *)
(* the process runs; no hook is called before.                              *)
ListInv ==
    /\ \A i, j \in 1..Len(list) : list[i] = list[j] => i = j
    /\ \A i, j \in 1..Len(list) : i < j => Priority[list[i]] >= Priority[list[j]]
    /\ process # "loading" => \A c \in Components : \E i \in 1..Len(list) : list[i] = c
    /\ process = "loading" => /\ \A th \in GameThreads : pc[th] = "unborn"
                              /\ \A h \in Hooks : guard[h] = "fresh"

(* A loop has called what lies before its index, once. *)
Passed(c, h) == \E i \in 1..index[h] - 1 : list[i] = c

LoopInv ==
    \A h \in Hooks :
        /\ guard[h] = "fresh" => index[h] = 1
        /\ guard[h] = "true" => index[h] = Len(list) + 1
        /\ \A c \in Components : called[c][h] = IF Passed(c, h) THEN 1 ELSE 0

(* The three functions are called in the order of the process's life, up to *)
(* an exit during post_unpack.                                              *)
InGame == {"game", "verified", "exit"}

FlowInv ==
    /\ \A th \in GameThreads : /\ th # Main => pc[th] \in InGame \cup {"unborn"}
                               /\ pc[th] \in InGame => pc[Main] \in InGame
    /\ pc[Main] \in InGame => guard["pre_start"] = "true"
    /\ guard["pre_start"] = "running" =>
          pc[Main] = "pre_start" /\ guard["pre_destroy"] = "fresh"
    /\ guard["post_unpack"] # "fresh" => guard["pre_start"] = "true"
    /\ guard["pre_destroy"] # "fresh" => pc[Main] \notin {"run", "pre_start"}
    /\ initialized => guard["post_unpack"] = "true"
    /\ pc[Main] = "returned" \/ process = "exited" => guard["pre_destroy"] = "true"

(* CleanExit, of the components that have been destroyed so far. *)
ThreadInv ==
    \A c \in Components :
        called[c]["pre_destroy"] > 0 /\ thread[c] = "joinable"
            => ThreadAt[c] = "post_unpack" /\ lateUnpack

IInv == TypeOK /\ ListInv /\ LoopInv /\ FlowInv /\ ThreadInv

-----------------------------------------------------------------------------
(* The case expressions, one value at a time. *)

LEMMA Cases ==
    /\ CallSite("pre_start") = {"pre_start"}
    /\ CallSite("post_unpack") = {"verified"}
    /\ CallSite("pre_destroy") = {"unwind", "exit"}
    /\ \A h \in Hooks, c \in Components :
          /\ ThreadAt[c] = h => ThreadAfter(c, h) = "joinable"
          /\ ThreadAt[c] # h /\ h # "pre_destroy" => ThreadAfter(c, h) = thread[c]
          /\ ThreadAt[c] # h /\ h = "pre_destroy" =>
                ThreadAfter(c, h) = IF thread[c] = "joinable" THEN "gone" ELSE thread[c]
  <1>1. /\ CallSite("pre_start") = {"pre_start"}
        /\ CallSite("post_unpack") = {"verified"}
        /\ CallSite("pre_destroy") = {"unwind", "exit"}
    BY DEF CallSite
  <1>2. ASSUME NEW h \in Hooks, NEW c \in Components
        PROVE  /\ ThreadAt[c] = h => ThreadAfter(c, h) = "joinable"
               /\ ThreadAt[c] # h /\ h # "pre_destroy" => ThreadAfter(c, h) = thread[c]
               /\ ThreadAt[c] # h /\ h = "pre_destroy" =>
                     ThreadAfter(c, h) = IF thread[c] = "joinable" THEN "gone" ELSE thread[c]
    <2>1. ThreadAt[c] = h => h # "pre_destroy"
      BY LoaderAssumption
    <2>2. QED
      BY <2>1 DEF ThreadAfter
  <1>3. QED
    BY <1>1, <1>2

(* What an action does not touch keeps its part of the invariant. *)
LEMMA LoopsUntouched ==
    ASSUME LoopInv, UNCHANGED <<list, guard, index, called>>
    PROVE  LoopInv'
  BY DEF LoopInv, Passed

LEMMA ThreadsUntouched ==
    ASSUME ThreadInv, UNCHANGED <<thread, called, lateUnpack>>
    PROVE  ThreadInv'
  BY DEF ThreadInv

LEMMA ListUntouched ==
    ASSUME ListInv, UNCHANGED list, process # "loading", process' # "loading"
    PROVE  ListInv'
  BY DEF ListInv

(* A hook has been called only if its loop has begun, and then the list is  *)
(* complete.                                                                *)
LEMMA NothingCalledYet ==
    ASSUME IInv, NEW h \in Hooks, guard[h] = "fresh", NEW c \in Components
    PROVE  called[c][h] = 0
  <1>1. index[h] = 1 /\ called[c][h] = IF Passed(c, h) THEN 1 ELSE 0
    BY DEF IInv, LoopInv
  <1>2. ~Passed(c, h)
    BY <1>1 DEF Passed
  <1>3. QED
    BY <1>1, <1>2

LEMMA AllCalled ==
    ASSUME IInv, NEW h \in Hooks, guard[h] = "true", NEW c \in Components
    PROVE  called[c][h] = 1
  <1>1. process # "loading"
    BY DEF IInv, ListInv
  <1>2. PICK i \in 1..Len(list) : list[i] = c
    BY <1>1 DEF IInv, ListInv
  <1>3. index[h] = Len(list) + 1 /\ called[c][h] = IF Passed(c, h) THEN 1 ELSE 0
    BY DEF IInv, LoopInv
  <1>4. Len(list) \in Nat
    BY LenProperties DEF IInv, TypeOK
  <1>5. Passed(c, h)
    <2>1. i \in 1..index[h] - 1
      BY <1>2, <1>3, <1>4
    <2>2. QED
      BY <1>2, <2>1 DEF Passed
  <1>6. QED
    BY <1>3, <1>5

-----------------------------------------------------------------------------
(* The initial state. *)

LEMMA Initially == ASSUME Init PROVE IInv
  <1> USE LoaderAssumption
  <1>1. TypeOK
    <2>1. <<>> \in Seq(Components) /\ Len(<<>>) = 0
      OBVIOUS
    <2>2. index \in [Hooks -> 1..Len(list) + 1]
      BY <2>1 DEF Init, FirstIndex
    <2>3. /\ pc \in [GameThreads -> Places]
          /\ guard \in [Hooks -> {"fresh", "running", "true", "false"}]
          /\ runner \in [Hooks -> GameThreads \cup {None}]
          /\ thread \in [Components -> {"none", "joinable", "gone"}]
      BY DEF Init, Places
    <2>4. called \in [Components -> [Hooks -> 0..2]]
      BY DEF Init
    <2>5. QED
      BY <2>1, <2>2, <2>3, <2>4 DEF Init, TypeOK
  <1>2. ListInv
    BY DEF Init, ListInv
  <1>3. LoopInv
    <2>1. \A h \in Hooks : index[h] = 1 /\ guard[h] = "fresh"
      BY DEF Init, FirstIndex
    <2>2. \A h \in Hooks, c \in Components : ~Passed(c, h)
      BY <2>1 DEF Passed
    <2>3. \A h \in Hooks, c \in Components : called[c][h] = 0
      BY DEF Init
    <2>4. QED
      BY <2>1, <2>2, <2>3 DEF LoopInv
  <1>4. FlowInv
    BY DEF Init, FlowInv, InGame, Hooks
  <1>5. ThreadInv
    BY DEF Init, ThreadInv
  <1>6. QED
    BY <1>1, <1>2, <1>3, <1>4, <1>5 DEF IInv

-----------------------------------------------------------------------------
(* Registration. *)

LEMMA RegisterKeeps ==
    ASSUME IInv, NEW c \in Components, Register(c)
    PROVE  IInv'
  <1> USE LoaderAssumption
  <1> DEFINE n == Len(list)
  <1>1. PICK k \in 1..Len(list) + 1 : Lands(c, k) /\ list' = InsertAt(list, k, c)
    BY DEF Register
  <1>2. /\ list \in Seq(Components) /\ process = "loading" /\ c \notin ToSet(list)
        /\ thread' = [thread EXCEPT ![c] = IF ThreadAt[c] = "registered"
                                           THEN "joinable" ELSE thread[c]]
        /\ UNCHANGED <<process, pc, guard, runner, index, initialized, called, lateUnpack>>
    BY DEF Register, IInv, TypeOK
  <1>3. /\ list' \in Seq(Components) /\ n \in Nat /\ Len(list') = n + 1
        /\ \A j \in 1..n + 1 :
              /\ j < k => list'[j] = list[j]
              /\ j = k => list'[j] = c
              /\ j > k => list'[j] = list[j - 1]
    <2>1. list \in Seq(Components) /\ k \in 1..Len(list) + 1 /\ c \in Components
      BY <1>1, <1>2
    <2>2. /\ InsertAt(list, k, c) \in Seq(Components)
          /\ Len(list) \in Nat /\ Len(InsertAt(list, k, c)) = Len(list) + 1
      BY ONLY <2>1, InsertFacts
    <2>3. \A j \in 1..Len(list) + 1 :
             /\ j < k => InsertAt(list, k, c)[j] = list[j]
             /\ j = k => InsertAt(list, k, c)[j] = c
             /\ j > k => InsertAt(list, k, c)[j] = list[j - 1]
      BY ONLY <2>1, InsertFacts
    <2>4. QED
      BY <1>1, <2>2, <2>3
  <1>4. \A i \in 1..n : list[i] \in Components /\ list[i] # c
    BY <1>2, <1>3, ElementOfSeq DEF ToSet
  <1>5. \A h \in Hooks : guard[h] = "fresh" /\ index[h] = 1
    BY <1>2 DEF IInv, ListInv, LoopInv
  <1>6. TypeOK'
    <2>1. thread' \in [Components -> {"none", "joinable", "gone"}]
      BY <1>2 DEF IInv, TypeOK
    <2>2. index' \in [Hooks -> 1..Len(list') + 1]
      <3>1. index \in [Hooks -> {1}]
        BY <1>5 DEF IInv, TypeOK
      <3>2. 1 \in 1..Len(list') + 1
        BY <1>3
      <3>3. QED
        BY <1>2, <3>1, <3>2
    <2>3. QED
      BY <1>2, <1>3, <2>1, <2>2 DEF IInv, TypeOK
  <1>7. ListInv'
    <2>1. k \in 1..n + 1 /\ n \in Nat
      BY <1>1, <1>3
    <2>2. \A i, j \in 1..n :
             /\ list[i] = list[j] => i = j
             /\ i < j => Priority[list[i]] >= Priority[list[j]]
      BY DEF IInv, ListInv
    <2>3. \A i \in 1..k - 1 : Priority[list[i]] >= Priority[c]
      BY <1>1 DEF Lands
    <2>4. \A i \in k..n : Priority[list[i]] < Priority[c]
      BY <1>1 DEF Lands
    <2>5. \A i \in 1..n : Priority[list[i]] \in Nat
      BY <1>4
    <2>6. Priority[c] \in Nat
      OBVIOUS
    <2> DEFINE new == list'
    <2>7. \A j \in 1..n + 1 :
             /\ j < k => new[j] = list[j]
             /\ j = k => new[j] = c
             /\ j > k => new[j] = list[j - 1]
      BY <1>3
    <2> HIDE DEF n, new
    <2>8. ASSUME NEW i \in 1..n + 1, NEW j \in 1..n + 1, i < j
          PROVE  new[i] # new[j] /\ Priority[new[i]] >= Priority[new[j]]
      <3>1. CASE j < k
        <4>1. i < k /\ i \in 1..n /\ j \in 1..n
          BY <3>1, <2>8, <2>1
        <4>2. new[i] = list[i] /\ new[j] = list[j]
          BY <3>1, <4>1, <2>7
        <4>3. QED
          BY <4>1, <4>2, <2>2, <2>8
      <3>2. CASE j = k
        <4>1. i < k /\ i \in 1..k - 1 /\ i \in 1..n
          BY <3>2, <2>8, <2>1
        <4>2. new[i] = list[i] /\ new[j] = c
          BY <3>2, <4>1, <2>7
        <4>3. QED
          BY <4>1, <4>2, <2>3, <1>4
      <3>3. CASE i = k
        <4>1. j > k /\ j - 1 \in k..n /\ j - 1 \in 1..n
          BY <3>3, <2>8, <2>1
        <4>2. new[j] = list[j - 1] /\ new[i] = c
          BY <3>3, <4>1, <2>7
        <4>3. QED
          BY <4>1, <4>2, <2>4, <2>5, <2>6, <1>4
      <3>4. CASE i < k /\ k < j
        <4>1. /\ i \in 1..n /\ j - 1 \in 1..n /\ i \in 1..k - 1 /\ j - 1 \in k..n
              /\ j > k /\ i # j - 1
          BY <3>4, <2>8, <2>1
        <4>2. new[i] = list[i] /\ new[j] = list[j - 1]
          BY <3>4, <4>1, <2>7
        <4>3. list[i] # list[j - 1]
          BY <4>1, <2>2
        <4>4. Priority[list[i]] >= Priority[c] /\ Priority[list[j - 1]] < Priority[c]
          BY <4>1, <2>3, <2>4
        <4>5. Priority[list[i]] >= Priority[list[j - 1]]
          BY <4>1, <4>4, <2>5, <2>6
        <4>6. QED
          BY <4>2, <4>3, <4>5
      <3>5. CASE k < i
        <4>1. /\ i - 1 \in 1..n /\ j - 1 \in 1..n /\ i - 1 < j - 1
              /\ i > k /\ j > k
          BY <3>5, <2>8, <2>1
        <4>2. new[i] = list[i - 1] /\ new[j] = list[j - 1]
          BY <4>1, <2>7
        <4>3. i - 1 # j - 1
          BY <4>1
        <4>4. QED
          BY <4>1, <4>2, <4>3, <2>2
      <3>6. QED
        BY <3>1, <3>2, <3>3, <3>4, <3>5, <2>1
    <2>9. \A i, j \in 1..n + 1 : new[i] = new[j] => i = j
      BY <2>8, <2>1
    <2>10. \A i, j \in 1..n + 1 : i < j => Priority[new[i]] >= Priority[new[j]]
      BY <2>8
    <2>11. Len(new) = n + 1
      BY <1>3 DEF new
    <2>12. process' = "loading" /\ (\A th \in GameThreads : pc'[th] = "unborn")
           /\ \A h \in Hooks : guard'[h] = "fresh"
      BY <1>2 DEF IInv, ListInv
    <2>13. QED
      BY <2>9, <2>10, <2>11, <2>12 DEF ListInv, new
  <1>8. LoopInv'
    <2>1. \A h \in Hooks, d \in Components : called[d][h] = 0
      BY <1>5, NothingCalledYet
    <2>2. \A h \in Hooks : guard'[h] = "fresh" /\ index'[h] = 1
      BY <1>2, <1>5
    <2>3. \A h \in Hooks, d \in Components : ~Passed(d, h)'
      BY <2>2 DEF Passed
    <2>4. QED
      BY <1>2, <2>1, <2>2, <2>3 DEF LoopInv
  <1>9. FlowInv'
    BY <1>2 DEF IInv, FlowInv
  <1>10. ThreadInv'
    <2>1. \A d \in Components : called'[d]["pre_destroy"] = 0
      BY <1>2, <1>5, NothingCalledYet DEF Hooks
    <2>2. QED
      BY <2>1 DEF ThreadInv
  <1>11. QED
    BY <1>6, <1>7, <1>8, <1>9, <1>10 DEF IInv

-----------------------------------------------------------------------------
(* The loops over the components. *)

(* Where a thread calls pre_start it is the main one; where it calls one of *)
(* the others, pre_start is through.                                        *)
LEMMA Callers ==
    ASSUME IInv, NEW th \in GameThreads, NEW h \in Hooks, pc[th] \in CallSite(h)
    PROVE  /\ h = "pre_start" => th = Main /\ pc[Main] = "pre_start"
           /\ h = "post_unpack" => guard["pre_start"] = "true"
           /\ h = "pre_destroy" => /\ guard["pre_start"] # "running"
                                   /\ pc[Main] \notin {"run", "pre_start"}
  <1>1. FlowInv
    BY DEF IInv
  <1>2. CASE h = "pre_start"
    <2>1. pc[th] = "pre_start"
      BY <1>2, Cases
    <2>2. th = Main
      BY <2>1, <1>1 DEF FlowInv, InGame
    <2>3. QED
      BY <1>2, <2>1, <2>2
  <1>3. CASE h = "post_unpack"
    <2>1. pc[th] \in InGame
      BY <1>3, Cases DEF InGame
    <2>2. QED
      BY <1>1, <1>3, <2>1 DEF FlowInv
  <1>4. CASE h = "pre_destroy"
    <2>1. pc[th] \in {"unwind", "exit"}
      BY <1>4, Cases
    <2>2. CASE pc[th] = "exit"
      <3>1. pc[Main] \in InGame /\ guard["pre_start"] = "true"
        BY <2>2, <1>1 DEF FlowInv, InGame
      <3>2. QED
        BY <1>4, <3>1 DEF InGame
    <2>3. CASE pc[th] = "unwind"
      <3>1. th = Main
        BY <2>3, <1>1 DEF FlowInv, InGame
      <3>2. guard["pre_start"] # "running"
        BY <2>3, <3>1, <1>1 DEF FlowInv
      <3>3. QED
        BY <1>4, <2>3, <3>1, <3>2
    <2>4. QED
      BY <2>1, <2>2, <2>3
  <1>5. QED
    BY <1>2, <1>3, <1>4 DEF Hooks

LEMMA BeginKeeps ==
    ASSUME IInv, NEW th \in GameThreads, NEW h \in Hooks, Begin(th, h)
    PROVE  IInv'
  <1>1. /\ process = "running" /\ pc[th] \in CallSite(h) /\ guard[h] = "fresh"
        /\ guard' = [guard EXCEPT ![h] = "running"]
        /\ runner' = [runner EXCEPT ![h] = th]
        /\ index' = [index EXCEPT ![h] = 1]
        /\ UNCHANGED <<list, process, pc, initialized, thread, called, lateUnpack>>
    BY DEF Begin, CanBegin, FirstIndex
  <1>2. /\ guard' \in [Hooks -> {"fresh", "running", "true", "false"}]
        /\ guard'[h] = "running"
        /\ \A g \in Hooks : g # h => guard'[g] = guard[g]
    BY <1>1 DEF IInv, TypeOK
  <1>3. index' = index
    <2>1. index[h] = 1 /\ index \in [Hooks -> 1..Len(list) + 1]
      BY <1>1 DEF IInv, LoopInv, TypeOK
    <2>2. QED
      BY <1>1, <2>1
  <1>4. TypeOK'
    <2>1. runner' \in [Hooks -> GameThreads \cup {None}]
      BY <1>1 DEF IInv, TypeOK
    <2>2. QED
      BY <1>1, <1>2, <1>3, <2>1 DEF IInv, TypeOK
  <1>5. ListInv'
    BY <1>1, ListUntouched DEF IInv
  <1>6. LoopInv'
    <2>1. ASSUME NEW g \in Hooks, NEW c \in Components
          PROVE  /\ guard'[g] = "fresh" => index[g] = 1
                 /\ guard'[g] = "true" => index[g] = Len(list) + 1
                 /\ called[c][g] = IF Passed(c, g) THEN 1 ELSE 0
      <3>1. (guard'[g] = "fresh" => guard[g] = "fresh") /\ (guard'[g] = "true" => guard[g] = "true")
        BY <1>2
      <3>2. QED
        BY <3>1 DEF IInv, LoopInv
    <2>2. ASSUME NEW g \in Hooks
          PROVE  /\ guard'[g] = "fresh" => index[g] = 1
                 /\ guard'[g] = "true" => index[g] = Len(list) + 1
      <3>1. (guard'[g] = "fresh" => guard[g] = "fresh") /\ (guard'[g] = "true" => guard[g] = "true")
        BY <1>2
      <3>2. QED
        BY <3>1 DEF IInv, LoopInv
    <2>3. QED
      BY <1>1, <1>3, <2>1, <2>2 DEF LoopInv, Passed
  <1>7. FlowInv'
    <2>1. /\ h = "pre_start" => th = Main /\ pc[Main] = "pre_start"
          /\ h = "post_unpack" => guard["pre_start"] = "true"
          /\ h = "pre_destroy" => /\ guard["pre_start"] # "running"
                                  /\ pc[Main] \notin {"run", "pre_start"}
      BY <1>1, Callers
    <2>2. h = "pre_start" => guard["pre_destroy"] = "fresh"
      BY <2>1 DEF IInv, FlowInv
    <2>3. h = "post_unpack" => ~initialized
      BY <1>1 DEF IInv, FlowInv
    <2>4. h = "pre_destroy" => pc[Main] # "returned" /\ process # "exited"
      BY <1>1 DEF IInv, FlowInv
    <2>5. h = "pre_start" => pc[Main] \notin InGame /\ guard["post_unpack"] = "fresh"
      BY <1>1 DEF IInv, FlowInv, InGame
    <2>6. CASE h = "pre_start"
      BY <1>1, <1>2, <2>1, <2>2, <2>5, <2>6 DEF IInv, FlowInv, Hooks
    <2>7. CASE h = "post_unpack"
      BY <1>1, <1>2, <2>1, <2>3, <2>7 DEF IInv, FlowInv, Hooks
    <2>8. CASE h = "pre_destroy"
      BY <1>1, <1>2, <2>1, <2>4, <2>8 DEF IInv, FlowInv, Hooks
    <2>9. QED
      BY <2>6, <2>7, <2>8 DEF Hooks
  <1>8. ThreadInv'
    BY <1>1, ThreadsUntouched DEF IInv
  <1>9. QED
    BY <1>4, <1>5, <1>6, <1>7, <1>8 DEF IInv

LEMMA CallHookKeeps ==
    ASSUME IInv, NEW h \in Hooks, CallHook(h)
    PROVE  IInv'
  <1> USE LoaderAssumption
  <1> DEFINE n == Len(list)
             k == index[h]
             c == list[k]
  <1>1. /\ process = "running" /\ guard[h] = "running"
        /\ k \in DOMAIN list
        /\ thread' = [thread EXCEPT ![c] = ThreadAfter(c, h)]
        /\ called' = [called EXCEPT ![c][h] = IF called[c][h] = 2 THEN 2 ELSE called[c][h] + 1]
        /\ index' = [index EXCEPT ![h] = k + 1]
        /\ lateUnpack' = (lateUnpack \/ (h = "post_unpack" /\ guard["pre_destroy"] # "fresh"))
        /\ UNCHANGED <<list, process, pc, guard, runner, initialized>>
    BY DEF CallHook, InLoop
  <1>2. n \in Nat /\ k \in 1..n /\ c \in Components
    <2>1. n \in Nat /\ DOMAIN list = 1..n /\ list \in Seq(Components)
      BY DomainOfSeq DEF IInv, TypeOK
    <2>2. QED
      BY <1>1, <2>1, ElementOfSeq
  <1>3. /\ index' \in [Hooks -> 1..n + 1] /\ index'[h] = k + 1
        /\ \A g \in Hooks : g # h => index'[g] = index[g]
    <2>1. index \in [Hooks -> 1..n + 1] /\ k + 1 \in 1..n + 1
      BY <1>2 DEF IInv, TypeOK
    <2>2. QED
      BY <1>1, <2>1
  <1>4. called[c][h] = 0
    <2>1. \A i \in 1..k - 1 : list[i] # c
      BY <1>2 DEF IInv, ListInv
    <2>2. ~Passed(c, h)
      BY <2>1 DEF Passed
    <2>3. QED
      BY <1>2, <2>2 DEF IInv, LoopInv
  <1>5. /\ called' \in [Components -> [Hooks -> 0..2]]
        /\ called'[c][h] = 1
        /\ \A d \in Components, g \in Hooks : d # c \/ g # h => called'[d][g] = called[d][g]
    <2>1. called' = [called EXCEPT ![c][h] = 1]
      BY <1>1, <1>4
    <2>2. called \in [Components -> [Hooks -> 0..2]]
      BY DEF IInv, TypeOK
    <2> HIDE DEF c
    <2>3. QED
      BY <1>2, <2>1, <2>2
  <1>6. /\ thread' \in [Components -> {"none", "joinable", "gone"}]
        /\ thread'[c] = ThreadAfter(c, h)
        /\ \A d \in Components : d # c => thread'[d] = thread[d]
    <2>1. thread \in [Components -> {"none", "joinable", "gone"}]
      BY DEF IInv, TypeOK
    <2>2. ThreadAfter(c, h) \in {"none", "joinable", "gone"}
      BY <1>2, <2>1, Cases
    <2> HIDE DEF c
    <2>3. QED
      BY <1>1, <1>2, <2>1, <2>2
  <1>7. lateUnpack' \in BOOLEAN
    BY <1>1 DEF IInv, TypeOK
  <1>8. TypeOK'
    BY <1>1, <1>3, <1>5, <1>6, <1>7 DEF IInv, TypeOK
  <1>9. ListInv'
    BY <1>1, ListUntouched DEF IInv
  <1>10. LoopInv'
    <2>1. ASSUME NEW g \in Hooks
          PROVE  /\ guard'[g] = "fresh" => index'[g] = 1
                 /\ guard'[g] = "true" => index'[g] = Len(list') + 1
      <3>1. CASE g = h
        BY <3>1, <1>1
      <3>2. CASE g # h
        BY <3>2, <1>1, <1>3 DEF IInv, LoopInv
      <3>3. QED
        BY <3>1, <3>2
    <2>2. ASSUME NEW g \in Hooks, NEW d \in Components
          PROVE  called'[d][g] = IF Passed(d, g)' THEN 1 ELSE 0
      <3>1. Passed(d, g)' <=> \E i \in 1..index'[g] - 1 : list[i] = d
        BY <1>1 DEF Passed
      <3>2. called[d][g] = IF Passed(d, g) THEN 1 ELSE 0
        BY DEF IInv, LoopInv
      <3>3. CASE g # h
        BY <3>1, <3>2, <3>3, <1>3, <1>5 DEF Passed
      <3>4. CASE g = h /\ d = c
        <4>1. k \in 1..index'[g] - 1 /\ list[k] = d
          BY <3>4, <1>2, <1>3
        <4>2. Passed(d, g)'
          BY <3>1, <4>1
        <4>3. QED
          BY <4>2, <3>4, <1>5
      <3>5. CASE g = h /\ d # c
        <4>1. \A i \in 1..index'[g] - 1 : i \in 1..index[g] - 1 \/ i = k
          BY <3>5, <1>2, <1>3
        <4>2. \A i \in 1..index[g] - 1 : i \in 1..index'[g] - 1
          BY <3>5, <1>2, <1>3
        <4>3. Passed(d, g)' <=> Passed(d, g)
          BY <3>1, <3>5, <4>1, <4>2 DEF Passed
        <4>4. called'[d][g] = called[d][g]
          BY <3>5, <1>5
        <4>5. QED
          BY <4>3, <4>4, <3>2
      <3>6. QED
        BY <3>3, <3>4, <3>5
    <2>3. QED
      BY <2>1, <2>2 DEF LoopInv
  <1>11. FlowInv'
    BY <1>1 DEF IInv, FlowInv
  <1>12. ThreadInv'
    <2>1. ASSUME NEW d \in Components, called'[d]["pre_destroy"] > 0, thread'[d] = "joinable"
          PROVE  ThreadAt[d] = "post_unpack" /\ lateUnpack'
      <3>1. CASE d # c
        <4>1. called[d]["pre_destroy"] > 0 /\ thread[d] = "joinable"
          BY <3>1, <2>1, <1>5, <1>6 DEF Hooks
        <4>2. QED
          BY <4>1, <1>1 DEF IInv, ThreadInv
      <3>2. CASE d = c /\ h = "pre_destroy"
        <4>1. ThreadAt[c] # h
          BY <1>2, <3>2
        <4>2. ThreadAfter(c, h) # "joinable"
          BY <1>2, <3>2, <4>1, Cases
        <4>3. QED
          BY <2>1, <3>2, <4>2, <1>6
      <3>3. CASE d = c /\ h # "pre_destroy"
        <4>1. called[c]["pre_destroy"] > 0
          BY <2>1, <3>3, <1>5 DEF Hooks
        <4>2. guard["pre_destroy"] # "fresh"
          BY <4>1, <1>2, NothingCalledYet DEF Hooks
        <4>3. h = "post_unpack"
          BY <4>2, <3>3, <1>1 DEF IInv, FlowInv, Hooks
        <4>4. lateUnpack'
          BY <1>1, <4>2, <4>3
        <4>5. CASE ThreadAt[c] = h
          BY <4>3, <4>4, <4>5, <3>3
        <4>6. CASE ThreadAt[c] # h
          <5>1. thread[c] = "joinable"
            BY <4>6, <3>3, <2>1, <1>2, <1>6, Cases
          <5>2. QED
            BY <5>1, <4>1, <4>4, <3>3, <1>2 DEF IInv, ThreadInv
        <4>7. QED
          BY <4>5, <4>6
      <3>4. QED
        BY <3>1, <3>2, <3>3
    <2>2. QED
      BY <2>1 DEF ThreadInv
  <1>13. QED
    BY <1>8, <1>9, <1>10, <1>11, <1>12 DEF IInv

(* The end of a loop, by an exception or behind the last component. *)
LEMMA LoopEndKeeps ==
    ASSUME IInv, NEW h \in Hooks, HookThrows(h) \/ EndLoop(h)
    PROVE  IInv'
  <1>1. /\ process = "running" /\ guard[h] = "running"
        /\ UNCHANGED <<list, process, pc, runner, index, initialized, thread, called, lateUnpack>>
    BY DEF HookThrows, EndLoop, InLoop
  <1>2. \/ guard' = [guard EXCEPT ![h] = "false"]
        \/ guard' = [guard EXCEPT ![h] = "true"] /\ index[h] \notin DOMAIN list
    BY DEF HookThrows, EndLoop, AfterThrow
  <1>3. guard \in [Hooks -> {"fresh", "running", "true", "false"}]
    BY DEF IInv, TypeOK
  <1>4. /\ guard' \in [Hooks -> {"fresh", "running", "true", "false"}]
        /\ guard'[h] \in {"true", "false"}
        /\ \A g \in Hooks : g # h => guard'[g] = guard[g]
    BY <1>2, <1>3
  <1>5. TypeOK'
    BY <1>1, <1>4 DEF IInv, TypeOK
  <1>6. ListInv'
    BY <1>1, ListUntouched DEF IInv
  <1>7. LoopInv'
    <2>1. guard'[h] = "true" => index[h] = Len(list) + 1
      <3>1. index[h] \in 1..Len(list) + 1 /\ DOMAIN list = 1..Len(list) /\ Len(list) \in Nat
        BY DomainOfSeq DEF IInv, TypeOK
      <3>2. guard'[h] = "true" => index[h] \notin DOMAIN list
        BY <1>2, <1>3
      <3>3. QED
        BY <3>1, <3>2
    <2>2. ASSUME NEW g \in Hooks
          PROVE  /\ guard'[g] = "fresh" => index[g] = 1
                 /\ guard'[g] = "true" => index[g] = Len(list) + 1
      <3>1. CASE g = h
        BY <3>1, <2>1, <1>4
      <3>2. CASE g # h
        BY <3>2, <1>4 DEF IInv, LoopInv
      <3>3. QED
        BY <3>1, <3>2
    <2>3. QED
      BY <1>1, <2>2 DEF IInv, LoopInv, Passed
  <1>8. FlowInv'
    <2>1. CASE h = "pre_start"
      <3>1. /\ pc[Main] = "pre_start" /\ guard["pre_destroy"] = "fresh"
            /\ guard["post_unpack"] = "fresh"
        BY <1>1, <2>1 DEF IInv, FlowInv
      <3>2. QED
        BY <1>1, <1>4, <2>1, <3>1 DEF IInv, FlowInv, InGame, Hooks
    <2>2. CASE h = "post_unpack"
      BY <1>1, <1>4, <2>2 DEF IInv, FlowInv, Hooks
    <2>3. CASE h = "pre_destroy"
      <3>1. guard["pre_start"] # "running" /\ pc[Main] # "returned" /\ process # "exited"
        BY <1>1, <2>3 DEF IInv, FlowInv
      <3>2. QED
        BY <1>1, <1>4, <2>3, <3>1 DEF IInv, FlowInv, Hooks
    <2>4. QED
      BY <2>1, <2>2, <2>3 DEF Hooks
  <1>9. ThreadInv'
    BY <1>1, ThreadsUntouched DEF IInv
  <1>10. QED
    BY <1>5, <1>6, <1>7, <1>8, <1>9 DEF IInv

-----------------------------------------------------------------------------
(* The callers. *)

(* They leave the loops alone: what is left to show is FlowInv. *)
LEMMA CallersKeep ==
    ASSUME IInv,
           UNCHANGED <<list, guard, runner, index, thread, called, lateUnpack>>,
           pc' \in [GameThreads -> Places],
           process' \in {"running", "exited", "terminated"},
           process = "loading" => ToSet(list) = Components,
           initialized' \in BOOLEAN,
           FlowInv'
    PROVE  IInv'
  <1>1. TypeOK'
    BY DEF IInv, TypeOK
  <1>2. ListInv'
    <2>1. ASSUME process = "loading", NEW c \in Components
          PROVE  \E i \in 1..Len(list) : list[i] = c
      <3>1. c \in ToSet(list) /\ DOMAIN list = 1..Len(list)
        BY <2>1, DomainOfSeq DEF IInv, TypeOK
      <3>2. QED
        BY <3>1 DEF ToSet
    <2>2. \A c \in Components : \E i \in 1..Len(list) : list[i] = c
      BY <2>1 DEF IInv, ListInv
    <2>3. QED
      BY <2>2 DEF IInv, ListInv
  <1>3. LoopInv'
    BY LoopsUntouched DEF IInv
  <1>4. ThreadInv'
    BY ThreadsUntouched DEF IInv
  <1>5. QED
    BY <1>1, <1>2, <1>3, <1>4 DEF IInv

LEMMA AttachKeeps ==
    ASSUME IInv, Attach
    PROVE  IInv'
  <1> USE LoaderAssumption
  <1>1. /\ process = "loading" /\ ToSet(list) = Components
        /\ process' = "running" /\ pc' = [pc EXCEPT ![Main] = "run"]
        /\ UNCHANGED <<list, guard, runner, index, initialized, thread, called, lateUnpack>>
    BY DEF Attach, Go
  <1>2. /\ \A th \in GameThreads : pc[th] = "unborn"
        /\ \A h \in Hooks : guard[h] = "fresh"
    BY <1>1 DEF IInv, ListInv
  <1>3. /\ pc' \in [GameThreads -> Places] /\ pc'[Main] = "run"
        /\ \A th \in GameThreads : th # Main => pc'[th] = "unborn"
    BY <1>1, <1>2 DEF IInv, TypeOK, Places
  <1>4. FlowInv'
    BY <1>1, <1>2, <1>3 DEF IInv, FlowInv, InGame, Hooks
  <1>5. QED
    BY <1>1, <1>3, <1>4, CallersKeep DEF IInv, TypeOK

(* The main thread before the game, and after a start that failed. *)
LEMMA MainKeeps ==
    ASSUME IInv, PatchImports \/ UnwindReturns \/ MainReturned
    PROVE  IInv'
  <1> USE LoaderAssumption
  <1>1. /\ process = "running" /\ pc[Main] \in {"run", "unwind", "returned"}
        /\ UNCHANGED <<list, guard, runner, index, initialized, thread, called, lateUnpack>>
    BY DEF PatchImports, UnwindReturns, MainReturned, At
  <1>2. \/ /\ process' = process /\ pc[Main] = "run" /\ guard["pre_destroy"] = "fresh"
           /\ \E place \in {"pre_start", "unwind"} : pc' = [pc EXCEPT ![Main] = place]
        \/ /\ process' = process /\ guard["pre_destroy"] = "true"
           /\ pc' = [pc EXCEPT ![Main] = "returned"]
        \/ process' = "exited" /\ guard["pre_destroy"] = "true" /\ pc' = pc
        \/ process' = "terminated" /\ pc' = pc
    BY DEF PatchImports, UnwindReturns, MainReturned, At, Go, Evaluated, IInv, FlowInv
  <1>3. \A th \in GameThreads : pc[th] \notin InGame
    BY <1>1 DEF IInv, FlowInv, InGame
  <1>4. guard["pre_start"] # "running"
    BY <1>1 DEF IInv, FlowInv
  <1>5. pc \in [GameThreads -> Places]
    BY DEF IInv, TypeOK
  <1>6. /\ pc' \in [GameThreads -> Places]
        /\ \A th \in GameThreads : th # Main => pc'[th] = pc[th]
        /\ pc'[Main] \in {"run", "pre_start", "unwind", "returned"}
    BY <1>1, <1>2, <1>5 DEF Places
  <1>7. FlowInv'
    <2>1. /\ guard["pre_destroy"] # "fresh" => pc'[Main] \notin {"run", "pre_start"}
          /\ pc'[Main] = "returned" \/ process' = "exited" => guard["pre_destroy"] = "true"
      BY <1>1, <1>2, <1>5 DEF IInv, FlowInv
    <2>2. QED
      BY <1>1, <1>3, <1>4, <1>6, <2>1 DEF IInv, FlowInv, InGame
  <1>8. QED
    BY <1>1, <1>2, <1>6, <1>7, CallersKeep DEF IInv, TypeOK

LEMMA PreStartReturnsKeeps ==
    ASSUME IInv, PreStartReturns
    PROVE  IInv'
  <1> USE LoaderAssumption
  <1>1. /\ process = "running" /\ pc[Main] = "pre_start"
        /\ guard["pre_start"] \in {"true", "false"}
        /\ pc' = IF guard["pre_start"] = "true"
                 THEN [th \in GameThreads |-> "game"]
                 ELSE [pc EXCEPT ![Main] = "unwind"]
        /\ UNCHANGED <<list, process, guard, runner, index, initialized, thread, called, lateUnpack>>
    BY DEF PreStartReturns, At, Evaluated, AfterFailure
  <1>2. \A th \in GameThreads : pc[th] \notin InGame
    BY <1>1 DEF IInv, FlowInv, InGame
  <1>3. pc \in [GameThreads -> Places]
    BY DEF IInv, TypeOK
  <1>4. CASE guard["pre_start"] = "true"
    <2>1. pc' \in [GameThreads -> Places] /\ \A th \in GameThreads : pc'[th] = "game"
      BY <1>1, <1>4 DEF Places
    <2>2. FlowInv'
      BY <1>1, <1>4, <2>1 DEF IInv, FlowInv, InGame
    <2>3. QED
      BY <1>1, <2>1, <2>2, CallersKeep DEF IInv, TypeOK
  <1>5. CASE guard["pre_start"] # "true"
    <2>1. /\ pc' \in [GameThreads -> Places] /\ pc'[Main] = "unwind"
          /\ \A th \in GameThreads : th # Main => pc'[th] = pc[th]
      BY <1>1, <1>3, <1>5 DEF Places
    <2>2. FlowInv'
      BY <1>1, <1>2, <1>5, <2>1 DEF IInv, FlowInv, InGame
    <2>3. QED
      BY <1>1, <2>1, <2>2, CallersKeep DEF IInv, TypeOK
  <1>6. QED
    BY <1>4, <1>5

(* A thread in the game's code. *)
LEMMA GameKeeps ==
    ASSUME IInv, NEW th \in GameThreads,
           \/ GetSystemMetrics(th) \/ MetricsReturns(th) \/ ExitHook(th) \/ ExitProcess(th)
    PROVE  IInv'
  <1> USE LoaderAssumption
  <1>1. /\ process = "running" /\ pc[th] \in InGame
        /\ UNCHANGED <<list, guard, runner, index, thread, called, lateUnpack>>
    BY DEF GetSystemMetrics, MetricsReturns, ExitHook, ExitProcess, At, InGame
  <1>2. \/ pc' = pc
        \/ \E place \in InGame : pc' = [pc EXCEPT ![th] = place]
    BY DEF GetSystemMetrics, MetricsReturns, ExitHook, ExitProcess, Go, InGame
  <1>3. \/ UNCHANGED initialized
        \/ initialized' = TRUE /\ guard["post_unpack"] = "true"
    BY DEF GetSystemMetrics, MetricsReturns, ExitHook, ExitProcess, Evaluated
  <1>4. \/ process' \in {"running", "terminated"}
        \/ process' = "exited" /\ guard["pre_destroy"] = "true"
    BY <1>1 DEF GetSystemMetrics, MetricsReturns, ExitHook, ExitProcess, Evaluated
  <1>5. /\ \A u \in GameThreads : /\ u # Main => pc[u] \in InGame \cup {"unborn"}
                                  /\ pc[u] \in InGame => pc[Main] \in InGame
        /\ pc[Main] \in InGame /\ guard["pre_start"] = "true"
    BY <1>1 DEF IInv, FlowInv
  <1>6. pc \in [GameThreads -> Places]
    BY DEF IInv, TypeOK
  <1>7. /\ pc' \in [GameThreads -> Places] /\ pc'[Main] \in InGame
        /\ \A u \in GameThreads : u # Main => pc'[u] \in InGame \cup {"unborn"}
    <2>1. CASE pc' = pc
      BY <2>1, <1>5, <1>6
    <2>2. CASE \E place \in InGame : pc' = [pc EXCEPT ![th] = place]
      <3>1. PICK place \in InGame : pc' = [pc EXCEPT ![th] = place]
        BY <2>2
      <3>2. place \in Places
        BY DEF InGame, Places
      <3>3. QED
        BY <3>1, <3>2, <1>5, <1>6
    <2>3. QED
      BY <1>2, <2>1, <2>2
  <1>8. FlowInv'
    <2>1. initialized' => guard["post_unpack"] = "true"
      BY <1>3 DEF IInv, FlowInv
    <2>2. pc'[Main] = "returned" \/ process' = "exited" => guard["pre_destroy"] = "true"
      BY <1>4, <1>7 DEF InGame
    <2>3. pc'[Main] \notin {"run", "pre_start"}
      BY <1>7 DEF InGame
    <2>4. QED
      BY <1>1, <1>5, <1>7, <2>1, <2>2, <2>3 DEF FlowInv
  <1>9. initialized' \in BOOLEAN /\ process' \in {"running", "exited", "terminated"}
    BY <1>3, <1>4 DEF IInv, TypeOK
  <1>10. QED
    BY <1>1, <1>7, <1>8, <1>9, CallersKeep

-----------------------------------------------------------------------------
(* The invariant holds in every reachable state. *)

LEMMA StepKeeps ==
    ASSUME IInv, [Next]_vars
    PROVE  IInv'
  <1>1. CASE \E c \in Components : Register(c)
    BY <1>1, RegisterKeeps
  <1>2. CASE Attach
    BY <1>2, AttachKeeps
  <1>3. CASE PatchImports \/ UnwindReturns \/ MainReturned
    BY <1>3, MainKeeps
  <1>4. CASE \E th \in GameThreads, h \in Hooks : Begin(th, h)
    BY <1>4, BeginKeeps
  <1>5. CASE \E h \in Hooks : CallHook(h)
    BY <1>5, CallHookKeeps
  <1>6. CASE \E h \in Hooks : HookThrows(h) \/ EndLoop(h)
    BY <1>6, LoopEndKeeps
  <1>7. CASE PreStartReturns
    BY <1>7, PreStartReturnsKeeps
  <1>8. CASE \E th \in GameThreads :
                 \/ GetSystemMetrics(th) \/ MetricsReturns(th) \/ ExitHook(th) \/ ExitProcess(th)
    BY <1>8, GameKeeps
  <1>9. CASE UNCHANGED vars
    <2>1. TypeOK'
      BY <1>9 DEF vars, IInv, TypeOK
    <2>2. ListInv' /\ FlowInv'
      BY <1>9 DEF vars, IInv, ListInv, FlowInv
    <2>3. LoopInv' /\ ThreadInv'
      BY <1>9, LoopsUntouched, ThreadsUntouched DEF vars, IInv
    <2>4. QED
      BY <2>1, <2>2, <2>3 DEF IInv
  <1>10. QED
    BY <1>1, <1>2, <1>3, <1>4, <1>5, <1>6, <1>7, <1>8, <1>9 DEF Next

(* The inductive invariant behind the theorems below. *)
THEOREM Invariance == Spec => []IInv
  <1>1. Init => IInv
    BY Initially
  <1>2. IInv /\ [Next]_vars => IInv'
    BY StepKeeps
  <1>3. QED
    BY <1>1, <1>2, PTL DEF Spec

-----------------------------------------------------------------------------
(* What it says about the loader. *)

(* The variables keep their types; the index of a loop stays in the list or *)
(* one behind it.                                                           *)
THEOREM TypeCorrect == Spec => []TypeOK
  <1>1. IInv => TypeOK
    BY DEF IInv
  <1>2. QED
    BY <1>1, Invariance, PTL

(* component_loader.cpp: each hook is called at most once per component, and *)
(* on one of higher priority first, for any order of registration and any   *)
(* threads that race into the functions of the loader.                      *)
THEOREM CalledInOrder == Spec => []HooksInOrder
  <1>1. ASSUME IInv PROVE HooksInOrder
    <2>1. ASSUME NEW h \in Hooks, NEW c \in Components
          PROVE  called[c][h] \in {0, 1} /\ (called[c][h] > 0 => Passed(c, h))
      <3>1. called[c][h] = IF Passed(c, h) THEN 1 ELSE 0
        BY <1>1 DEF IInv, LoopInv
      <3>2. QED
        BY <3>1
    <2>2. ASSUME NEW h \in Hooks, NEW c \in Components, NEW d \in Components,
                 Priority[c] > Priority[d], called[d][h] > 0
          PROVE  called[c][h] > 0
      <3>1. PICK i \in 1..index[h] - 1 : list[i] = d
        BY <2>1, <2>2 DEF Passed
      <3>2. Len(list) \in Nat /\ index[h] \in 1..Len(list) + 1
        BY <1>1, DomainOfSeq DEF IInv, TypeOK
      <3>3. process # "loading"
        <4>1. guard[h] # "fresh"
          BY <1>1, <2>2, NothingCalledYet
        <4>2. QED
          BY <1>1, <4>1 DEF IInv, ListInv
      <3>4. PICK j \in 1..Len(list) : list[j] = c
        BY <1>1, <3>3 DEF IInv, ListInv
      <3>5. i \in 1..Len(list)
        BY <3>1, <3>2
      <3>6. ~(i < j)
        <4>1. i < j => Priority[d] >= Priority[c]
          BY <1>1, <3>1, <3>4, <3>5 DEF IInv, ListInv
        <4>2. Priority[c] \in Nat /\ Priority[d] \in Nat
          BY LoaderAssumption
        <4>3. QED
          BY <2>2, <4>1, <4>2
      <3>7. j \in 1..index[h] - 1
        BY <3>1, <3>2, <3>4, <3>6
      <3>8. Passed(c, h)
        BY <3>4, <3>7 DEF Passed
      <3>9. called[c][h] = 1
        BY <1>1, <3>8 DEF IInv, LoopInv
      <3>10. QED
        BY <3>9
    <2>3. \A h \in Hooks, c \in Components : called[c][h] <= 1
      BY <2>1
    <2>4. QED
      BY <2>2, <2>3 DEF HooksInOrder
  <1>2. QED
    BY <1>1, Invariance, PTL

(* main.cpp: no code of the game runs and nothing is unpacked before every  *)
(* component has been started.                                              *)
THEOREM StartIsComplete == Spec => []StartedBeforeUnpack
  <1>1. ASSUME IInv PROVE StartedBeforeUnpack
    <2>1. ASSUME NEW th \in GameThreads, pc[th] \in InGame
          PROVE  guard["pre_start"] = "true"
      BY <1>1, <2>1 DEF IInv, FlowInv
    <2>2. ASSUME NEW c \in Components, called[c]["post_unpack"] > 0
          PROVE  guard["pre_start"] = "true"
      <3>1. guard["post_unpack"] # "fresh"
        BY <1>1, <2>2, NothingCalledYet DEF Hooks
      <3>2. QED
        BY <1>1, <3>1 DEF IInv, FlowInv
    <2>3. guard["pre_start"] = "true" => \A d \in Components : called[d]["pre_start"] = 1
      BY <1>1, AllCalled DEF Hooks
    <2>4. QED
      BY <2>1, <2>2, <2>3 DEF StartedBeforeUnpack, InGame
  <1>2. QED
    BY <1>1, Invariance, PTL

(* get_system_metrics answers only after every component has been unpacked, *)
(* whichever thread did it.                                                 *)
THEOREM UnpackIsComplete == Spec => []MetricsAfterUnpack
  <1>1. ASSUME IInv PROVE MetricsAfterUnpack
    <2>1. initialized => guard["post_unpack"] = "true"
      BY <1>1 DEF IInv, FlowInv
    <2>2. guard["post_unpack"] = "true" => \A c \in Components : called[c]["post_unpack"] = 1
      BY <1>1, AllCalled DEF Hooks
    <2>3. QED
      BY <2>1, <2>2 DEF MetricsAfterUnpack
  <1>2. QED
    BY <1>1, Invariance, PTL

(* All three of them: the hooks of the components are called in their place. *)
THEOREM CallsAreInPlace == Spec => []CallsInPlace
  <1>1. HooksInOrder /\ StartedBeforeUnpack /\ MetricsAfterUnpack => CallsInPlace
    BY DEF CallsInPlace
  <1>2. QED
    BY <1>1, CalledInOrder, StartIsComplete, UnpackIsComplete, PTL

(* A process that exits has destroyed every component and joined every      *)
(* thread but one made by a post_unpack that came too late.                 *)
THEOREM ExitIsClean == Spec => []CleanExit
  <1>1. ASSUME IInv PROVE CleanExit
    <2>1. process = "exited" => guard["pre_destroy"] = "true"
      BY <1>1 DEF IInv, FlowInv
    <2>2. process = "exited" => \A c \in Components : called[c]["pre_destroy"] = 1
      BY <1>1, <2>1, AllCalled DEF Hooks
    <2>3. QED
      BY <1>1, <2>2 DEF CleanExit, IInv, ThreadInv
  <1>2. QED
    BY <1>1, Invariance, PTL
=============================================================================
