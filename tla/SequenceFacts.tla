---------------------------- MODULE SequenceFacts ----------------------------
(***************************************************************************)
(* Lemmas about the lists and queues of the models: what appending,        *)
(* concatenating, erasing and taking a part leave at which position, and   *)
(* sequences of consecutive numbers.                                       *)
(***************************************************************************)
EXTENDS SequencesExt, SequenceTheorems, WellFoundedInduction, TLAPS

LEMMA RemoveAtProperties ==
    ASSUME NEW S, NEW s \in Seq(S), NEW i \in 1..Len(s)
    PROVE  /\ RemoveAt(s, i) \in Seq(S)
           /\ Len(RemoveAt(s, i)) = Len(s) - 1
           /\ \A j \in 1..Len(s) - 1 :
                 RemoveAt(s, i)[j] = IF j < i THEN s[j] ELSE s[j + 1]
  <1> DEFINE front == SubSeq(s, 1, i - 1)
             back  == SubSeq(s, i + 1, Len(s))
  <1>0. Len(s) \in Nat /\ \A j \in 1..Len(s) : s[j] \in S
    BY LenProperties, ElementOfSeq
  <1>1. /\ front \in Seq(S)
        /\ Len(front) = i - 1
        /\ \A j \in 1..i - 1 : front[j] = s[j]
    <2>1. \A j \in 1..i - 1 : s[j] \in S
      BY <1>0
    <2>2. QED
      BY <1>0, <2>1, SubSeqProperties
  <1>2. /\ back \in Seq(S)
        /\ Len(back) = Len(s) - i
        /\ \A j \in 1..Len(s) - i : back[j] = s[i + j]
    <2>1. \A j \in i + 1..Len(s) : s[j] \in S
      BY <1>0
    <2>2. QED
      BY <1>0, <2>1, SubSeqProperties
  <1>3. /\ front \o back \in Seq(S)
        /\ Len(front \o back) = Len(s) - 1
        /\ \A j \in 1..Len(s) - 1 :
              (front \o back)[j] = IF j <= i - 1 THEN front[j] ELSE back[j - (i - 1)]
    <2> HIDE DEF front, back
    <2>1. /\ front \o back \in Seq(S)
          /\ Len(front \o back) = Len(front) + Len(back)
          /\ \A j \in 1..Len(front) + Len(back) :
                (front \o back)[j] =
                    IF j <= Len(front) THEN front[j] ELSE back[j - Len(front)]
      BY <1>1, <1>2, ConcatProperties, Zenon
    <2>2. Len(front) + Len(back) = Len(s) - 1
      BY <1>0, <1>1, <1>2
    <2>3. QED
      BY <1>1, <2>1, <2>2
  <1>4. QED
    <2>1. RemoveAt(s, i) = front \o back
      BY DEF RemoveAt
    <2> HIDE DEF front, back
    <2>2. QED
      BY <1>0, <1>1, <1>2, <1>3, <2>1

LEMMA AppendFacts ==
    ASSUME NEW S, NEW s \in Seq(S), NEW e \in S
    PROVE  /\ Append(s, e) \in Seq(S)
           /\ Len(Append(s, e)) = Len(s) + 1
           /\ \A j \in 1..Len(s) : Append(s, e)[j] = s[j]
           /\ Append(s, e)[Len(s) + 1] = e
  BY AppendProperties

LEMMA DomainOfSeq ==
    ASSUME NEW S, NEW s \in Seq(S)
    PROVE  DOMAIN s = 1..Len(s) /\ Len(s) \in Nat
  BY LenProperties

LEMMA ConcatFacts ==
    ASSUME NEW S, NEW s \in Seq(S), NEW u \in Seq(S)
    PROVE  /\ s \o u \in Seq(S)
           /\ Len(s) \in Nat /\ Len(u) \in Nat /\ Len(s \o u) = Len(s) + Len(u)
           /\ \A j \in 1..Len(s) : j \in 1..Len(s \o u) /\ (s \o u)[j] = s[j]
           /\ \A j \in 1..Len(u) :
                 Len(s) + j \in 1..Len(s \o u) /\ (s \o u)[Len(s) + j] = u[j]
           /\ \A j \in 1..Len(s \o u) :
                 \/ j \in 1..Len(s) /\ (s \o u)[j] = s[j]
                 \/ j - Len(s) \in 1..Len(u) /\ (s \o u)[j] = u[j - Len(s)]
  <1> DEFINE both == s \o u
  <1>1. /\ both \in Seq(S)
        /\ Len(both) = Len(s) + Len(u)
        /\ \A j \in 1..Len(s) + Len(u) :
              both[j] = IF j <= Len(s) THEN s[j] ELSE u[j - Len(s)]
    BY ConcatProperties, Zenon
  <1>2. Len(s) \in Nat /\ Len(u) \in Nat
    BY LenProperties
  <1> HIDE DEF both
  <1>3. \A j \in 1..Len(s) : j \in 1..Len(both) /\ both[j] = s[j]
    BY <1>1, <1>2
  <1>4. ASSUME NEW j \in 1..Len(u)
        PROVE  Len(s) + j \in 1..Len(both) /\ both[Len(s) + j] = u[j]
    <2>1. /\ Len(s) + j \in 1..Len(s) + Len(u)
          /\ ~(Len(s) + j <= Len(s)) /\ (Len(s) + j) - Len(s) = j
      BY <1>2
    <2>2. both[Len(s) + j] = u[(Len(s) + j) - Len(s)]
      BY <1>1, <2>1, Zenon
    <2>3. QED
      BY <1>1, <2>1, <2>2, Zenon
  <1>5. ASSUME NEW j \in 1..Len(both)
        PROVE  \/ j \in 1..Len(s) /\ both[j] = s[j]
               \/ j - Len(s) \in 1..Len(u) /\ both[j] = u[j - Len(s)]
    <2>1. j \in 1..Len(s) + Len(u)
      BY <1>1, Zenon
    <2>2. both[j] = IF j <= Len(s) THEN s[j] ELSE u[j - Len(s)]
      BY <1>1, <2>1, Zenon
    <2>3. IF j <= Len(s) THEN j \in 1..Len(s) ELSE j - Len(s) \in 1..Len(u)
      BY <2>1, <1>2
    <2>4. QED
      BY <2>2, <2>3, Zenon
  <1>6. QED
    BY <1>1, <1>2, <1>3, <1>4, <1>5 DEF both

(* Erasing position i keeps every other element, and nothing else. *)
LEMMA EraseFacts ==
    ASSUME NEW S, NEW s \in Seq(S), NEW i \in 1..Len(s)
    PROVE  /\ RemoveAt(s, i) \in Seq(S)
           /\ Len(s) \in Nat /\ Len(RemoveAt(s, i)) = Len(s) - 1
           /\ \A j \in 1..Len(RemoveAt(s, i)) :
                 \/ j < i /\ RemoveAt(s, i)[j] = s[j]
                 \/ j >= i /\ j + 1 \in 1..Len(s) /\ RemoveAt(s, i)[j] = s[j + 1]
           /\ \A k \in 1..Len(s) :
                 k # i => \E j \in 1..Len(RemoveAt(s, i)) : RemoveAt(s, i)[j] = s[k]
  <1> DEFINE rest == RemoveAt(s, i)
  <1>1. /\ rest \in Seq(S)
        /\ Len(s) \in Nat /\ Len(rest) = Len(s) - 1
        /\ \A j \in 1..Len(s) - 1 : rest[j] = IF j < i THEN s[j] ELSE s[j + 1]
    BY RemoveAtProperties, LenProperties
  <1> HIDE DEF rest
  <1>2. \A j \in 1..Len(rest) :
          \/ j < i /\ rest[j] = s[j]
          \/ j >= i /\ j + 1 \in 1..Len(s) /\ rest[j] = s[j + 1]
    BY <1>1
  <1>3. ASSUME NEW k \in 1..Len(s), k # i
        PROVE  \E j \in 1..Len(rest) : rest[j] = s[k]
    <2>1. CASE k < i
      <3>1. k \in 1..Len(rest) /\ rest[k] = s[k]
        BY <2>1, <1>1
      <3>2. QED
        BY <3>1
    <2>2. CASE k > i
      <3>1. k - 1 \in 1..Len(rest) /\ rest[k - 1] = s[k]
        BY <2>2, <1>1
      <3>2. QED
        BY <3>1
    <2>3. QED
      BY <2>1, <2>2, <1>3
  <1>4. QED
    BY <1>1, <1>2, <1>3 DEF rest

-----------------------------------------------------------------------------
(* Consecutive numbers. *)

LEMMA NumbersProperties ==
    ASSUME NEW n \in Nat, NEW k \in Nat
    PROVE  /\ [i \in 1..n |-> k + i] \in Seq(Nat)
           /\ Len([i \in 1..n |-> k + i]) = n
           /\ \A j \in 1..n : [i \in 1..n |-> k + i][j] = k + j
  OBVIOUS

LEMMA NumbersAreEqual ==
    ASSUME NEW n \in Nat, NEW k \in Nat, NEW s \in Seq(Nat),
           Len(s) = n, \A i \in 1..n : s[i] = k + i
    PROVE  s = [i \in 1..n |-> k + i]
  BY NumbersProperties, SeqEqual

(* Taking the first n elements of a queue away. *)
LEMMA SplitProperties ==
    ASSUME NEW S, NEW q \in Seq(S), NEW n \in 0..Len(q)
    PROVE  /\ SubSeq(q, 1, n) \in Seq(S)
           /\ Len(SubSeq(q, 1, n)) = n
           /\ \A i \in 1..n : SubSeq(q, 1, n)[i] = q[i]
           /\ SubSeq(q, n + 1, Len(q)) \in Seq(S)
           /\ Len(SubSeq(q, n + 1, Len(q))) = Len(q) - n
           /\ \A i \in 1..Len(q) - n : SubSeq(q, n + 1, Len(q))[i] = q[n + i]
  <1>1. Len(q) \in Nat /\ n \in Int /\ \A j \in 1..Len(q) : q[j] \in S
    BY LenProperties, ElementOfSeq
  <1>2. /\ SubSeq(q, 1, n) \in Seq(S)
        /\ Len(SubSeq(q, 1, n)) = n
        /\ \A i \in 1..n : SubSeq(q, 1, n)[i] = q[i]
    <2>1. \A j \in 1..n : q[j] \in S
      BY <1>1
    <2>2. QED
      BY <1>1, <2>1, SubSeqProperties
  <1>3. /\ SubSeq(q, n + 1, Len(q)) \in Seq(S)
        /\ Len(SubSeq(q, n + 1, Len(q))) = Len(q) - n
        /\ \A i \in 1..Len(q) - n : SubSeq(q, n + 1, Len(q))[i] = q[n + i]
    <2>1. \A j \in n + 1..Len(q) : q[j] \in S
      BY <1>1
    <2>2. QED
      BY <1>1, <2>1, SubSeqProperties
  <1>4. QED
    BY <1>2, <1>3

(* The first element and what is behind it. *)
LEMMA TailFacts ==
    ASSUME NEW S, NEW q \in Seq(S), q # <<>>
    PROVE  /\ Len(q) \in Nat /\ Len(q) >= 1 /\ DOMAIN q = 1..Len(q)
           /\ Head(q) \in S /\ Head(q) = q[1]
           /\ Tail(q) \in Seq(S)
           /\ Len(Tail(q)) = Len(q) - 1 /\ DOMAIN Tail(q) = 1..Len(q) - 1
           /\ \A j \in 1..Len(q) - 1 : Tail(q)[j] = q[j + 1]
  <1>1. Len(q) \in Nat \ {0} /\ DOMAIN q = 1..Len(q)
    BY EmptySeq, DomainOfSeq
  <1>2. Head(q) \in S /\ Tail(q) \in Seq(S) /\ Len(Tail(q)) = Len(q) - 1
    BY HeadTailProperties
  <1>3. DOMAIN Tail(q) = 1..Len(q) - 1
    BY <1>2, DomainOfSeq
  <1>4. Tail(q) = SubSeq(q, 1 + 1, Len(q)) /\ 1 \in 0..Len(q)
    BY <1>1, TailIsSubSeq
  <1>5. \A j \in 1..Len(q) - 1 : Tail(q)[j] = q[j + 1]
    BY <1>1, <1>4, SplitProperties
  <1>6. Head(q) = q[1]
    BY <1>1
  <1>7. QED
    BY <1>1, <1>2, <1>3, <1>5, <1>6

(* One element and two more. *)
LEMMA ThreeElements ==
    ASSUME NEW a, NEW b, NEW c
    PROVE  <<a>> \o <<b, c>> = <<a, b, c>>
  <1> DEFINE S == {a, b, c}
  <1>1. <<a>> \in Seq(S) /\ <<b, c>> \in Seq(S) /\ <<a, b, c>> \in Seq(S)
        /\ Len(<<a>>) = 1 /\ Len(<<b, c>>) = 2 /\ Len(<<a, b, c>>) = 3
    OBVIOUS
  <1> HIDE DEF S
  <1> DEFINE both == <<a>> \o <<b, c>>
  <1>2. /\ both \in Seq(S) /\ Len(both) = Len(<<a>>) + Len(<<b, c>>)
        /\ \A j \in 1..Len(<<a>>) + Len(<<b, c>>) :
              both[j] = IF j <= Len(<<a>>) THEN <<a>>[j] ELSE <<b, c>>[j - Len(<<a>>)]
    BY <1>1, ConcatProperties, Zenon
  <1> HIDE DEF both
  <1>3. Len(both) = 3 /\ \A j \in 1..3 : both[j] = IF j <= 1 THEN <<a>>[j] ELSE <<b, c>>[j - 1]
    BY <1>1, <1>2
  <1>4. \A j \in 1..3 : both[j] = <<a, b, c>>[j]
    BY <1>3
  <1>5. both = <<a, b, c>>
    BY <1>1, <1>2, <1>3, <1>4, SeqEqual
  <1>6. QED
    BY <1>5 DEF both

LEMMA ThirdOfThree ==
    ASSUME NEW S, NEW two \in Seq(S), NEW c \in S, NEW three \in Seq(S)
    PROVE  /\ Len(two) = 2 /\ Len(three) = 3
           /\ (\A j \in 1..2 : three[j] = two[j]) /\ three[3] = c
           => Append(two, c) = three
  <1> DEFINE both == Append(two, c)
  <1>1. /\ both \in Seq(S)
        /\ Len(both) = Len(two) + 1
        /\ \A j \in 1..Len(two) : both[j] = two[j]
        /\ both[Len(two) + 1] = c
    BY AppendFacts
  <1> HIDE DEF both
  <1>2. HAVE /\ Len(two) = 2 /\ Len(three) = 3
             /\ (\A j \in 1..2 : three[j] = two[j]) /\ three[3] = c
  <1>3. Len(both) = 3 /\ \A j \in 1..3 : both[j] = three[j]
    BY <1>1, <1>2
  <1>4. both = three
    BY <1>1, <1>2, <1>3, SeqEqual
  <1>5. QED
    BY <1>4 DEF both

LEMMA ThirdAppended ==
    ASSUME NEW a, NEW b, NEW c
    PROVE  Append(<<a, b>>, c) = <<a, b, c>>
  <1> DEFINE S == {a, b, c}
             two == <<a, b>>
             three == <<a, b, c>>
  <1>1. /\ two \in Seq(S) /\ Len(two) = 2 /\ c \in S
        /\ three \in Seq(S) /\ Len(three) = 3 /\ three[3] = c
        /\ \A j \in 1..2 : three[j] = two[j]
    OBVIOUS
  <1> HIDE DEF S, two, three
  <1>2. Append(two, c) = three
    BY <1>1, ThirdOfThree
  <1>3. QED
    BY <1>2 DEF two, three

(* What is put behind a sequence leaves it in front. *)
LEMMA FrontKept ==
    ASSUME NEW S, NEW s \in Seq(S), NEW u \in Seq(S), u # <<>>
    PROVE  /\ s \o u # <<>>
           /\ s # <<>> => (s \o u)[1] = s[1]
  <1>0. Len(s) \in Nat /\ Len(u) \in Nat /\ Len(u) # 0 /\ (s # <<>> => Len(s) # 0)
    BY EmptySeq
  <1> DEFINE both == s \o u
  <1>1. /\ both \in Seq(S)
        /\ Len(both) = Len(s) + Len(u)
        /\ \A j \in 1..Len(s) + Len(u) :
              both[j] = IF j <= Len(s) THEN s[j] ELSE u[j - Len(s)]
    BY ConcatProperties, Zenon
  <1> HIDE DEF both
  <1>2. both # <<>>
    BY <1>0, <1>1, EmptySeq
  <1>3. s # <<>> => both[1] = s[1]
    BY <1>0, <1>1
  <1>4. QED
    BY <1>2, <1>3 DEF both

(* Inserting before position i moves what lies from there on by one. *)
LEMMA InsertFacts ==
    ASSUME NEW S, NEW s \in Seq(S), NEW i \in 1..Len(s) + 1, NEW e \in S
    PROVE  /\ InsertAt(s, i, e) \in Seq(S)
           /\ Len(s) \in Nat /\ Len(InsertAt(s, i, e)) = Len(s) + 1
           /\ \A j \in 1..Len(s) + 1 :
                 /\ j < i => InsertAt(s, i, e)[j] = s[j]
                 /\ j = i => InsertAt(s, i, e)[j] = e
                 /\ j > i => InsertAt(s, i, e)[j] = s[j - 1]
  <1> DEFINE front == SubSeq(s, 1, i - 1)
             back  == SubSeq(s, i, Len(s))
             both  == front \o <<e>>
  <1>0. Len(s) \in Nat /\ i - 1 \in 0..Len(s) /\ i = (i - 1) + 1
    BY LenProperties
  <1>1. /\ front \in Seq(S) /\ Len(front) = i - 1
        /\ \A j \in 1..i - 1 : front[j] = s[j]
        /\ back \in Seq(S) /\ Len(back) = Len(s) - (i - 1)
        /\ \A j \in 1..Len(s) - (i - 1) : back[j] = s[(i - 1) + j]
    BY <1>0, SplitProperties
  <1>2. <<e>> \in Seq(S) /\ Len(<<e>>) = 1 /\ <<e>>[1] = e
    OBVIOUS
  <1> HIDE DEF front, back
  <1>3. /\ both \in Seq(S) /\ Len(both) = i
        /\ \A j \in 1..i : both[j] = IF j < i THEN s[j] ELSE e
    <2>1. /\ both \in Seq(S)
          /\ Len(both) = Len(front) + Len(<<e>>)
          /\ \A j \in 1..Len(front) + Len(<<e>>) :
                both[j] = IF j <= Len(front) THEN front[j] ELSE <<e>>[j - Len(front)]
      BY <1>1, <1>2, ConcatProperties, Zenon
    <2> HIDE DEF both
    <2>2. Len(front) + Len(<<e>>) = i
      BY <1>0, <1>1, <1>2
    <2>3. ASSUME NEW j \in 1..i
          PROVE  both[j] = IF j < i THEN s[j] ELSE e
      <3>1. both[j] = IF j <= i - 1 THEN front[j] ELSE <<e>>[j - (i - 1)]
        BY <1>1, <2>1, <2>2
      <3>2. CASE j < i
        BY <3>1, <3>2, <1>0, <1>1
      <3>3. CASE j = i
        <4>1. ~(j <= i - 1) /\ j - (i - 1) = 1
          BY <3>3
        <4>2. QED
          BY <3>1, <3>3, <4>1, <1>2
      <3>4. QED
        BY <3>2, <3>3
    <2>4. QED
      BY <2>1, <2>2, <2>3
  <1> HIDE DEF both
  <1>4. /\ both \o back \in Seq(S)
        /\ Len(both \o back) = Len(both) + Len(back)
        /\ \A j \in 1..Len(both) + Len(back) :
              (both \o back)[j] = IF j <= Len(both) THEN both[j] ELSE back[j - Len(both)]
    BY <1>1, <1>3, ConcatProperties, Zenon
  <1>5. InsertAt(s, i, e) = both \o back
    BY DEF InsertAt, both, front, back
  <1> DEFINE all == both \o back
  <1>6. /\ all \in Seq(S) /\ Len(both) + Len(back) = Len(s) + 1
        /\ Len(all) = Len(s) + 1
    BY <1>0, <1>1, <1>3, <1>4
  <1>7. \A j \in 1..Len(s) + 1 : all[j] = IF j <= i THEN both[j] ELSE back[j - i]
    BY <1>3, <1>4, <1>6
  <1> HIDE DEF all
  <1>8. ASSUME NEW j \in 1..Len(s) + 1
        PROVE  /\ j < i => all[j] = s[j]
               /\ j = i => all[j] = e
               /\ j > i => all[j] = s[j - 1]
    <2>1. CASE j <= i
      BY <2>1, <1>3, <1>7
    <2>2. CASE j > i
      <3>1. /\ j - i \in 1..Len(s) - (i - 1)
            /\ (i - 1) + (j - i) = j - 1
        BY <2>2, <1>0
      <3>2. back[j - i] = s[j - 1]
        BY <3>1, <1>1
      <3>3. QED
        BY <2>2, <3>2, <1>7
    <2>3. QED
      BY <2>1, <2>2
  <1>9. QED
    BY <1>0, <1>5, <1>6, <1>8 DEF all

------------------------------------------------------------------------------
(***************************************************************************)
(* Selections: a list of what is at some places of another one, in order.  *)
(*                                                                         *)
(* A recursive function over the places of a list is not to be proved by   *)
(* induction over a predicate, which no prover here takes; but the places  *)
(* at which a fact fails are a set of numbers, and without a least element *)
(* it is empty (NothingFails).                                             *)
(***************************************************************************)

(* A set of places has a first one. *)
LEMMA SmallestOfSet ==
    ASSUME NEW S, S \subseteq Nat, S # {}
    PROVE  \E x \in S : \A y \in S : x <= y
<1> DEFINE R == OpToRel(<, Nat)
<1>1. IsWellFoundedOn(R, Nat)
  BY NatLessThanWellFounded
<1> HIDE DEF R
<1>2. PICK x \in S : \A y \in S : <<y, x>> \notin R
  BY <1>1, WFMin
<1>3. ASSUME NEW y \in S PROVE x <= y
  <2>1. <<y, x>> \in R <=> y < x
    BY DEF R, OpToRel
  <2> QED BY <1>2, <2>1
<1> QED BY <1>3

(* A fact that is handed on from each place to the next one holds of all.  *)
LEMMA NothingFails ==
    ASSUME NEW N \in Nat, NEW failing, failing \subseteq 0..N,
           0 \notin failing,
           \A n \in 0..N - 1 : n + 1 \in failing => n \in failing
    PROVE  failing = {}
<1> SUFFICES ASSUME failing # {} PROVE FALSE
  OBVIOUS
<1>1. PICK x \in failing : \A y \in failing : x <= y
  <2>1. failing \subseteq Nat
    OBVIOUS
  <2> QED BY <2>1, SmallestOfSet
<1>2. x # 0 /\ x - 1 \in 0..N - 1 /\ x = (x - 1) + 1
  OBVIOUS
<1>3. x - 1 \in failing
  BY <1>2
<1> QED BY <1>1, <1>2, <1>3

(* The places of a selection: at which place its elements were, in order.  *)
Orders(at, n, places) ==
    /\ at \in [1..n -> places]
    /\ \A k, l \in 1..n : k < l => at[k] < at[l]
    /\ \A i \in places : \E k \in 1..n : at[k] = i

LEMMA OrdersNothing == Orders(<<>>, 0, {})
  BY DEF Orders

LEMMA OrdersNext ==
    ASSUME NEW at, NEW n \in Nat, NEW places, places \subseteq Nat, Orders(at, n, places),
           NEW i \in Nat, \A j \in places : j < i
    PROVE  Orders([k \in 1..n + 1 |-> IF k <= n THEN at[k] ELSE i], n + 1, places \cup {i})
<1> DEFINE more == [k \in 1..n + 1 |-> IF k <= n THEN at[k] ELSE i]
<1>1. at \in [1..n -> places]
  BY DEF Orders
<1>2. \A k \in 1..n : more[k] = at[k] /\ more[k] \in places
  BY <1>1
<1>3. more[n + 1] = i /\ more \in [1..n + 1 -> places \cup {i}]
  BY <1>1
<1> HIDE DEF more
<1>4. ASSUME NEW k \in 1..n + 1, NEW l \in 1..n + 1, k < l PROVE more[k] < more[l]
  <2>1. k \in 1..n
    BY <1>4
  <2>2. CASE l = n + 1
    BY <1>2, <1>3, <2>1, <2>2
  <2>3. CASE l # n + 1
    <3>1. l \in 1..n
      BY <2>3
    <3> QED BY <1>2, <1>4, <2>1, <3>1 DEF Orders
  <2> QED BY <2>2, <2>3
<1>5. ASSUME NEW j \in places \cup {i} PROVE \E k \in 1..n + 1 : more[k] = j
  <2>1. CASE j = i
    BY <1>3, <2>1
  <2>2. CASE j \in places
    <3>1. PICK k \in 1..n : at[k] = j
      BY <2>2 DEF Orders
    <3>2. k \in 1..n + 1
      OBVIOUS
    <3> QED BY <1>2, <3>1, <3>2
  <2> QED BY <2>1, <2>2
<1>6. Orders(more, n + 1, places \cup {i})
  BY <1>3, <1>4, <1>5 DEF Orders
<1> QED BY <1>6 DEF more

(* The places of a selection of a selection.                               *)
LEMMA OrdersTwice ==
    ASSUME NEW at, NEW n \in Nat, NEW places, places \subseteq Nat, Orders(at, n, places),
           NEW sub, NEW m \in Nat, NEW some, some \subseteq 1..n, Orders(sub, m, some)
    PROVE  Orders([k \in 1..m |-> at[sub[k]]], m, {at[k] : k \in some})
<1> DEFINE both == [k \in 1..m |-> at[sub[k]]]
<1>1. sub \in [1..m -> some]
  BY DEF Orders
<1>2. both \in [1..m -> {at[k] : k \in some}]
  BY <1>1
<1>3. ASSUME NEW k \in 1..m, NEW l \in 1..m, k < l PROVE both[k] < both[l]
  <2>1. sub[k] < sub[l] /\ sub[k] \in 1..n /\ sub[l] \in 1..n
    BY <1>1, <1>3 DEF Orders
  <2>2. at[sub[k]] < at[sub[l]]
    BY <2>1 DEF Orders
  <2> QED BY <2>2
<1>4. ASSUME NEW j \in {at[k] : k \in some} PROVE \E k \in 1..m : both[k] = j
  <2>1. PICK k \in some : at[k] = j
    OBVIOUS
  <2>2. PICK l \in 1..m : sub[l] = k
    BY DEF Orders
  <2> QED BY <2>1, <2>2
<1> HIDE DEF both
<1>5. Orders(both, m, {at[k] : k \in some})
  BY <1>2, <1>3, <1>4 DEF Orders
<1> QED BY <1>5 DEF both

(* A loop that goes through a list once, appending what is at some of the  *)
(* places: there is the function that it is defined by.                    *)
Goes(upTo, list, places, n) ==
    upTo = [k \in 0..n |-> CASE k = 0 -> <<>>
                             [] k \in places -> Append(upTo[k - 1], list[k])
                             [] OTHER -> upTo[k - 1]]

LEMMA GoesOn ==
    ASSUME NEW list, NEW places, NEW n \in Nat, NEW f, Goes(f, list, places, n), 0 \notin places
    PROVE  \E g : Goes(g, list, places, n + 1)
<1> DEFINE Step(h, k) == CASE k = 0 -> <<>>
                           [] k \in places -> Append(h[k - 1], list[k])
                           [] OTHER -> h[k - 1]
           g == [k \in 0..n + 1 |-> IF k <= n THEN f[k] ELSE Step(f, k)]
<1>1. f = [k \in 0..n |-> Step(f, k)]
  BY DEF Goes
<1> HIDE DEF Step
<1>2. \A k \in 0..n : g[k] = f[k]
  OBVIOUS
<1>3. ASSUME NEW k \in 0..n + 1 PROVE g[k] = Step(g, k)
  <2>1. CASE k = 0
    <3>1. g[0] = f[0] /\ f[0] = Step(f, 0)
      BY <1>1, <1>2
    <3>2. Step(f, 0) = <<>> /\ Step(g, 0) = <<>>
      BY DEF Step
    <3> QED BY <2>1, <3>1, <3>2
  <2>2. CASE k # 0
    <3>1. k - 1 \in 0..n
      BY <2>2
    <3>2. g[k - 1] = f[k - 1]
      BY <1>2, <3>1
    <3> HIDE DEF g
    <3>3. Step(g, k) = Step(f, k)
      BY <2>2, <3>2 DEF Step
    <3>4. g[k] = Step(f, k)
      <4>1. CASE k <= n
        BY <1>1, <1>2, <4>1
      <4>2. CASE ~(k <= n)
        BY <4>2 DEF g
      <4> QED BY <4>1, <4>2
    <3> QED BY <3>3, <3>4
  <2> QED BY <2>1, <2>2
<1>4. g = [k \in 0..n + 1 |-> Step(g, k)]
  <2>1. g = [k \in 0..n + 1 |-> g[k]]
    OBVIOUS
  <2> HIDE DEF g
  <2> QED BY <1>3, <2>1
<1> HIDE DEF g
<1> QED BY <1>4 DEF Goes, Step

LEMMA GoesThrough ==
    ASSUME NEW list, NEW places, NEW N \in Nat, 0 \notin places
    PROVE  \E f : Goes(f, list, places, N)
<1> DEFINE failing == {n \in 0..N : ~ \E f : Goes(f, list, places, n)}
<1>1. 0 \notin failing
  <2>1. Goes([k \in 0..0 |-> <<>>], list, places, 0)
    BY DEF Goes
  <2> QED BY <2>1
<1>2. \A n \in 0..N - 1 : n + 1 \in failing => n \in failing
  <2> SUFFICES ASSUME NEW n \in 0..N - 1, n \notin failing PROVE n + 1 \notin failing
    OBVIOUS
  <2>1. PICK f : Goes(f, list, places, n)
    OBVIOUS
  <2> QED BY <2>1, GoesOn
<1>3. failing = {}
  <2> HIDE DEF failing
  <2>1. failing \subseteq 0..N
    BY DEF failing
  <2> QED BY <1>1, <1>2, <2>1, NothingFails
<1> QED BY <1>3

(* The places up to one of them. *)
Upto(places, n) == {i \in places : i <= n}

LEMMA UptoNext ==
    ASSUME NEW places, places \subseteq Nat, NEW n \in Nat
    PROVE  /\ Upto(places, n) \subseteq Nat
           /\ \A j \in Upto(places, n) : j < n + 1
           /\ n + 1 \in places => Upto(places, n + 1) = Upto(places, n) \cup {n + 1}
           /\ n + 1 \notin places => Upto(places, n + 1) = Upto(places, n)
<1>1. Upto(places, n) \subseteq Nat
  BY DEF Upto
<1>2. \A j \in Upto(places, n) : j < n + 1
  BY DEF Upto
<1>3. ASSUME NEW j \in places PROVE j <= n + 1 <=> j <= n \/ j = n + 1
  OBVIOUS
<1>4. ASSUME n + 1 \in places PROVE Upto(places, n + 1) = Upto(places, n) \cup {n + 1}
  <2>1. \A j : j \in Upto(places, n + 1) <=> j \in Upto(places, n) \cup {n + 1}
    BY <1>3, <1>4, Zenon DEF Upto
  <2> QED BY <2>1, Zenon
<1>5. ASSUME n + 1 \notin places PROVE Upto(places, n + 1) = Upto(places, n)
  <2>1. \A j : j \in Upto(places, n + 1) <=> j \in Upto(places, n)
    BY <1>3, <1>5, Zenon DEF Upto
  <2> QED BY <2>1, Zenon
<1> QED BY <1>1, <1>2, <1>4, <1>5

LEMMA UptoEnds ==
    ASSUME NEW N \in Nat, NEW places, places \subseteq 1..N
    PROVE  Upto(places, 0) = {} /\ Upto(places, N) = places
<1>1. \A i \in places : ~(i <= 0) /\ i <= N
  OBVIOUS
<1> QED BY <1>1, Zenon DEF Upto

(* A list is what is at some places of another one. *)
SelectedFrom(kept, list, places) ==
    \E m, at : m \in Nat /\ Orders(at, m, places) /\ kept = [k \in 1..m |-> list[at[k]]]

LEMMA NothingSelected == \A list : SelectedFrom(<<>>, list, {})
<1> SUFFICES ASSUME NEW list PROVE SelectedFrom(<<>>, list, {})
  OBVIOUS
<1>1. <<>> = [k \in 1..0 |-> list[<<>>[k]]]
  OBVIOUS
<1>2. 0 \in Nat
  OBVIOUS
<1> QED BY <1>1, <1>2, OrdersNothing DEF SelectedFrom

LEMMA SelectedBy ==
    ASSUME NEW kept, NEW list, NEW places, NEW m \in Nat, NEW at,
           Orders(at, m, places), kept = [k \in 1..m |-> list[at[k]]]
    PROVE  SelectedFrom(kept, list, places)
<1> QED BY DEF SelectedFrom

(* A later place is appended.                                              *)
LEMMA OneMoreSelected ==
    ASSUME NEW list, NEW places, places \subseteq Nat, NEW kept, SelectedFrom(kept, list, places),
           NEW i \in Nat, \A j \in places : j < i
    PROVE  SelectedFrom(Append(kept, list[i]), list, places \cup {i})
<1>1. PICK m, at : m \in Nat /\ Orders(at, m, places) /\ kept = [k \in 1..m |-> list[at[k]]]
  BY DEF SelectedFrom
<1> DEFINE more == [k \in 1..m + 1 |-> IF k <= m THEN at[k] ELSE i]
<1>2. m + 1 \in Nat /\ Orders(more, m + 1, places \cup {i})
  <2>1. m \in Nat /\ m + 1 \in Nat /\ Orders(at, m, places)
    BY <1>1
  <2> QED BY <2>1, OrdersNext, Zenon
<1>3. Append(kept, list[i]) = [k \in 1..m + 1 |-> list[more[k]]]
  <2>1. kept \in Seq({list[at[k]] : k \in 1..m}) /\ Len(kept) = m
    BY <1>1
  <2>2. Append(kept, list[i]) = [k \in 1..m + 1 |-> IF k <= m THEN kept[k] ELSE list[i]]
    BY <1>1, <2>1
  <2>3. \A k \in 1..m + 1 : (IF k <= m THEN kept[k] ELSE list[i]) = list[more[k]]
    BY <1>1
  <2> QED BY <2>2, <2>3
<1> DEFINE n == m + 1
<1> HIDE DEF more
<1>4. n \in Nat /\ Orders(more, n, places \cup {i})
  BY <1>2
<1>5. Append(kept, list[i]) = [k \in 1..n |-> list[more[k]]]
  BY <1>3
<1> HIDE DEF n
<1> QED BY <1>4, <1>5, SelectedBy, Zenon

(* The same for the concatenation of a sequence of sequences.              *)
Joins(f, s, n) == f = [i \in 1..n |-> IF i = 1 THEN s[i] ELSE f[i - 1] \o s[i]]

LEMMA JoinsOn ==
    ASSUME NEW s, NEW n \in Nat, NEW f, Joins(f, s, n)
    PROVE  \E g : Joins(g, s, n + 1)
<1> DEFINE Step(h, i) == IF i = 1 THEN s[i] ELSE h[i - 1] \o s[i]
           g == [i \in 1..n + 1 |-> IF i <= n THEN f[i] ELSE Step(f, i)]
<1>1. f = [i \in 1..n |-> Step(f, i)]
  BY DEF Joins
<1> HIDE DEF Step
<1>2. \A i \in 1..n : g[i] = f[i]
  OBVIOUS
<1>3. ASSUME NEW i \in 1..n + 1 PROVE g[i] = Step(g, i)
  <2>1. Step(g, i) = Step(f, i)
    <3>1. CASE i = 1
      BY <3>1 DEF Step
    <3>2. CASE i # 1
      <4>1. i - 1 \in 1..n
        BY <3>2
      <4>2. g[i - 1] = f[i - 1]
        BY <1>2, <4>1
      <4> HIDE DEF g
      <4> QED BY <4>2 DEF Step
    <3> QED BY <3>1, <3>2
  <2>2. g[i] = Step(f, i)
    <3>1. CASE i <= n
      BY <1>1, <1>2, <3>1
    <3>2. CASE ~(i <= n)
      BY <3>2 DEF g
    <3> QED BY <3>1, <3>2
  <2> HIDE DEF g
  <2> QED BY <2>1, <2>2
<1>4. g = [i \in 1..n + 1 |-> Step(g, i)]
  <2>1. g = [i \in 1..n + 1 |-> g[i]]
    OBVIOUS
  <2> HIDE DEF g
  <2> QED BY <1>3, <2>1
<1> HIDE DEF g
<1> QED BY <1>4 DEF Joins, Step

LEMMA JoinsThrough ==
    ASSUME NEW s, NEW N \in Nat
    PROVE  \E f : Joins(f, s, N)
<1> DEFINE failing == {n \in 0..N : ~ \E f : Joins(f, s, n)}
<1>1. 0 \notin failing
  <2>1. Joins([i \in 1..0 |-> <<>>], s, 0)
    BY DEF Joins
  <2> QED BY <2>1
<1>2. \A n \in 0..N - 1 : n + 1 \in failing => n \in failing
  <2> SUFFICES ASSUME NEW n \in 0..N - 1, n \notin failing PROVE n + 1 \notin failing
    OBVIOUS
  <2>1. PICK f : Joins(f, s, n)
    OBVIOUS
  <2> QED BY <2>1, JoinsOn
<1>3. failing = {}
  <2> HIDE DEF failing
  <2>1. failing \subseteq 0..N
    BY DEF failing
  <2> QED BY <1>1, <1>2, <2>1, NothingFails
<1> QED BY <1>3

(* A place that is not among them changes nothing.                         *)
LEMMA NotRead ==
    ASSUME NEW places, places \subseteq Nat, NEW n \in Nat, n + 1 \notin places
    PROVE  Upto(places, n + 1) = Upto(places, n)
  BY UptoNext

(* A selection is a sequence.                                              *)
LEMMA SelectedIsSeq ==
    ASSUME NEW kept, NEW list, NEW places, SelectedFrom(kept, list, places)
    PROVE  /\ Len(kept) \in Nat /\ DOMAIN kept = 1..Len(kept)
           /\ kept \o <<>> = kept
           /\ \A x : kept \o <<x>> = Append(kept, x)
<1>1. PICK m, at : m \in Nat /\ kept = [k \in 1..m |-> list[at[k]]]
  BY DEF SelectedFrom
<1> DEFINE V == {list[at[k]] : k \in 1..m}
<1>2. kept \in Seq(V)
  BY <1>1
<1>3. ASSUME NEW x PROVE kept \o <<x>> = Append(kept, x)
  <2>1. kept \in Seq(V \cup {x}) /\ x \in V \cup {x}
    BY <1>2
  <2> HIDE DEF V
  <2> QED BY <2>1, AppendIsConcat
<1> HIDE DEF V
<1> QED BY <1>2, <1>3, LenProperties, ConcatEmptySeq

(* The selection with one place more, or not.                              *)
LEMMA SelectsOn ==
    ASSUME NEW kept, NEW list, NEW places, places \subseteq Nat, NEW n \in Nat,
           SelectedFrom(kept, list, Upto(places, n)), NEW more,
           more = IF n + 1 \in places THEN <<list[n + 1]>> ELSE <<>>
    PROVE  SelectedFrom(kept \o more, list, Upto(places, n + 1))
<1>1. /\ kept \o <<>> = kept /\ \A x : kept \o <<x>> = Append(kept, x)
  BY SelectedIsSeq
<1>2. CASE n + 1 \in places
  <2>1. /\ Upto(places, n + 1) = Upto(places, n) \cup {n + 1}
        /\ Upto(places, n) \subseteq Nat
        /\ \A j \in Upto(places, n) : j < n + 1
    BY <1>2, UptoNext
  <2>2. n + 1 \in Nat
    OBVIOUS
  <2>3. SelectedFrom(Append(kept, list[n + 1]), list, Upto(places, n) \cup {n + 1})
    BY <2>1, <2>2, OneMoreSelected, Zenon
  <2>4. kept \o more = Append(kept, list[n + 1])
    BY <1>1, <1>2
  <2> QED BY <2>1, <2>3, <2>4, Zenon
<1>3. CASE n + 1 \notin places
  <2>1. Upto(places, n + 1) = Upto(places, n)
    BY <1>3, NotRead
  <2>2. kept \o more = kept
    BY <1>1, <1>3
  <2> QED BY <2>1, <2>2, Zenon
<1> QED BY <1>2, <1>3

(* The places where there is something of V.  A selection of a selection is *)
(* one.                                                                     *)
Among(some, list, places, V) == some = {k \in places : list[k] \in V}

LEMMA SelectedTwice ==
    ASSUME NEW list, NEW places, places \subseteq Nat, NEW mid, SelectedFrom(mid, list, places),
           NEW V, NEW some, Among(some, mid, DOMAIN mid, V),
           NEW wanted, Among(wanted, list, places, V), NEW kept, SelectedFrom(kept, mid, some)
    PROVE  SelectedFrom(kept, list, wanted)
<1>0. /\ some = {k \in DOMAIN mid : mid[k] \in V}
      /\ wanted = {i \in places : list[i] \in V}
  BY DEF Among
<1>1. PICK n, at : n \in Nat /\ Orders(at, n, places) /\ mid = [k \in 1..n |-> list[at[k]]]
  BY DEF SelectedFrom
<1>2. PICK m, sub : m \in Nat /\ Orders(sub, m, some) /\ kept = [k \in 1..m |-> mid[sub[k]]]
  BY DEF SelectedFrom
<1>3. DOMAIN mid = 1..n /\ some \subseteq 1..n /\ \A k \in 1..n : mid[k] = list[at[k]]
  BY <1>0, <1>1
<1> DEFINE both == [k \in 1..m |-> at[sub[k]]]
<1>4. Orders(both, m, {at[k] : k \in some})
  <2>1. /\ n \in Nat /\ m \in Nat
        /\ Orders(at, n, places) /\ Orders(sub, m, some) /\ some \subseteq 1..n
    BY <1>1, <1>2, <1>3
  <2> QED BY <2>1, OrdersTwice, Zenon
<1>5. at \in [1..n -> places] /\ sub \in [1..m -> some]
  BY <1>1, <1>2 DEF Orders
<1>6. \A i \in places : \E k \in 1..n : at[k] = i
  BY <1>1 DEF Orders
<1>7. {at[k] : k \in some} = wanted
  <2>1. \A k : k \in some <=> k \in 1..n /\ list[at[k]] \in V
    BY <1>0, <1>3
  <2>2. \A k \in 1..n : at[k] \in places
    BY <1>5
  <2>3. \A i : i \in wanted <=> i \in places /\ list[i] \in V
    BY <1>0
  <2>4. \A i : i \in {at[k] : k \in some} <=> i \in wanted
    BY <1>6, <2>1, <2>2, <2>3, Zenon
  <2> QED BY <2>4, Zenon
<1>8. m \in Nat /\ kept = [k \in 1..m |-> list[both[k]]]
  <2>1. \A k \in 1..m : mid[sub[k]] = list[at[sub[k]]]
    BY <1>3, <1>5
  <2> QED BY <1>2, <2>1
<1>9. Orders(both, m, wanted)
  BY <1>4, <1>7
<1> HIDE DEF both
<1> QED BY <1>8, <1>9, Zenon DEF SelectedFrom

(* A list around one element.                                              *)
LEMMA Around ==
    ASSUME NEW S, NEW before \in Seq(S), NEW x \in S, NEW after \in Seq(S),
           NEW list, list = before \o <<x>> \o after, NEW k, k = Len(before) + 1
    PROVE  /\ k \in DOMAIN list /\ list[k] = x
           /\ SubSeq(list, 1, k - 1) = before /\ SubSeq(list, k + 1, Len(list)) = after
<1>1. list \in Seq(S) /\ Len(list) = Len(before) + 1 + Len(after) /\ k \in 1..Len(list)
  OBVIOUS
<1>2. list[k] = x
  OBVIOUS
<1>3. /\ \A i \in 1..Len(before) : list[i] = before[i]
      /\ \A i \in 1..Len(after) : list[k + i] = after[i]
  OBVIOUS
<1>4. SubSeq(list, 1, k - 1) = before
  <2>1. Len(SubSeq(list, 1, k - 1)) = Len(before)
    BY <1>1
  <2>2. \A i \in 1..Len(before) : SubSeq(list, 1, k - 1)[i] = before[i]
    BY <1>1, <1>3
  <2>3. SubSeq(list, 1, k - 1) \in Seq(S)
    BY <1>1
  <2> QED BY <2>1, <2>2, <2>3, SeqEqual
<1>5. SubSeq(list, k + 1, Len(list)) = after
  <2>1. Len(SubSeq(list, k + 1, Len(list))) = Len(after)
    BY <1>1
  <2>2. \A i \in 1..Len(after) : SubSeq(list, k + 1, Len(list))[i] = after[i]
    BY <1>1, <1>3
  <2>3. SubSeq(list, k + 1, Len(list)) \in Seq(S)
    BY <1>1
  <2> QED BY <2>1, <2>2, <2>3, SeqEqual
<1> QED BY <1>1, <1>2, <1>4, <1>5

------------------------------------------------------------------------------
(* A list, whatever it is of: what is at its places.                       *)
IsList(s) == Len(s) \in Nat /\ s = [n \in 1 .. Len(s) |-> s[n]]

LEMMA ListAppended ==
    ASSUME NEW s, IsList(s), NEW e
    PROVE  /\ IsList(Append(s, e)) /\ Len(Append(s, e)) = Len(s) + 1
           /\ \A n \in 1..Len(s) : Append(s, e)[n] = s[n]
           /\ Append(s, e)[Len(s) + 1] = e
<1> DEFINE S == {e} \cup {s[n] : n \in 1..Len(s)}
<1>1. s \in Seq(S)
  <2>1. s \in [1..Len(s) -> S]
    BY DEF IsList
  <2> HIDE DEF S
  <2> QED BY <2>1, SeqDef DEF IsList
<1>2. e \in S
  OBVIOUS
<1> HIDE DEF S
<1>3. /\ Append(s, e) \in Seq(S) /\ Len(Append(s, e)) = Len(s) + 1
      /\ \A n \in 1..Len(s) : Append(s, e)[n] = s[n]
      /\ Append(s, e)[Len(s) + 1] = e
  BY <1>1, <1>2, AppendFacts
<1>4. IsList(Append(s, e))
  BY <1>3, LenProperties DEF IsList
<1> QED BY <1>3, <1>4

(* Whatever has the places of a list is one.                               *)
LEMMA ListOf ==
    ASSUME NEW n \in Nat, NEW s, DOMAIN s = 1..n, s = [k \in 1..n |-> s[k]]
    PROVE  IsList(s) /\ Len(s) = n
<1> DEFINE S == {s[k] : k \in 1..n}
<1>1. s \in [1..n -> S]
  OBVIOUS
<1> HIDE DEF S
<1>2. s \in Seq(S)
  BY <1>1, SeqDef
<1>3. Len(s) \in Nat /\ DOMAIN s = 1..Len(s)
  BY <1>2, LenProperties
<1>4. Len(s) = n
  BY <1>3
<1> QED BY <1>4 DEF IsList
==============================================================================
