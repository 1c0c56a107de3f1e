---------------------------- MODULE RaftLog_proofs ----------------------------
(***************************************************************************)
(* What TLAPS proves of log replication, for clusters of any size and any  *)
(* number of terms, calls and lost requests: types, and that the callback  *)
(* of replicate runs once at most and is not forgotten; then, that the log *)
(* of a leader nobody replaces is delivered to all nodes in its order, and *)
(* that what is committed or answered is held by two nodes.                *)
(***************************************************************************)
EXTENDS RaftLog, FiniteSetTheorems, SequenceTheorems, NaturalsInduction,
        WellFoundedInduction, TLAPS

-----------------------------------------------------------------------------
(* Numbers and sequences.                                                  *)

\* The least number of a set: the way in which the lemmas about folds go from
\* one element to the next.
LEMMA LeastNumber ==
  ASSUME NEW T \in SUBSET Nat, T # {}
  PROVE  \E m \in T : \A n \in T : m <= n
<1> DEFINE R == {ss \in Nat \X Nat : ss[1] < ss[2]}
<1>1. IsWellFoundedOn(R, Nat)
  BY NatLessThanWellFounded DEF OpToRel
<1>2. PICK x \in T : \A y \in T : <<y, x>> \notin R
  <2> HIDE DEF R
  <2> QED BY <1>1, WFMin
<1>3. ASSUME NEW y \in T PROVE x <= y
  <2>1. x \in Nat /\ y \in Nat
    OBVIOUS
  <2>2. y < x => <<y, x>> \in R
    BY <2>1
  <2> HIDE DEF R
  <2> QED BY <2>1, <2>2, <1>2
<1> QED BY <1>3

LEMMA AppendTo ==
  ASSUME NEW S, NEW s \in Seq(S), NEW e \in S
  PROVE  /\ Append(s, e) \in Seq(S) /\ Len(s) \in Nat
         /\ Len(Append(s, e)) = Len(s) + 1
         /\ \A i \in 1 .. Len(s) : Append(s, e)[i] = s[i]
         /\ Append(s, e)[Len(s) + 1] = e
BY AppendProperties

LEMMA TailOf ==
  ASSUME NEW S, NEW s \in Seq(S), s # <<>>
  PROVE  /\ Head(s) = s[1] /\ Head(s) \in S /\ Len(s) \in Nat \ {0}
         /\ Tail(s) \in Seq(S) /\ Len(Tail(s)) = Len(s) - 1
         /\ \A i \in 1 .. Len(Tail(s)) : Tail(s)[i] = s[i + 1]
BY HeadTailProperties, EmptySeq

LEMMA Joined ==
  ASSUME NEW S, NEW s \in Seq(S), NEW t \in Seq(S)
  PROVE  /\ s \o t \in Seq(S) /\ Len(s) \in Nat /\ Len(t) \in Nat
         /\ Len(s \o t) = Len(s) + Len(t)
         /\ \A i \in 1 .. Len(s) : (s \o t)[i] = s[i]
         /\ \A i \in 1 .. Len(t) : (s \o t)[Len(s) + i] = t[i]
<1>1. Len(s) \in Nat /\ Len(t) \in Nat
  OBVIOUS
<1>2. \A i \in 1 .. Len(s) + Len(t) :
        (s \o t)[i] = IF i <= Len(s) THEN s[i] ELSE t[i - Len(s)]
  BY ConcatProperties
<1>3. ASSUME NEW i \in 1 .. Len(t) PROVE (s \o t)[Len(s) + i] = t[i]
  <2> DEFINE n == Len(s)
  <2>1. n + i \in 1 .. n + Len(t) /\ ~(n + i <= n) /\ (n + i) - n = i
    BY <1>1
  <2> QED BY <1>2, <2>1
<1> QED BY <1>1, <1>2, <1>3, ConcatProperties

\* What is left of a sequence from place m on, or between m and n.
LEMMA Part ==
  ASSUME NEW S, NEW s \in Seq(S), NEW m \in Nat \ {0}, NEW n \in Int, n <= Len(s)
  PROVE  SubSeq(s, m, n) \in Seq(S)
<1>1. \A i \in m .. n : s[i] \in S
  BY LenProperties
<1> QED BY <1>1, SubSeqProperties

-----------------------------------------------------------------------------
(* The callbacks of a node in the order of the map.                        *)

Keyed(cbs) == /\ IsFiniteSet(cbs)
              /\ \A a \in cbs : a.index \in Nat
              /\ \A a, b \in cbs : a.index = b.index => a = b

Rising(cs, cbs, n) == /\ cs \in [1 .. n -> cbs]
                      /\ \A i, j \in 1 .. n : i < j => cs[i].index < cs[j].index

LEMMA KeyedSubset ==
  ASSUME NEW cbs, Keyed(cbs), NEW S \in SUBSET cbs
  PROVE  Keyed(S)
BY FS_Subset DEF Keyed

\* A set of callbacks has a first one.
LEMMA FirstCallback ==
  ASSUME NEW cbs, Keyed(cbs), cbs # {}
  PROVE  \E x \in cbs : \A a \in cbs \ {x} : x.index < a.index
<1> DEFINE T == {a.index : a \in cbs}
<1>1. T \in SUBSET Nat /\ T # {}
  BY DEF Keyed
<1>2. PICK m \in T : \A k \in T : m <= k
  <2> HIDE DEF T
  <2> QED BY <1>1, LeastNumber
<1>3. PICK x \in cbs : x.index = m
  BY <1>2
<1>4. ASSUME NEW a \in cbs \ {x} PROVE x.index < a.index
  <2>1. m \in Nat /\ a.index \in Nat /\ m <= a.index /\ a.index # x.index
    BY <1>1, <1>2 DEF Keyed
  <2> QED BY <2>1, <1>3
<1> QED BY <1>4

LEMMA RisingExists ==
  ASSUME NEW cbs, Keyed(cbs)
  PROVE  \E cs : Rising(cs, cbs, Cardinality(cbs))
<1> DEFINE Has(S) == \E cs : Rising(cs, S, Cardinality(S))
           T == {n \in Nat : \E S \in SUBSET cbs : Cardinality(S) = n /\ ~Has(S)}
<1>1. SUFFICES ASSUME ~Has(cbs) PROVE FALSE
  OBVIOUS
<1>2. Cardinality(cbs) \in T
  <2>1. Cardinality(cbs) \in Nat
    BY FS_CardinalityType DEF Keyed
  <2> QED BY <1>1, <2>1
<1>3. PICK n \in T : \A k \in T : n <= k
  <2>1. T \in SUBSET Nat /\ T # {}
    BY <1>2
  <2> HIDE DEF T
  <2> QED BY <2>1, LeastNumber
<1>4. PICK S \in SUBSET cbs : Cardinality(S) = n /\ ~Has(S)
  OBVIOUS
<1>5. Keyed(S) /\ n \in Nat /\ IsFiniteSet(S)
  BY KeyedSubset DEF Keyed
<1>6. S # {}
  <2>1. ASSUME S = {} PROVE FALSE
    <3>1. n = 0
      BY <1>4, <2>1, FS_EmptySet
    <3>2. Rising([i \in 1 .. 0 |-> 0], S, 0)
      BY DEF Rising
    <3> QED BY <1>4, <3>1, <3>2
  <2> QED BY <2>1
<1>7. PICK x \in S : \A a \in S \ {x} : x.index < a.index
  BY <1>5, <1>6, FirstCallback
<1> DEFINE R == S \ {x}
<1>8. Cardinality(R) = n - 1 /\ n - 1 \in Nat
  <2>1. Cardinality(R) = n - 1
    BY <1>4, <1>5, FS_RemoveElement
  <2>2. n # 0
    BY <1>4, <1>5, <1>6, FS_EmptySet
  <2> QED BY <1>5, <2>1, <2>2
<1>9. Has(R)
  <2>1. R \in SUBSET cbs /\ n - 1 \notin T
    BY <1>3, <1>5, <1>8
  <2> HIDE DEF R, Has
  <2> QED BY <1>8, <2>1
<1>10. PICK f : Rising(f, R, n - 1)
  BY <1>8, <1>9
<1> DEFINE g == [i \in 1 .. n |-> IF i = 1 THEN x ELSE f[i - 1]]
<1>11. ASSUME NEW i \in 1 .. n PROVE g[i] \in S /\ (i > 1 => g[i] = f[i - 1] /\ f[i - 1] \in R)
  <2>1. i > 1 => i - 1 \in 1 .. n - 1
    BY <1>5
  <2>2. i > 1 => f[i - 1] \in R
    BY <1>10, <2>1 DEF Rising
  <2> QED BY <2>2, <1>5
<1>12. ASSUME NEW i \in 1 .. n, NEW j \in 1 .. n, i < j PROVE g[i].index < g[j].index
  <2>1. g[j] = f[j - 1] /\ f[j - 1] \in R /\ j > 1
    BY <1>11, <1>12, <1>5
  <2>2. CASE i = 1
    BY <1>7, <2>1, <2>2
  <2>3. CASE i > 1
    <3>1. i - 1 \in 1 .. n - 1 /\ j - 1 \in 1 .. n - 1 /\ i - 1 < j - 1
      BY <1>5, <1>12, <2>3
    <3>2. f[i - 1].index < f[j - 1].index
      BY <1>10, <3>1 DEF Rising
    <3> QED BY <1>11, <2>1, <2>3, <3>2
  <2> QED BY <2>2, <2>3, <1>5
<1>13. Rising(g, S, n)
  <2>1. g \in [1 .. n -> S]
    BY <1>11
  <2> HIDE DEF g
  <2> QED BY <2>1, <1>12 DEF Rising
<1> QED BY <1>4, <1>13

\* In the order of the map each callback stands once.
LEMMA InOrderRight ==
  ASSUME NEW cbs, Keyed(cbs)
  PROVE  /\ Cardinality(cbs) \in Nat
         /\ \A i \in 1 .. Cardinality(cbs) : InOrder(cbs)[i] \in cbs
         /\ \A i, j \in 1 .. Cardinality(cbs) : InOrder(cbs)[i] = InOrder(cbs)[j] => i = j
         /\ \A a \in cbs : \E i \in 1 .. Cardinality(cbs) : InOrder(cbs)[i] = a
<1> DEFINE n == Cardinality(cbs)
           f == InOrder(cbs)
<1>1. n \in Nat
  BY FS_CardinalityType DEF Keyed
<1>2. Rising(f, cbs, n)
  BY RisingExists DEF InOrder, Rising
<1>3. \A i \in 1 .. n : f[i] \in cbs
  BY <1>2 DEF Rising
<1>4. ASSUME NEW i \in 1 .. n, NEW j \in 1 .. n, f[i] = f[j] PROVE i = j
  <2>1. i \in Nat /\ j \in Nat /\ f[i].index \in Nat /\ f[j].index \in Nat
    BY <1>1, <1>3 DEF Keyed
  <2>2. f[i].index = f[j].index
    BY <1>4
  <2>3. (i < j => f[i].index < f[j].index) /\ (j < i => f[j].index < f[i].index)
    BY <1>2 DEF Rising
  <2> HIDE DEF f
  <2> QED BY <2>1, <2>2, <2>3
<1>5. f \in Injection(1 .. n, cbs)
  <2>1. f \in [1 .. n -> cbs]
    BY <1>2 DEF Rising
  <2> HIDE DEF f, n
  <2> QED BY <1>4, <2>1 DEF Injection, IsInjective
<1>6. f \in Surjection(1 .. n, cbs)
  <2>1. Cardinality(1 .. n) = n /\ IsFiniteSet(cbs)
    BY <1>1, FS_Interval DEF Keyed
  <2> HIDE DEF f
  <2> QED BY <1>5, <2>1, FS_Injection
<1>7. \A a \in cbs : \E i \in 1 .. n : f[i] = a
  <2> HIDE DEF f, n
  <2> QED BY <1>6 DEF Surjection
<1> HIDE DEF f, n
<1> QED BY <1>1, <1>3, <1>4, <1>7 DEF f, n

-----------------------------------------------------------------------------
(* One node: how its callbacks become answers.                             *)

\* Callbacks have keys of their own, and no call has two.
Right(cbs) == Keyed(cbs) /\ \A a, b \in cbs : a.call = b.call => a = b

NodeRight(s) == s \in NodeState /\ Right(s.callbacks)

InMap(s, c) == \E cb \in s.callbacks : cb.call = c

Answers(s, k) == s.tasks[k].kind = "answer"

NewTasks(s, t) == Len(s.tasks) + 1 .. Len(t.tasks)

\* Of the callbacks of s some are left in t; the others are answered, each by
\* one task behind those of s.
Moved(s, t) ==
  /\ Len(s.tasks) <= Len(t.tasks)
  /\ \A k \in 1 .. Len(s.tasks) : t.tasks[k] = s.tasks[k]
  /\ \A b \in t.callbacks : \E a \in s.callbacks : a.index = b.index /\ a.call = b.call
  /\ \A k \in NewTasks(s, t) : Answers(t, k) =>
       InMap(s, t.tasks[k].call) /\ ~InMap(t, t.tasks[k].call)
  /\ \A j, k \in NewTasks(s, t) :
       Answers(t, j) /\ Answers(t, k) /\ t.tasks[j].call = t.tasks[k].call => j = k
  /\ \A a \in s.callbacks :
       InMap(t, a.call) \/ \E k \in NewTasks(s, t) : Answers(t, k) /\ t.tasks[k].call = a.call

LEMMA NotMoved ==
  ASSUME NEW s, NEW t, s.tasks \in Seq(Task), t.tasks = s.tasks, t.callbacks = s.callbacks
  PROVE  Moved(s, t)
<1>1. Len(s.tasks) \in Nat
  OBVIOUS
<1>2. NewTasks(s, t) = {}
  BY <1>1 DEF NewTasks
<1> QED BY <1>1, <1>2 DEF Moved, InMap

LEMMA MovedOn ==
  ASSUME NEW s, NEW t, NEW u, Moved(s, t), Moved(t, u),
         Len(s.tasks) \in Nat, Len(t.tasks) \in Nat, Len(u.tasks) \in Nat
  PROVE  Moved(s, u)
<1> DEFINE S == Len(s.tasks)
           T == Len(t.tasks)
           U == Len(u.tasks)
<1>1. S \in Nat /\ T \in Nat /\ U \in Nat /\ S <= T /\ T <= U
  BY DEF Moved
<1>2. /\ NewTasks(s, t) = S + 1 .. T /\ NewTasks(t, u) = T + 1 .. U
      /\ NewTasks(s, u) = S + 1 .. U
  BY DEF NewTasks
<1>3. \A k \in 1 .. T : u.tasks[k] = t.tasks[k]
  BY DEF Moved
<1>4. \A c : (InMap(u, c) => InMap(t, c)) /\ (InMap(t, c) => InMap(s, c))
  BY DEF Moved, InMap
<1> HIDE DEF S, T, U
<1>5. \A k \in S + 1 .. U : k \in S + 1 .. T \/ k \in T + 1 .. U
  BY <1>1
<1>6. \A k \in S + 1 .. T : k \in 1 .. T /\ u.tasks[k] = t.tasks[k] /\ (Answers(u, k) <=> Answers(t, k))
  BY <1>1, <1>3 DEF Answers
<1>7. ASSUME NEW k \in S + 1 .. U, Answers(u, k)
      PROVE  /\ InMap(s, u.tasks[k].call) /\ ~InMap(u, u.tasks[k].call)
             /\ k \in S + 1 .. T => ~InMap(t, u.tasks[k].call)
             /\ k \in T + 1 .. U => InMap(t, u.tasks[k].call)
  <2>1. CASE k \in S + 1 .. T
    <3>1. InMap(s, t.tasks[k].call) /\ ~InMap(t, t.tasks[k].call)
      BY <1>2, <1>6, <1>7, <2>1 DEF Moved
    <3>2. ~(k \in T + 1 .. U)
      BY <1>1, <2>1
    <3> QED BY <1>4, <1>6, <2>1, <3>1, <3>2
  <2>2. CASE k \in T + 1 .. U
    <3>1. InMap(t, u.tasks[k].call) /\ ~InMap(u, u.tasks[k].call)
      BY <1>2, <1>7, <2>2 DEF Moved
    <3>2. ~(k \in S + 1 .. T)
      BY <1>1, <2>2
    <3> QED BY <1>4, <3>1, <3>2
  <2> QED BY <1>5, <2>1, <2>2
<1>8. ASSUME NEW j \in S + 1 .. U, NEW k \in S + 1 .. U,
             Answers(u, j), Answers(u, k), u.tasks[j].call = u.tasks[k].call
      PROVE  j = k
  <2>1. CASE j \in S + 1 .. T /\ k \in S + 1 .. T
    BY <1>2, <1>6, <1>8, <2>1 DEF Moved
  <2>2. CASE j \in T + 1 .. U /\ k \in T + 1 .. U
    BY <1>2, <1>8, <2>2 DEF Moved
  <2> QED BY <1>5, <1>7, <1>8, <2>1, <2>2
<1>9. ASSUME NEW a \in s.callbacks
      PROVE  \/ InMap(u, a.call)
             \/ \E k \in S + 1 .. U : Answers(u, k) /\ u.tasks[k].call = a.call
  <2>1. CASE InMap(t, a.call)
    <3>1. PICK b \in t.callbacks : b.call = a.call
      BY <2>1 DEF InMap
    <3>2. \/ InMap(u, b.call)
          \/ \E k \in T + 1 .. U : Answers(u, k) /\ u.tasks[k].call = b.call
      BY <1>2 DEF Moved
    <3>3. \A k \in T + 1 .. U : k \in S + 1 .. U
      BY <1>1
    <3> QED BY <3>1, <3>2, <3>3
  <2>2. CASE ~InMap(t, a.call)
    <3>1. PICK k \in S + 1 .. T : Answers(t, k) /\ t.tasks[k].call = a.call
      BY <1>2, <2>2 DEF Moved
    <3>2. k \in S + 1 .. U
      BY <1>1
    <3> QED BY <1>6, <3>1, <3>2
  <2> QED BY <2>1, <2>2
<1>10. \A b \in u.callbacks : \E a \in s.callbacks : a.index = b.index /\ a.call = b.call
  <2> TAKE b \in u.callbacks
  <2>1. PICK x \in t.callbacks : x.index = b.index /\ x.call = b.call
    BY DEF Moved
  <2>2. PICK a \in s.callbacks : a.index = x.index /\ a.call = x.call
    BY DEF Moved
  <2> QED BY <2>1, <2>2
<1>11. \A k \in 1 .. S : u.tasks[k] = s.tasks[k]
  <2>1. \A k \in 1 .. S : t.tasks[k] = s.tasks[k] /\ k \in 1 .. T
    BY <1>1 DEF Moved, S
  <2> QED BY <1>3, <2>1
<1>12. S <= U
  BY <1>1
<1> QED BY <1>2, <1>7, <1>8, <1>9, <1>10, <1>11, <1>12 DEF Moved, S, U

LEMMA OneAnswer ==
  \A c \in Calls, ok \in BOOLEAN :
    Answer(c, ok) \in Task /\ Answer(c, ok).kind = "answer" /\ Answer(c, ok).call = c
BY DEF Answer, Task

\* The tasks that answer a set of callbacks: one for each.
LEMMA AnswersToAll ==
  ASSUME NEW cbs, Right(cbs), \A a \in cbs : a.call \in Calls, NEW ok \in BOOLEAN
  PROVE  /\ AnswersTo(cbs, ok) \in Seq(Task)
         /\ \A i \in 1 .. Len(AnswersTo(cbs, ok)) :
              /\ AnswersTo(cbs, ok)[i].kind = "answer"
              /\ \E a \in cbs : a.call = AnswersTo(cbs, ok)[i].call
         /\ \A i, j \in 1 .. Len(AnswersTo(cbs, ok)) :
              AnswersTo(cbs, ok)[i].call = AnswersTo(cbs, ok)[j].call => i = j
         /\ \A a \in cbs : \E i \in 1 .. Len(AnswersTo(cbs, ok)) :
              AnswersTo(cbs, ok)[i].call = a.call
<1> DEFINE n == Cardinality(cbs)
           f == InOrder(cbs)
           ts == AnswersTo(cbs, ok)
<1>1. /\ n \in Nat /\ \A i \in 1 .. n : f[i] \in cbs
      /\ \A i, j \in 1 .. n : f[i] = f[j] => i = j
      /\ \A a \in cbs : \E i \in 1 .. n : f[i] = a
  BY InOrderRight DEF Right
<1>2. ts = [i \in 1 .. n |-> Answer(f[i].call, ok)]
  BY DEF AnswersTo
<1> HIDE DEF n, f, ts
<1>3. \A i \in 1 .. n : ts[i] = Answer(f[i].call, ok)
  BY <1>2
<1>4. \A i \in 1 .. n : ts[i] \in Task
  BY <1>1, <1>3, OneAnswer
<1>5. ts \in Seq(Task) /\ Len(ts) = n
  BY <1>1, <1>2, <1>4
<1>6. \A i \in 1 .. n : ts[i].kind = "answer" /\ ts[i].call = f[i].call
  BY <1>1, <1>3, OneAnswer
<1>7. ASSUME NEW i \in 1 .. n, NEW j \in 1 .. n, ts[i].call = ts[j].call PROVE i = j
  BY <1>1, <1>6, <1>7 DEF Right
<1>8. ASSUME NEW a \in cbs PROVE \E i \in 1 .. n : ts[i].call = a.call
  BY <1>1, <1>6
<1> QED BY <1>1, <1>5, <1>6, <1>7, <1>8 DEF ts

\* Some callbacks are answered and leave the map, the others stay in it.
LEMMA SomeAnswered ==
  ASSUME NEW s, NodeRight(s), NEW t, NEW over, NEW ok \in BOOLEAN, Right(over),
         \A o \in over : InMap(s, o.call) /\ ~InMap(t, o.call),
         \A b \in t.callbacks : \E a \in s.callbacks : a.index = b.index /\ a.call = b.call,
         \A a \in s.callbacks : InMap(t, a.call) \/ \E o \in over : o.call = a.call,
         t.tasks = s.tasks \o AnswersTo(over, ok)
  PROVE  Moved(s, t) /\ t.tasks \in Seq(Task)
<1> DEFINE ts == AnswersTo(over, ok)
           S == Len(s.tasks)
           n == Len(ts)
<1>1. s.tasks \in Seq(Task) /\ \A a \in s.callbacks : a.call \in Calls
  BY DEF NodeRight, NodeState, Callback
<1>2. \A o \in over : o.call \in Calls
  BY <1>1 DEF InMap
<1>3. /\ ts \in Seq(Task)
      /\ \A i \in 1 .. n : ts[i].kind = "answer" /\ \E o \in over : o.call = ts[i].call
      /\ \A i, j \in 1 .. n : ts[i].call = ts[j].call => i = j
      /\ \A o \in over : \E i \in 1 .. n : ts[i].call = o.call
  BY <1>2, AnswersToAll
<1> HIDE DEF ts
<1>4. /\ t.tasks \in Seq(Task) /\ S \in Nat /\ n \in Nat /\ Len(t.tasks) = S + n
      /\ \A i \in 1 .. S : t.tasks[i] = s.tasks[i]
      /\ \A i \in 1 .. n : t.tasks[S + i] = ts[i]
  BY <1>1, <1>3, Joined DEF ts
<1> HIDE DEF S, n
<1>5. NewTasks(s, t) = S + 1 .. S + n
  BY <1>4 DEF NewTasks, S
<1>6. ASSUME NEW k \in S + 1 .. S + n
      PROVE  \E i \in 1 .. n : k = S + i /\ t.tasks[k] = ts[i]
  <2>1. k - S \in 1 .. n /\ k = S + (k - S)
    BY <1>4
  <2> QED BY <1>4, <2>1
<1>7. ASSUME NEW k \in S + 1 .. S + n
      PROVE  Answers(t, k) /\ InMap(s, t.tasks[k].call) /\ ~InMap(t, t.tasks[k].call)
  <2>1. PICK i \in 1 .. n : k = S + i /\ t.tasks[k] = ts[i]
    BY <1>6
  <2>2. PICK o \in over : o.call = ts[i].call
    BY <1>3
  <2> QED BY <1>3, <2>1, <2>2 DEF Answers
<1>8. ASSUME NEW j \in S + 1 .. S + n, NEW k \in S + 1 .. S + n,
             t.tasks[j].call = t.tasks[k].call
      PROVE  j = k
  <2>1. PICK i \in 1 .. n : j = S + i /\ t.tasks[j] = ts[i]
    BY <1>6
  <2>2. PICK l \in 1 .. n : k = S + l /\ t.tasks[k] = ts[l]
    BY <1>6
  <2> QED BY <1>3, <1>8, <2>1, <2>2
<1>9. ASSUME NEW a \in s.callbacks, ~InMap(t, a.call)
      PROVE  \E k \in S + 1 .. S + n : t.tasks[k].call = a.call
  <2>1. PICK o \in over : o.call = a.call
    BY <1>9
  <2>2. PICK i \in 1 .. n : ts[i].call = o.call
    BY <1>3
  <2>3. S + i \in S + 1 .. S + n
    BY <1>4
  <2> QED BY <1>4, <2>1, <2>2, <2>3
<1>10. S <= Len(t.tasks)
  BY <1>4
<1> QED BY <1>4, <1>5, <1>7, <1>8, <1>9, <1>10 DEF Moved, S

LEMMA RightSubset ==
  ASSUME NEW cbs, Right(cbs), NEW S \in SUBSET cbs
  PROVE  Right(S)
BY KeyedSubset DEF Right

LEMMA SendAllRight ==
  ASSUME NEW s \in NodeState, NEW n \in Node, NEW cmd \in {"append", "sleep"}
  PROVE  /\ SendAll(s, n, cmd) \in NodeState
         /\ SendAll(s, n, cmd).callbacks = s.callbacks /\ SendAll(s, n, cmd).tasks = s.tasks
<1> DEFINE c == [m \in Node |-> IF m = n THEN s.cmds[m] ELSE Append(s.cmds[m], cmd)]
<1>1. ASSUME NEW m \in Node PROVE c[m] \in Seq({"append", "sleep"})
  <2>1. s.cmds[m] \in Seq({"append", "sleep"})
    BY DEF NodeState
  <2> QED BY <2>1, AppendProperties
<1>2. c \in [Node -> Seq({"append", "sleep"})]
  BY <1>1
<1>3. SendAll(s, n, cmd) = [s EXCEPT !.cmds = c]
  BY DEF SendAll
<1> HIDE DEF c
<1> QED BY <1>2, <1>3 DEF NodeState

\* step_down answers all callbacks.
LEMMA StepDownRight ==
  ASSUME NEW s, NodeRight(s), NEW n \in Node, NEW t \in Term
  PROVE  NodeRight(StepDown(s, n, t)) /\ Moved(s, StepDown(s, n, t))
<1> DEFINE slept == IF s.state = "leader" THEN SendAll(s, n, "sleep") ELSE s
           d == StepDown(s, n, t)
<1>1. slept \in NodeState /\ slept.tasks = s.tasks
  BY SendAllRight DEF NodeRight
<1> HIDE DEF slept
<1>2. d.tasks = s.tasks \o AnswersTo(s.callbacks, FALSE) /\ d.callbacks = {}
  <2>1. DOMAIN slept = {"term", "state", "file", "last", "committed", "callbacks", "tasks",
                        "cmds", "fault"}
    BY <1>1 DEF NodeState
  <2> QED BY <1>1, <2>1 DEF StepDown, slept, Refusals
<1>3. Right({})
  BY FS_EmptySet DEF Right, Keyed
<1> HIDE DEF d
<1>4. Moved(s, d) /\ d.tasks \in Seq(Task)
  <2>1. Right(s.callbacks)
    BY DEF NodeRight
  <2> QED BY <1>2, <2>1, SomeAnswered DEF InMap
<1>5. d \in NodeState
  <2> DEFINE tm == IF t > slept.term THEN t ELSE slept.term
             ts == slept.tasks \o Refusals(s.callbacks)
  <2>1. d = [slept EXCEPT !.term = tm, !.state = "follower", !.tasks = ts, !.callbacks = {}]
    BY DEF d, StepDown, slept
  <2>2. ts \in Seq(Task)
    BY <1>1, <1>2, <1>4 DEF Refusals
  <2>3. tm \in Term
    BY <1>1 DEF NodeState
  <2> HIDE DEF tm, ts
  <2> QED BY <1>1, <2>1, <2>2, <2>3 DEF NodeState
<1> QED BY <1>2, <1>3, <1>4, <1>5 DEF NodeRight, d

\* append_entries_callback, for one index.
LEMMA ReportRight ==
  ASSUME NEW s, NodeRight(s), NEW e \in Entry
  PROVE  NodeRight(Report(s, e)) /\ Moved(s, Report(s, e))
<1> DEFINE cbs  == {cb \in s.callbacks : cb.index = e.index}
           less == {[cb EXCEPT !.waits = @ - 1] : cb \in cbs}
           over == {cb \in less : cb.waits = 0}
           rest == (s.callbacks \ cbs) \cup (less \ over)
           d    == Report(s, e)
<1>0. /\ s \in NodeState /\ Right(s.callbacks) /\ s.callbacks \in SUBSET Callback
      /\ s.tasks \in Seq(Task) /\ e.index \in Index
  BY DEF NodeRight, NodeState, Entry
<1>1. d = IF over = {} THEN [s EXCEPT !.callbacks = rest]
          ELSE [s EXCEPT !.callbacks = rest, !.committed = e.index,
                         !.tasks = @ \o AnswersTo(over, TRUE)]
  BY DEF Report
<1> HIDE DEF d
<1>2. CASE cbs = {}
  <2>1. less = {} /\ over = {} /\ rest = s.callbacks
    BY <1>2
  <2> HIDE DEF cbs, less, over, rest
  <2>2. d = [s EXCEPT !.callbacks = s.callbacks]
    BY <1>1, <2>1
  <2>3. d = s
    BY <1>0, <2>2 DEF NodeState
  <2> QED BY <1>0, <2>3, NotMoved DEF NodeRight, d
<1>3. CASE cbs # {}
  <2>1. PICK x \in s.callbacks : cbs = {x} /\ x.index = e.index
    BY <1>0, <1>3 DEF Right, Keyed
  <2> DEFINE y == [x EXCEPT !.waits = @ - 1]
  <2>2. /\ y.index = x.index /\ y.call = x.call /\ y.waits = x.waits - 1
        /\ x \in Callback /\ x.waits \in Nat \ {0} /\ x.index \in Index /\ x.call \in Calls
        /\ y = [index |-> x.index, waits |-> x.waits - 1, call |-> x.call]
    BY <1>0 DEF Callback
  <2>3. less = {y}
    BY <2>1
  <2>4. x.waits - 1 \in Nat
    BY <2>2
  <2> HIDE DEF y
  <2>5. over = {} \/ over = {y}
    BY <2>3
  <2>6. \A a \in s.callbacks : a # x => a.index # x.index /\ a.call # x.call
    BY <1>0 DEF Right, Keyed
  <2>7. s.callbacks \ cbs = s.callbacks \ {x}
    BY <2>1
  <2>8. CASE over = {}
    <3>1. rest = (s.callbacks \ {x}) \cup {y} /\ y.waits # 0
      BY <2>3, <2>7, <2>8
    <3> HIDE DEF cbs, less, over, rest
    <3>2. y \in Callback
      <4>1. y.waits \in Nat \ {0}
        BY <2>2, <2>4, <3>1
      <4> QED BY <2>2, <4>1 DEF Callback
    <3>3. IsFiniteSet(rest)
      <4>1. IsFiniteSet(s.callbacks \ {x})
        BY <1>0, FS_RemoveElement DEF Right, Keyed
      <4> QED BY <3>1, <4>1, FS_AddElement
    <3>4. Right(rest)
      <4>1. \A a \in rest : a.index \in Nat
        BY <1>0, <2>2, <3>1 DEF Right, Keyed, Index
      <4>2. \A a, b \in rest : a.index = b.index => a = b
        BY <1>0, <2>2, <2>6, <3>1 DEF Right, Keyed
      <4>3. \A a, b \in rest : a.call = b.call => a = b
        BY <1>0, <2>2, <2>6, <3>1 DEF Right
      <4> QED BY <3>3, <4>1, <4>2, <4>3 DEF Right, Keyed
    <3>5. d = [s EXCEPT !.callbacks = rest]
      BY <1>1, <2>8
    <3>6. d \in NodeState /\ d.callbacks = rest /\ d.tasks = s.tasks
      <4>1. rest \in SUBSET Callback
        BY <1>0, <3>1, <3>2
      <4> QED BY <1>0, <3>5, <4>1 DEF NodeState
    <3>7. Moved(s, d)
      <4>1. Len(s.tasks) \in Nat /\ Len(d.tasks) = Len(s.tasks)
        BY <1>0, <3>6
      <4>2. NewTasks(s, d) = {}
        BY <4>1 DEF NewTasks
      <4>3. \A b \in rest : \E a \in s.callbacks : a.index = b.index /\ a.call = b.call
        BY <2>2, <3>1
      <4>4. \A a \in s.callbacks : \E b \in rest : b.call = a.call
        BY <2>2, <3>1
      <4> QED BY <3>6, <4>1, <4>2, <4>3, <4>4 DEF Moved, InMap
    <3> QED BY <3>4, <3>6, <3>7 DEF NodeRight, d
  <2>9. CASE over = {y}
    <3>1. rest = s.callbacks \ {x} /\ over # {}
      BY <2>3, <2>7, <2>9
    <3> HIDE DEF cbs, less, over, rest
    <3>2. Right(rest) /\ rest \in SUBSET Callback
      BY <1>0, <3>1, RightSubset
    <3>3. Right(over)
      <4>1. IsFiniteSet(over)
        BY <2>9, FS_Singleton
      <4>2. y.index \in Nat
        BY <2>2 DEF Index
      <4> QED BY <2>9, <4>1, <4>2 DEF Right, Keyed
    <3>4. d = [s EXCEPT !.callbacks = rest, !.committed = e.index,
                        !.tasks = s.tasks \o AnswersTo(over, TRUE)]
      BY <1>1, <3>1
    <3>5. d.callbacks = rest /\ d.tasks = s.tasks \o AnswersTo(over, TRUE)
      BY <1>0, <3>4 DEF NodeState
    <3>6. Moved(s, d) /\ d.tasks \in Seq(Task)
      <4>1. \A o \in over : InMap(s, o.call) /\ ~InMap(d, o.call)
        BY <2>2, <2>6, <2>9, <3>1, <3>5 DEF InMap
      <4>2. \A b \in d.callbacks : \E a \in s.callbacks : a.index = b.index /\ a.call = b.call
        BY <3>1, <3>5
      <4>3. \A a \in s.callbacks : InMap(d, a.call) \/ \E o \in over : o.call = a.call
        BY <2>2, <2>9, <3>1, <3>5 DEF InMap
      <4> QED BY <3>3, <3>5, <4>1, <4>2, <4>3, SomeAnswered
    <3>7. d \in NodeState
      BY <1>0, <3>2, <3>4, <3>5, <3>6 DEF NodeState
    <3> QED BY <3>2, <3>5, <3>6, <3>7 DEF NodeRight, d
  <2> QED BY <2>5, <2>8, <2>9
<1> QED BY <1>2, <1>3

\* append_entries_callback: the fold is defined ...
LEMMA ReportAllDefined ==
  ASSUME NEW s, NEW es, Len(es) \in Nat
  PROVE  \E f : f = [k \in 0 .. Len(es) |-> IF k = 0 THEN s ELSE Report(f[k - 1], es[k])]
<1> DEFINE Folds(f, n) == f = [k \in 0 .. n |-> IF k = 0 THEN s ELSE Report(f[k - 1], es[k])]
           T == {n \in Nat : ~\E f : Folds(f, n)}
<1>1. SUFFICES T = {}
  OBVIOUS
<1>2. SUFFICES ASSUME T # {} PROVE FALSE
  OBVIOUS
<1>3. PICK n \in T : \A m \in T : n <= m
  <2>1. T \in SUBSET Nat
    OBVIOUS
  <2> HIDE DEF T
  <2> QED BY <1>2, <2>1, LeastNumber
<1>4. n # 0
  <2>1. Folds([k \in 0 .. 0 |-> s], 0)
    OBVIOUS
  <2> QED BY <2>1
<1>5. n \in Nat /\ n - 1 \in Nat /\ n - 1 \notin T
  <2>1. n \in Nat
    OBVIOUS
  <2> HIDE DEF T
  <2> QED BY <1>3, <1>4, <2>1
<1>6. PICK f : Folds(f, n - 1)
  BY <1>5
<1> DEFINE g == [k \in 0 .. n |-> IF k = n THEN Report(f[n - 1], es[n]) ELSE f[k]]
<1>7. ASSUME NEW k \in 0 .. n
      PROVE  g[k] = IF k = 0 THEN s ELSE Report(g[k - 1], es[k])
  <2>1. k # n => k \in 0 .. n - 1
    BY <1>5
  <2>2. k # 0 => k - 1 \in 0 .. n /\ k - 1 # n /\ k - 1 \in 0 .. n - 1
    BY <1>5
  <2>3. \A j \in 0 .. n - 1 : f[j] = IF j = 0 THEN s ELSE Report(f[j - 1], es[j])
    BY <1>6
  <2> HIDE DEF Folds
  <2>4. CASE k = n
    BY <1>4, <2>2, <2>4
  <2>5. CASE k # n
    <3>1. g[k] = f[k] /\ (k # 0 => g[k - 1] = f[k - 1])
      BY <2>1, <2>2, <2>5
    <3> HIDE DEF g
    <3> QED BY <2>1, <2>3, <2>5, <3>1
  <2> QED BY <2>4, <2>5
<1>8. Folds(g, n)
  <2>1. g = [k \in 0 .. n |-> g[k]]
    OBVIOUS
  <2> HIDE DEF g
  <2> QED BY <1>7, <2>1
<1> QED BY <1>8

\* ... by its steps ...
LEMMA ReportAllSteps ==
  ASSUME NEW s, NEW es, Len(es) \in Nat
  PROVE  \E f : /\ f[0] = s
                /\ \A k \in 1 .. Len(es) : f[k] = Report(f[k - 1], es[k])
                /\ ReportAll(s, es) = f[Len(es)]
<1> DEFINE n == Len(es)
           b == s
           f == CHOOSE f : f = [k \in 0 .. n |-> IF k = 0 THEN b ELSE Report(f[k - 1], es[k])]
<1>1. ReportAll(s, es) = f[n]
  BY DEF ReportAll
<1> HIDE DEF b
<1>2. f = [k \in 0 .. n |-> IF k = 0 THEN b ELSE Report(f[k - 1], es[k])]
  BY ReportAllDefined
<1> HIDE DEF f
<1>3. f[0] = b /\ \A k \in 1 .. n : f[k] = Report(f[k - 1], es[k])
  BY <1>2
<1> QED BY <1>1, <1>3 DEF b

\* ... and every step of it moves callbacks.
LEMMA ReportAllRight ==
  ASSUME NEW s, NodeRight(s), NEW es \in Seq(Entry)
  PROVE  NodeRight(ReportAll(s, es)) /\ Moved(s, ReportAll(s, es))
<1> DEFINE n == Len(es)
           Good(t) == NodeRight(t) /\ Moved(s, t)
<1>1. n \in Nat /\ \A i \in 1 .. n : es[i] \in Entry
  OBVIOUS
<1>2. PICK f : /\ f[0] = s
               /\ \A k \in 1 .. n : f[k] = Report(f[k - 1], es[k])
               /\ ReportAll(s, es) = f[n]
  BY <1>1, ReportAllSteps
<1>3. f[0] = s /\ \A k \in 1 .. n : f[k] = Report(f[k - 1], es[k])
  BY <1>2
<1>4. Good(s)
  BY NotMoved DEF NodeRight, NodeState
<1>5. ASSUME NEW k \in 1 .. n, Good(f[k - 1]) PROVE Good(f[k])
  <2>1. NodeRight(f[k]) /\ Moved(f[k - 1], f[k])
    BY <1>1, <1>3, <1>5, ReportRight
  <2>2. /\ Len(s.tasks) \in Nat /\ Len(f[k - 1].tasks) \in Nat
        /\ Len(f[k].tasks) \in Nat
    BY <1>5, <2>1 DEF NodeRight, NodeState
  <2> QED BY <1>5, <2>1, <2>2, MovedOn
<1> HIDE DEF Good
<1>6. \A k \in 0 .. n : Good(f[k])
  <2> DEFINE T == {k \in 0 .. n : ~Good(f[k])}
  <2>1. SUFFICES ASSUME T # {} PROVE FALSE
    OBVIOUS
  <2>2. PICK k \in T : \A j \in T : k <= j
    <3>1. T \in SUBSET Nat
      BY <1>1
    <3> HIDE DEF T
    <3> QED BY <2>1, <3>1, LeastNumber
  <2>3. k # 0
    BY <1>3, <1>4
  <2>4. k \in 1 .. n /\ k - 1 \in 0 .. n /\ k - 1 \notin T
    BY <1>1, <2>2, <2>3
  <2> QED BY <1>5, <2>4
<1> QED BY <1>1, <1>2, <1>6 DEF Good

-----------------------------------------------------------------------------
(* One node: the entries it is sent.                                       *)

\* What the fold of handle_append_entries_request keeps.
Accepting == [node : NodeState, check : BOOLEAN, failed : BOOLEAN]

SameTasks(s, t) == t.tasks = s.tasks /\ t.callbacks = s.callbacks

LEMMA WriteRight ==
  ASSUME NEW s \in NodeState, NEW e \in Entry
  PROVE  WriteFile(s, e) \in NodeState /\ SameTasks(s, WriteFile(s, e))
<1>1. Append(s.file, e) \in Seq(Entry) /\ e.index \in Index
  BY AppendProperties DEF NodeState, Entry
<1>2. WriteFile(s, e) = [s EXCEPT !.file = Append(s.file, e), !.last = e.index]
  BY DEF WriteFile
<1> QED BY <1>1, <1>2 DEF NodeState, SameTasks

LEMMA AcceptRight ==
  ASSUME NEW a \in Accepting, NEW e \in Entry
  PROVE  Accept(a, e) \in Accepting /\ SameTasks(a.node, Accept(a, e).node)
<1> DEFINE s == a.node
           known == a.check /\ e.index <= s.last
           b == Accept(a, e)
<1>0. s \in NodeState /\ a.check \in BOOLEAN /\ a.failed \in BOOLEAN
  BY DEF Accepting
<1>1. \/ b = a
      \/ b = [a EXCEPT !.failed = TRUE]
      \/ b = [a EXCEPT !.node.fault = "suffix"]
      \/ b = [a EXCEPT !.node = WriteFile(s, e), !.check = a.check /\ ~known]
  <2> HIDE DEF known
  <2> QED BY DEF Accept, known
<1> HIDE DEF b
<1>2. CASE b = a
  BY <1>2 DEF SameTasks, b
<1>3. CASE b = [a EXCEPT !.failed = TRUE]
  BY <1>3 DEF SameTasks, b, Accepting
<1>4. CASE b = [a EXCEPT !.node.fault = "suffix"]
  <2>1. [s EXCEPT !.fault = "suffix"] \in NodeState
    BY <1>0 DEF NodeState, Fault
  <2>2. b = [a EXCEPT !.node = [s EXCEPT !.fault = "suffix"]]
    BY <1>4
  <2>3. b \in Accepting /\ b.node = [s EXCEPT !.fault = "suffix"]
    BY <2>1, <2>2 DEF Accepting
  <2>4. SameTasks(s, [s EXCEPT !.fault = "suffix"])
    BY <1>0 DEF NodeState, SameTasks
  <2> QED BY <2>3, <2>4 DEF b
<1>5. CASE b = [a EXCEPT !.node = WriteFile(s, e), !.check = a.check /\ ~known]
  <2>1. WriteFile(s, e) \in NodeState /\ SameTasks(s, WriteFile(s, e))
    BY <1>0, WriteRight
  <2>2. (a.check /\ ~known) \in BOOLEAN
    OBVIOUS
  <2> DEFINE w == WriteFile(s, e)
             c == a.check /\ ~known
  <2>3. b = [a EXCEPT !.node = w, !.check = c]
    BY <1>5
  <2> HIDE DEF w, c
  <2>4. b \in Accepting /\ b.node = w
    <3>1. w \in NodeState /\ c \in BOOLEAN
      BY <2>1, <2>2 DEF w, c
    <3> QED BY <2>3, <3>1 DEF Accepting
  <2> QED BY <2>1, <2>4 DEF b, w
<1> QED BY <1>1, <1>2, <1>3, <1>4, <1>5

\* The fold is defined ...
LEMMA AcceptAllDefined ==
  ASSUME NEW b, NEW es, Len(es) \in Nat
  PROVE  \E f : f = [k \in 0 .. Len(es) |-> IF k = 0 THEN b ELSE Accept(f[k - 1], es[k])]
<1> DEFINE Folds(f, n) == f = [k \in 0 .. n |-> IF k = 0 THEN b ELSE Accept(f[k - 1], es[k])]
           T == {n \in Nat : ~\E f : Folds(f, n)}
<1>1. SUFFICES T = {}
  OBVIOUS
<1>2. SUFFICES ASSUME T # {} PROVE FALSE
  OBVIOUS
<1>3. PICK n \in T : \A m \in T : n <= m
  <2>1. T \in SUBSET Nat
    OBVIOUS
  <2> HIDE DEF T
  <2> QED BY <1>2, <2>1, LeastNumber
<1>4. n # 0
  <2>1. Folds([k \in 0 .. 0 |-> b], 0)
    OBVIOUS
  <2> QED BY <2>1
<1>5. n \in Nat /\ n - 1 \in Nat /\ n - 1 \notin T
  <2>1. n \in Nat
    OBVIOUS
  <2> HIDE DEF T
  <2> QED BY <1>3, <1>4, <2>1
<1>6. PICK f : Folds(f, n - 1)
  BY <1>5
<1> DEFINE g == [k \in 0 .. n |-> IF k = n THEN Accept(f[n - 1], es[n]) ELSE f[k]]
<1>7. ASSUME NEW k \in 0 .. n
      PROVE  g[k] = IF k = 0 THEN b ELSE Accept(g[k - 1], es[k])
  <2>1. k # n => k \in 0 .. n - 1
    BY <1>5
  <2>2. k # 0 => k - 1 \in 0 .. n /\ k - 1 # n /\ k - 1 \in 0 .. n - 1
    BY <1>5
  <2>3. \A j \in 0 .. n - 1 : f[j] = IF j = 0 THEN b ELSE Accept(f[j - 1], es[j])
    BY <1>6
  <2> HIDE DEF Folds
  <2>4. CASE k = n
    BY <1>4, <2>2, <2>4
  <2>5. CASE k # n
    <3>1. g[k] = f[k] /\ (k # 0 => g[k - 1] = f[k - 1])
      BY <2>1, <2>2, <2>5
    <3> HIDE DEF g
    <3> QED BY <2>1, <2>3, <2>5, <3>1
  <2> QED BY <2>4, <2>5
<1>8. Folds(g, n)
  <2>1. g = [k \in 0 .. n |-> g[k]]
    OBVIOUS
  <2> HIDE DEF g
  <2> QED BY <1>7, <2>1
<1> QED BY <1>8

\* ... by its steps ...
LEMMA AcceptAllSteps ==
  ASSUME NEW s, NEW es, Len(es) \in Nat
  PROVE  \E f : /\ f[0] = [node |-> s, check |-> TRUE, failed |-> FALSE]
                /\ \A k \in 1 .. Len(es) : f[k] = Accept(f[k - 1], es[k])
                /\ AcceptAll(s, es) = f[Len(es)]
<1> DEFINE n == Len(es)
           b == [node |-> s, check |-> TRUE, failed |-> FALSE]
           f == CHOOSE f : f = [k \in 0 .. n |-> IF k = 0 THEN b ELSE Accept(f[k - 1], es[k])]
<1>1. AcceptAll(s, es) = f[n]
  BY DEF AcceptAll
<1> HIDE DEF b
<1>2. f = [k \in 0 .. n |-> IF k = 0 THEN b ELSE Accept(f[k - 1], es[k])]
  BY AcceptAllDefined
<1> HIDE DEF f
<1>3. f[0] = b /\ \A k \in 1 .. n : f[k] = Accept(f[k - 1], es[k])
  BY <1>2
<1> QED BY <1>1, <1>3 DEF b

\* ... and leaves callbacks and tasks alone.
LEMMA AcceptAllRight ==
  ASSUME NEW s \in NodeState, NEW es \in Seq(Entry)
  PROVE  AcceptAll(s, es) \in Accepting /\ SameTasks(s, AcceptAll(s, es).node)
<1> DEFINE n == Len(es)
           b == [node |-> s, check |-> TRUE, failed |-> FALSE]
           Good(a) == a \in Accepting /\ SameTasks(s, a.node)
<1>1. n \in Nat /\ \A i \in 1 .. n : es[i] \in Entry
  OBVIOUS
<1>2. PICK f : /\ f[0] = b
               /\ \A k \in 1 .. n : f[k] = Accept(f[k - 1], es[k])
               /\ AcceptAll(s, es) = f[n]
  BY <1>1, AcceptAllSteps
<1>3. f[0] = b /\ \A k \in 1 .. n : f[k] = Accept(f[k - 1], es[k])
  BY <1>2
<1>4. Good(b)
  BY DEF Accepting, SameTasks
<1>5. ASSUME NEW k \in 1 .. n, Good(f[k - 1]) PROVE Good(f[k])
  <2>1. f[k] \in Accepting /\ SameTasks(f[k - 1].node, f[k].node)
    BY <1>1, <1>3, <1>5, AcceptRight
  <2> QED BY <1>5, <2>1 DEF SameTasks
<1> HIDE DEF Good
<1>6. \A k \in 0 .. n : Good(f[k])
  <2> DEFINE T == {k \in 0 .. n : ~Good(f[k])}
  <2>1. SUFFICES ASSUME T # {} PROVE FALSE
    OBVIOUS
  <2>2. PICK k \in T : \A j \in T : k <= j
    <3>1. T \in SUBSET Nat
      BY <1>1
    <3> HIDE DEF T
    <3> QED BY <2>1, <3>1, LeastNumber
  <2>3. k # 0
    BY <1>3, <1>4
  <2>4. k \in 1 .. n /\ k - 1 \in 0 .. n /\ k - 1 \notin T
    BY <1>1, <2>2, <2>3
  <2> QED BY <1>5, <2>4
<1>7. Good(f[n])
  BY <1>1, <1>6
<1> QED BY <1>2, <1>7 DEF Good

\* handle_append_entries_request: what becomes of the node, and the response.
LEMMA HandleRight ==
  ASSUME NEW m \in Node, NodeRight(node[m]), NEW q \in Request
  PROVE  /\ NodeRight(HandleAppend(m, q).node) /\ Moved(node[m], HandleAppend(m, q).node)
         /\ HandleAppend(m, q).failed \in BOOLEAN
         /\ HandleAppend(m, q).resp \in Response
<1> USE LogAssumption
<1> DEFINE s == IF q.term > node[m].term THEN StepDown(node[m], m, q.term) ELSE node[m]
           prev == q.prev # 0 /\ q.prev > Start(s.file)
           left(ok, i) == [node |-> s, failed |-> FALSE, resp |-> Reply(ok, s.term, i)]
           done == AcceptAll(s, q.entries)
           full == IF done.node.committed < q.commit
                   THEN [done.node EXCEPT !.tasks =
                           Append(@, [kind |-> "commit", upto |-> q.commit])]
                   ELSE done.node
           h == HandleAppend(m, q)
<1>0. /\ q.term \in Term /\ q.prev \in Index /\ q.commit \in Index
      /\ q.entries \in Seq(Entry)
  BY DEF Request
<1>1. NodeRight(s) /\ Moved(node[m], s)
  <2>1. Moved(node[m], node[m])
    BY NotMoved DEF NodeRight, NodeState
  <2> QED BY <1>0, <2>1, StepDownRight
<1> HIDE DEF s
<1>2. s \in NodeState /\ s.term \in Term /\ s.last \in Index /\ s.tasks \in Seq(Task)
  BY <1>1 DEF NodeRight, NodeState
<1>3. done \in Accepting /\ SameTasks(s, done.node)
  BY <1>0, <1>2, AcceptAllRight
<1> HIDE DEF done
<1>4. done.node \in NodeState /\ done.node.last \in Index /\ done.node.committed \in Index
  BY <1>3 DEF Accepting, NodeState
<1>5. NodeRight(done.node) /\ Moved(node[m], done.node)
  <2>1. Moved(s, done.node)
    BY <1>2, <1>3, NotMoved DEF SameTasks
  <2>2. /\ Len(node[m].tasks) \in Nat /\ Len(s.tasks) \in Nat
        /\ Len(done.node.tasks) \in Nat
    BY <1>2, <1>3 DEF SameTasks, NodeRight, NodeState
  <2> QED BY <1>1, <1>3, <1>4, <2>1, <2>2, MovedOn DEF SameTasks, NodeRight
<1>6. NodeRight(full) /\ Moved(node[m], full) /\ full.last \in Index
  <2>1. CASE ~(done.node.committed < q.commit)
    BY <1>4, <1>5, <2>1
  <2>2. CASE done.node.committed < q.commit
    <3> DEFINE d == done.node
               e == [kind |-> "commit", upto |-> q.commit]
               ts == Append(d.tasks, e)
    <3>1. full = [d EXCEPT !.tasks = ts]
      BY <2>2
    <3>2. e \in Task /\ e.kind # "answer"
      BY <1>0 DEF Task
    <3>3. d.tasks \in Seq(Task)
      BY <1>4 DEF NodeState
    <3>4. /\ ts \in Seq(Task) /\ Len(d.tasks) \in Nat /\ Len(ts) = Len(d.tasks) + 1
          /\ \A i \in 1 .. Len(d.tasks) : ts[i] = d.tasks[i]
          /\ ts[Len(d.tasks) + 1] = e
      <4> HIDE DEF e
      <4> QED BY <3>2, <3>3, AppendTo
    <3> HIDE DEF d, e, ts, full
    <3>5. /\ full \in NodeState /\ full.tasks = ts /\ full.callbacks = d.callbacks
          /\ full.last = d.last
      BY <1>4, <3>1, <3>4 DEF NodeState, d
    <3>6. Moved(d, full)
      <4>1. NewTasks(d, full) = {Len(d.tasks) + 1}
        BY <3>4, <3>5 DEF NewTasks
      <4>2. ~Answers(full, Len(d.tasks) + 1)
        BY <3>2, <3>4, <3>5 DEF Answers
      <4>3. Len(d.tasks) <= Len(full.tasks)
        BY <3>4, <3>5
      <4> QED BY <3>4, <3>5, <4>1, <4>2, <4>3 DEF Moved, InMap
    <3>7. Moved(node[m], full)
      <4>1. Len(node[m].tasks) \in Nat /\ Len(full.tasks) \in Nat
        BY <3>4, <3>5 DEF NodeRight, NodeState
      <4> QED BY <1>5, <3>4, <3>6, <4>1, MovedOn DEF d
    <3> QED BY <1>4, <1>5, <3>5, <3>7 DEF NodeRight, d
  <2> QED BY <2>1, <2>2
<1> HIDE DEF full
<1>7. \A ok \in BOOLEAN, i \in Index : Reply(ok, s.term, i) \in Response
  BY <1>2 DEF Reply, Response
<1>8. \/ h = left(FALSE, 0)
      \/ h = left(FALSE, s.last)
      \/ h = [left(FALSE, 0) EXCEPT !.failed = TRUE]
      \/ prev /\ h = left(FALSE, q.prev - 1)
      \/ h = [node |-> done.node, failed |-> TRUE, resp |-> Reply(FALSE, 0, 0)]
      \/ h = [node |-> full, failed |-> FALSE, resp |-> Reply(TRUE, s.term, full.last)]
  BY DEF HandleAppend, s, done, full
<1>9. 0 \in Index /\ (prev => q.prev - 1 \in Index)
  BY <1>0 DEF Index
<1> HIDE DEF h, prev
<1> DEFINE Goal == /\ NodeRight(h.node) /\ Moved(node[m], h.node)
                   /\ h.failed \in BOOLEAN /\ h.resp \in Response
<1>10. ASSUME NEW nd, NodeRight(nd), Moved(node[m], nd), NEW f \in BOOLEAN, NEW r \in Response,
              h = [node |-> nd, failed |-> f, resp |-> r]
       PROVE  Goal
  <2>1. h.node = nd /\ h.failed = f /\ h.resp = r
    BY <1>10
  <2> QED BY <1>10, <2>1
<1>11. ASSUME NEW ok \in BOOLEAN, NEW i \in Index, h = left(ok, i) PROVE Goal
  <2>1. Reply(ok, s.term, i) \in Response
    BY <1>7
  <2> HIDE DEF Goal
  <2> QED BY <1>1, <1>10, <1>11, <2>1
<1>12. ASSUME h = [left(FALSE, 0) EXCEPT !.failed = TRUE] PROVE Goal
  <2>1. Reply(FALSE, s.term, 0) \in Response
    BY <1>7, <1>9
  <2>2. h = [node |-> s, failed |-> TRUE, resp |-> Reply(FALSE, s.term, 0)]
    BY <1>12
  <2> HIDE DEF Goal
  <2> QED BY <1>1, <1>10, <2>1, <2>2
<1>13. ASSUME h = [node |-> done.node, failed |-> TRUE, resp |-> Reply(FALSE, 0, 0)] PROVE Goal
  <2>1. Reply(FALSE, 0, 0) \in Response
    BY <1>9 DEF Reply, Response, Term
  <2> HIDE DEF Goal
  <2> QED BY <1>5, <1>10, <1>13, <2>1
<1>14. ASSUME h = [node |-> full, failed |-> FALSE, resp |-> Reply(TRUE, s.term, full.last)]
       PROVE  Goal
  <2>1. Reply(TRUE, s.term, full.last) \in Response
    BY <1>6, <1>7
  <2> HIDE DEF Goal
  <2> QED BY <1>6, <1>10, <1>14, <2>1
<1>15. Goal
  <2> HIDE DEF Goal, left
  <2> QED BY <1>2, <1>8, <1>9, <1>11, <1>12, <1>13, <1>14
<1> QED BY <1>15 DEF h

-----------------------------------------------------------------------------
(* The inductive invariant.                                                *)

\* Before its entry is written a call has no index, and no timer runs for it.
CallInv ==
  \A c \in Calls :
    /\ call[c].at # "new" => call[c].node \in Node
    /\ call[c].at \in {"written", "done"} => call[c].index > 0
    /\ call[c].at \in {"new", "asked", "stamped"} => call[c].index = 0 /\ call[c].timer = "no"

\* A callback waits at the index of its call, in the node that was called.
CallbackInv ==
  \A n \in Node :
    /\ Right(node[n].callbacks)
    /\ \A cb \in node[n].callbacks :
         /\ call[cb.call].at = "done" /\ call[cb.call].node = n
         /\ call[cb.call].index = cb.index

\* Task k of node n answers call c.
Answering(n, k, c) == Answers(node[n], k) /\ node[n].tasks[k].call = c

\* What is about to be answered is in the map no more, has not been answered,
\* and is about to be answered once.
TaskInv ==
  \A n \in Node :
    /\ \A k \in 1 .. Len(node[n].tasks), c \in Calls : Answering(n, k, c) =>
         /\ call[c].at = "done" /\ call[c].node = n
         /\ ~InMap(node[n], c) /\ answers[c] = <<>>
    /\ \A j, k \in 1 .. Len(node[n].tasks), c \in Calls :
         Answering(n, j, c) /\ Answering(n, k, c) => j = k

\* What has been answered is in the map no more.
AnsweredInv ==
  \A c \in Calls :
    /\ Len(answers[c]) <= 1
    /\ answers[c] # <<>> => call[c].at = "done" /\ ~InMap(node[call[c].node], c)

\* Another call of the node was given the index of c.
Shared(c) ==
  \E b \in Calls \ {c} : call[b].node = call[c].node /\ call[b].index = call[c].index

\* A registered call whose timer has still to run.
ComingInv ==
  \A c \in Calls :
    call[c].at = "done" /\ call[c].timer # "no" /\ ~Shared(c) =>
      \/ answers[c] # <<>>
      \/ InMap(node[call[c].node], c)
      \/ \E k \in 1 .. Len(node[call[c].node].tasks) : Answering(call[c].node, k, c)

LogInv == TypeOK /\ CallInv /\ CallbackInv /\ TaskInv /\ AnsweredInv /\ ComingInv

-----------------------------------------------------------------------------
(* Steps that move callbacks into answers, or nothing.                     *)

NodesKept == /\ node' \in [Node -> NodeState]
             /\ \A n \in Node : Right(node'[n].callbacks) /\ Moved(node[n], node'[n])

CallsKept ==
  \A c \in Calls :
    /\ call[c].at \in {"written", "done"} =>
         call'[c].node = call[c].node /\ call'[c].index = call[c].index
    /\ call'[c].at = "done" <=> call[c].at = "done"
    /\ call[c].at = "done" /\ call'[c].timer # "no" => call[c].timer # "no"

LEMMA MovedStep ==
  ASSUME LogInv, NodesKept, CallsKept, TypeOK', CallInv', answers' = answers
  PROVE  LogInv'
<1> USE DEF LogInv
<1>1. \A n \in Node : /\ Len(node[n].tasks) \in Nat /\ Len(node'[n].tasks) \in Nat
                      /\ node'[n] \in NodeState /\ node[n] \in NodeState
  BY DEF TypeOK, NodesKept, NodeState
<1>2. \A c \in Calls : call[c].at = "done" =>
        /\ call'[c].at = "done" /\ call'[c].node = call[c].node
        /\ call'[c].index = call[c].index /\ call[c].node \in Node
  BY DEF CallsKept, CallInv
<1>3. \A n \in Node, c \in Calls : InMap(node'[n], c) => InMap(node[n], c)
  BY DEF NodesKept, Moved, InMap
<1>4. CallbackInv'
  <2>1. ASSUME NEW n \in Node, NEW b \in node'[n].callbacks
        PROVE  /\ call'[b.call].at = "done" /\ call'[b.call].node = n
               /\ call'[b.call].index = b.index
    <3>1. PICK a \in node[n].callbacks : a.index = b.index /\ a.call = b.call
      BY DEF NodesKept, Moved
    <3>2. a.call \in Calls
      BY <1>1 DEF NodeState, Callback
    <3>3. call[a.call].at = "done" /\ call[a.call].node = n /\ call[a.call].index = a.index
      BY DEF CallbackInv
    <3> QED BY <1>2, <3>1, <3>2, <3>3
  <2> QED BY <2>1 DEF CallbackInv, NodesKept
\* A task that answers is an old one, or answers a callback that has left the map.
<1>5. ASSUME NEW n \in Node, NEW k \in 1 .. Len(node'[n].tasks), NEW c \in Calls,
             Answering(n, k, c)'
      PROVE  \/ k \in 1 .. Len(node[n].tasks) /\ Answering(n, k, c)
             \/ /\ k \in NewTasks(node[n], node'[n])
                /\ InMap(node[n], c) /\ ~InMap(node'[n], c)
  <2>1. k \in 1 .. Len(node[n].tasks) \/ k \in NewTasks(node[n], node'[n])
    BY <1>1 DEF NewTasks
  <2>2. Moved(node[n], node'[n]) /\ Answers(node'[n], k) /\ node'[n].tasks[k].call = c
    BY <1>5 DEF NodesKept, Answering
  <2>3. k \in 1 .. Len(node[n].tasks) => node'[n].tasks[k] = node[n].tasks[k]
    BY <2>2 DEF Moved
  <2>4. CASE k \in 1 .. Len(node[n].tasks)
    BY <2>2, <2>3, <2>4 DEF Answering, Answers
  <2>5. CASE k \in NewTasks(node[n], node'[n])
    BY <2>2, <2>5 DEF Moved
  <2> QED BY <2>1, <2>4, <2>5
<1>6. TaskInv'
  <2>1. ASSUME NEW n \in Node, NEW k \in 1 .. Len(node'[n].tasks), NEW c \in Calls,
               Answering(n, k, c)'
        PROVE  /\ call'[c].at = "done" /\ call'[c].node = n
               /\ ~InMap(node'[n], c) /\ answers'[c] = <<>>
    <3>1. CASE k \in 1 .. Len(node[n].tasks) /\ Answering(n, k, c)
      BY <1>2, <1>3, <3>1 DEF TaskInv
    <3>2. CASE InMap(node[n], c) /\ ~InMap(node'[n], c)
      <4>1. call[c].at = "done" /\ call[c].node = n
        BY <3>2 DEF InMap, CallbackInv
      <4>2. answers[c] = <<>>
        BY <3>2, <4>1 DEF AnsweredInv
      <4> QED BY <1>2, <3>2, <4>1, <4>2
    <3> QED BY <1>5, <2>1, <3>1, <3>2
  <2>2. ASSUME NEW n \in Node, NEW j \in 1 .. Len(node'[n].tasks),
               NEW k \in 1 .. Len(node'[n].tasks), NEW c \in Calls,
               Answering(n, j, c)', Answering(n, k, c)'
        PROVE  j = k
    <3>1. CASE j \in 1 .. Len(node[n].tasks) /\ k \in 1 .. Len(node[n].tasks)
               /\ Answering(n, j, c) /\ Answering(n, k, c)
      BY <3>1 DEF TaskInv
    <3>2. CASE \/ j \in 1 .. Len(node[n].tasks) /\ Answering(n, j, c) /\ InMap(node[n], c)
               \/ k \in 1 .. Len(node[n].tasks) /\ Answering(n, k, c) /\ InMap(node[n], c)
      BY <3>2 DEF TaskInv
    <3>3. CASE j \in NewTasks(node[n], node'[n]) /\ k \in NewTasks(node[n], node'[n])
      BY <2>2, <3>3 DEF NodesKept, Moved, Answering
    <3> QED BY <1>5, <2>2, <3>1, <3>2, <3>3
  <2> QED BY <2>1, <2>2 DEF TaskInv
<1>7. AnsweredInv'
  <2>1. ASSUME NEW c \in Calls, answers'[c] # <<>>
        PROVE  call'[c].at = "done" /\ ~InMap(node'[call'[c].node], c)
    <3>1. call[c].at = "done" /\ ~InMap(node[call[c].node], c)
      BY <2>1 DEF AnsweredInv
    <3> QED BY <1>2, <1>3, <3>1
  <2> QED BY <2>1 DEF AnsweredInv
<1>8. ASSUME NEW c \in Calls, call'[c].at = "done", call'[c].timer # "no", ~Shared(c)',
             answers'[c] = <<>>, ~InMap(node'[call'[c].node], c)
      PROVE  \E k \in 1 .. Len(node'[call'[c].node].tasks) : Answering(call[c].node, k, c)'
  <2> DEFINE n == call[c].node
  <2>1. call[c].at = "done" /\ call[c].timer # "no" /\ call'[c].node = n /\ n \in Node
    BY <1>2, <1>8 DEF CallsKept
  <2>2. ~Shared(c)
    <3>1. ASSUME NEW b \in Calls \ {c}, call[b].node = n, call[b].index = call[c].index
          PROVE  FALSE
      <4>1. call[c].index > 0
        BY <2>1 DEF CallInv
      <4>2. call[b].at \in {"written", "done"}
        <5>1. call[b].at \in {"new", "asked", "stamped", "written", "done"}
          BY DEF TypeOK, CallState
        <5>2. call[b].index # 0
          BY <3>1, <4>1
        <5> QED BY <5>1, <5>2 DEF CallInv
      <4>3. call'[b].node = call'[c].node /\ call'[b].index = call'[c].index
        BY <1>2, <2>1, <3>1, <4>2 DEF CallsKept
      <4> QED BY <1>8, <4>3 DEF Shared
    <3> QED BY <3>1 DEF Shared
  <2>3. \/ InMap(node[n], c)
        \/ \E k \in 1 .. Len(node[n].tasks) : Answering(n, k, c)
    BY <1>8, <2>1, <2>2 DEF ComingInv
  <2>4. Moved(node[n], node'[n]) /\ ~InMap(node'[n], c)
    BY <1>8, <2>1 DEF NodesKept
  <2>5. \E k \in 1 .. Len(node'[n].tasks) : Answers(node'[n], k) /\ node'[n].tasks[k].call = c
    <3>1. CASE InMap(node[n], c)
      <4>1. PICK k \in NewTasks(node[n], node'[n]) :
              Answers(node'[n], k) /\ node'[n].tasks[k].call = c
        BY <2>4, <3>1 DEF Moved, InMap
      <4>2. k \in 1 .. Len(node'[n].tasks)
        BY <1>1, <2>1 DEF NewTasks
      <4> QED BY <4>1, <4>2
    <3>2. ASSUME NEW k \in 1 .. Len(node[n].tasks), Answering(n, k, c)
          PROVE  \E i \in 1 .. Len(node'[n].tasks) :
                   Answers(node'[n], i) /\ node'[n].tasks[i].call = c
      <4>1. node'[n].tasks[k] = node[n].tasks[k] /\ Len(node[n].tasks) <= Len(node'[n].tasks)
        BY <2>4 DEF Moved
      <4>2. k \in 1 .. Len(node'[n].tasks)
        BY <1>1, <2>1, <4>1
      <4> QED BY <3>2, <4>1, <4>2 DEF Answering, Answers
    <3> QED BY <2>3, <3>1, <3>2
  <2> QED BY <2>1, <2>5 DEF Answering
<1>9. ComingInv'
  BY <1>8 DEF ComingInv
<1> QED BY <1>4, <1>6, <1>7, <1>9

-----------------------------------------------------------------------------
(* Reading the log.                                                        *)

LEMMA GetEntriesRight ==
  ASSUME NEW f \in Seq(Entry), NEW i \in Nat
  PROVE  GetEntries(f, i) \in Seq(Entry)
<1>1. CASE Holds(f, i)
  <2> DEFINE m == Place(f, i)
  <2>1. f # <<>> /\ Start(f) \in Nat /\ Start(f) <= i
    <3>1. f # <<>> /\ Start(f) <= i
      BY <1>1 DEF Holds
    <3>2. f[1] \in Entry
      BY <3>1, EmptySeq
    <3> QED BY <3>1, <3>2 DEF Start, Entry, Index
  <2>2. m \in Nat \ {0}
    BY <2>1 DEF Place
  <2> HIDE DEF m
  <2>3. Len(f) \in Int
    OBVIOUS
  <2>4. SubSeq(f, m, Len(f)) \in Seq(Entry)
    BY <2>2, <2>3, Part
  <2> QED BY <1>1, <2>4 DEF GetEntries, m
<1>2. CASE ~Holds(f, i)
  BY <1>2 DEF GetEntries
<1> QED BY <1>1, <1>2

LEMMA BuildRight ==
  ASSUME NEW n \in Node, node[n] \in NodeState, NEW t \in Thread
  PROVE  BuildAppend(n, t) \in Request
<1> USE LogAssumption
<1> DEFINE f == node[n].file
           i == IF t.next > 1 THEN t.next - 1 ELSE t.next
           es == GetEntries(f, i)
           after == Len(es) > 1 /\ t.next > 1
           b == BuildAppend(n, t)
<1>1. t.next \in 0 .. MaxCalls + 1 /\ t.term \in Term /\ t.commit \in Index
  BY DEF Thread
<1>2. i \in Nat
  BY <1>1
<1>3. f \in Seq(Entry)
  BY DEF NodeState
<1> HIDE DEF f, i
<1>4. es \in Seq(Entry)
  BY <1>2, <1>3, GetEntriesRight
<1>5. b = [from |-> n, term |-> t.term, commit |-> t.commit,
           prev     |-> IF after THEN es[1].index ELSE 0,
           prevTerm |-> IF after THEN es[1].term ELSE 0,
           entries  |-> IF after THEN Tail(es) ELSE es]
  BY DEF BuildAppend, f, i
<1> HIDE DEF es, b
<1>6. 0 \in Index /\ 0 \in Term
  BY DEF Index, Term
<1>7. CASE after
  <2>1. es # <<>>
    BY <1>7
  <2>2. es[1] \in Entry /\ Tail(es) \in Seq(Entry)
    BY <1>4, <2>1, TailOf
  <2>3. es[1].index \in Index /\ es[1].term \in Term
    BY <2>2 DEF Entry
  <2> QED BY <1>1, <1>5, <1>7, <2>2, <2>3 DEF Request, b
<1>8. CASE ~after
  BY <1>1, <1>4, <1>5, <1>6, <1>8 DEF Request, b
<1> QED BY <1>7, <1>8

LEMMA BatchRight ==
  ASSUME NEW s \in NodeState, NEW upto \in Index
  PROVE  Batch(s, upto) \in Seq(Entry)
<1> USE LogAssumption
<1> DEFINE es == GetEntries(s.file, s.committed + 1)
           n == upto - s.committed
           l == IF n < Len(es) THEN n ELSE Len(es)
<1>1. s.committed + 1 \in Nat /\ n \in Int /\ s.file \in Seq(Entry)
  BY DEF NodeState, Index
<1>2. es \in Seq(Entry)
  BY <1>1, GetEntriesRight
<1> HIDE DEF es, n
<1>3. l \in Int /\ l <= Len(es)
  BY <1>1, <1>2
<1>4. SubSeq(es, 1, l) \in Seq(Entry)
  <2> HIDE DEF l
  <2> QED BY <1>2, <1>3, Part
<1>5. Batch(s, upto) = IF n < 0 THEN es ELSE SubSeq(es, 1, l)
  BY DEF Batch, es, n
<1> QED BY <1>2, <1>4, <1>5

-----------------------------------------------------------------------------
(* Every step keeps the invariant.                                         *)

LEMMA NodeMoves ==
  ASSUME TypeOK, CallbackInv, NEW n \in Node, NEW s, NodeRight(s), Moved(node[n], s),
         node' = [node EXCEPT ![n] = s]
  PROVE  NodesKept
<1>1. ASSUME NEW m \in Node
      PROVE  node'[m] \in NodeState /\ Right(node'[m].callbacks) /\ Moved(node[m], node'[m])
  <2>1. CASE m = n
    BY <2>1 DEF TypeOK, NodeRight
  <2>2. CASE m # n
    <3>1. node'[m] = node[m] /\ node[m] \in NodeState
      BY <2>2 DEF TypeOK
    <3>2. Moved(node[m], node[m])
      BY <3>1, NotMoved DEF NodeState
    <3> QED BY <3>1, <3>2 DEF CallbackInv
  <2> QED BY <2>1, <2>2
<1>2. node' = [m \in Node |-> node'[m]]
  BY DEF TypeOK
<1> QED BY <1>1, <1>2 DEF NodesKept

\* A step that leaves callbacks and tasks alone.
LEMMA NodeStays ==
  ASSUME TypeOK, CallbackInv, NEW n \in Node, NEW s \in NodeState, SameTasks(node[n], s),
         node' = [node EXCEPT ![n] = s]
  PROVE  NodesKept
<1>1. Moved(node[n], s) /\ NodeRight(s)
  BY NotMoved DEF SameTasks, TypeOK, NodeState, CallbackInv, NodeRight
<1> QED BY <1>1, NodeMoves

LEMMA NodesStay ==
  ASSUME TypeOK, CallbackInv, node' = node
  PROVE  NodesKept
<1>1. \A n \in Node : Moved(node[n], node[n]) /\ Right(node[n].callbacks)
  BY NotMoved DEF TypeOK, NodeState, CallbackInv
<1> QED BY <1>1 DEF TypeOK, NodesKept

LEMMA CallsStay ==
  ASSUME CallInv, call' = call
  PROVE  CallsKept /\ CallInv'
BY DEF CallInv, CallsKept

Step == TypeOK' /\ NodesKept /\ CallsKept /\ CallInv' /\ answers' = answers

LEMMA StepElect ==
  ASSUME LogInv, NEW n \in Node, NEW Q \in SUBSET Others(n), NEW t \in Term, Elect(n, Q, t)
  PROVE  Step
<1>0. TypeOK /\ CallInv /\ CallbackInv
  BY DEF LogInv
<1>1. CallsKept /\ CallInv'
  BY <1>0, CallsStay DEF Elect
<1> DEFINE s == SendAll(node[n], n, "append")
           w == [s EXCEPT !.term = t, !.state = "leader"]
<1>2. s \in NodeState /\ SameTasks(node[n], s)
  BY <1>0, SendAllRight DEF TypeOK, SameTasks
<1> HIDE DEF s
<1>3. w \in NodeState /\ SameTasks(node[n], w)
  BY <1>2 DEF NodeState, SameTasks
<1> HIDE DEF w
<1>4. node' = [v \in Node |-> IF v = n THEN w ELSE IF v \in Q THEN StepDown(node[v], v, t)
                              ELSE node[v]]
  BY DEF Elect, w, s
<1>5. ASSUME NEW v \in Node
      PROVE  node'[v] \in NodeState /\ Right(node'[v].callbacks) /\ Moved(node[v], node'[v])
  <2>1. node[v] \in NodeState /\ Right(node[v].callbacks) /\ NodeRight(node[v])
    BY <1>0 DEF TypeOK, CallbackInv, NodeRight
  <2>2. node[v].tasks \in Seq(Task)
    BY <2>1 DEF NodeState
  <2>3. CASE v = n
    BY <1>3, <1>4, <2>1, <2>2, <2>3, NotMoved DEF SameTasks
  <2>4. CASE v # n /\ v \in Q
    <3>1. node'[v] = StepDown(node[v], v, t)
      BY <1>4, <2>4
    <3> QED BY <2>1, <3>1, StepDownRight DEF NodeRight
  <2>5. CASE v # n /\ v \notin Q
    BY <1>4, <2>1, <2>2, <2>5, NotMoved
  <2> QED BY <2>3, <2>4, <2>5
<1>6. NodesKept
  BY <1>4, <1>5 DEF NodesKept
<1> QED BY <1>0, <1>1, <1>6 DEF Step, NodesKept, TypeOK, Elect

LEMMA StepStand ==
  ASSUME LogInv, NEW n \in Node, Stand(n)
  PROVE  Step
<1> USE LogAssumption
<1>0. TypeOK /\ CallInv /\ CallbackInv /\ node[n] \in NodeState
  BY DEF LogInv, TypeOK
<1>1. CallsKept /\ CallInv'
  BY <1>0, CallsStay DEF Stand
<1> DEFINE s == [node[n] EXCEPT !.term = @ + 1, !.state = "candidate"]
<1>2. s \in NodeState /\ SameTasks(node[n], s)
  <2>1. node[n].term + 1 \in Term
    BY <1>0 DEF Stand, NodeState, Term
  <2> QED BY <1>0, <2>1 DEF NodeState, SameTasks
<1>3. node' = [node EXCEPT ![n] = s]
  BY <1>0 DEF Stand, TypeOK
<1> HIDE DEF s
<1>4. NodesKept
  BY <1>0, <1>2, <1>3, NodeStays
<1> QED BY <1>0, <1>1, <1>4 DEF Step, NodesKept, TypeOK, Stand

LEMMA StepAsk ==
  ASSUME LogInv, NEW c \in Calls, NEW n \in Node, Ask(c, n)
  PROVE  Step
<1>0. TypeOK /\ CallInv /\ CallbackInv
  BY DEF LogInv
<1>1. NodesKept
  BY <1>0, NodesStay DEF Ask
<1>2. call' = [call EXCEPT ![c] = [call[c] EXCEPT !.at = "asked", !.node = n]] /\ call[c].at = "new"
  BY <1>0 DEF Ask, TypeOK
<1>3. [call[c] EXCEPT !.at = "asked", !.node = n] \in CallState
  BY <1>0 DEF TypeOK, CallState
<1>4. TypeOK'
  BY <1>0, <1>2, <1>3 DEF TypeOK, Ask, rpcVars, historyVars
<1>5. CallsKept /\ CallInv'
  BY <1>0, <1>2 DEF CallsKept, CallInv, TypeOK, CallState
<1> QED BY <1>1, <1>4, <1>5 DEF Step, Ask, historyVars

LEMMA StepStamp ==
  ASSUME LogInv, NEW c \in Calls, Stamp(c)
  PROVE  Step
<1>0. TypeOK /\ CallInv /\ CallbackInv
  BY DEF LogInv
<1>1. NodesKept
  BY <1>0, NodesStay DEF Stamp
<1> DEFINE tm == node[call[c].node].term
<1>2. call' = [call EXCEPT ![c] = [call[c] EXCEPT !.at = "stamped", !.term = tm]]
      /\ call[c].at = "asked"
  BY <1>0 DEF Stamp, TypeOK
<1>3. tm \in Term
  BY <1>0, <1>2 DEF TypeOK, CallInv, NodeState
<1> HIDE DEF tm
<1>4. [call[c] EXCEPT !.at = "stamped", !.term = tm] \in CallState
  BY <1>0, <1>3 DEF TypeOK, CallState
<1>5. TypeOK'
  <2>1. call' \in [Calls -> CallState]
    BY <1>0, <1>2, <1>4 DEF TypeOK
  <2>2. /\ node' = node /\ thread' = thread /\ rpc' = rpc /\ late' = late
        /\ committing' = committing /\ lost' = lost /\ applied' = applied
        /\ answers' = answers
    BY DEF Stamp, rpcVars, historyVars
  <2>3. node' \in [Node -> NodeState]
    BY <1>0, <2>2 DEF TypeOK
  <2>4. thread' \in [Node -> [Node -> Thread]] /\ rpc' \in [Node -> [Node -> Rpc \cup {NoRpc}]]
    BY <1>0, <2>2 DEF TypeOK
  <2> QED BY <1>0, <2>1, <2>2, <2>3, <2>4 DEF TypeOK
<1>6. CallsKept /\ CallInv'
  BY <1>0, <1>2 DEF CallsKept, CallInv, TypeOK, CallState
<1> QED BY <1>1, <1>5, <1>6 DEF Step, Stamp, historyVars

LEMMA StepWriteEntry ==
  ASSUME LogInv, NEW c \in Calls, WriteEntry(c)
  PROVE  Step
<1> USE LogAssumption
<1>0. TypeOK /\ CallInv /\ CallbackInv
  BY DEF LogInv
<1> DEFINE n == call[c].node
           i == node[n].last + 1
           e == [index |-> i, term |-> call[c].term, data |-> c]
<1>1. n \in Node /\ node[n] \in NodeState /\ call[c].at = "stamped" /\ i \in Index
  BY <1>0 DEF WriteEntry, TypeOK, CallInv
<1>2. i > 0
  BY <1>1 DEF NodeState, Index
<1>3. e \in Entry
  BY <1>0, <1>1 DEF Entry, TypeOK, CallState
<1>4. node' = [node EXCEPT ![n] = WriteFile(node[n], e)]
  BY <1>0, <1>1 DEF WriteEntry, TypeOK
<1>5. call' = [call EXCEPT ![c] = [call[c] EXCEPT !.at = "written", !.index = i, !.timer = "set"]]
  BY <1>0 DEF WriteEntry, TypeOK
<1>6. NodesKept
  <2> HIDE DEF e, n
  <2>1. WriteFile(node[n], e) \in NodeState /\ SameTasks(node[n], WriteFile(node[n], e))
    BY <1>1, <1>3, WriteRight
  <2> QED BY <1>0, <1>1, <1>4, <2>1, NodeStays
<1> HIDE DEF i
<1>7. [call[c] EXCEPT !.at = "written", !.index = i, !.timer = "set"] \in CallState
  BY <1>0, <1>1 DEF TypeOK, CallState
<1>8. TypeOK'
  <2>1. call' \in [Calls -> CallState] /\ node' \in [Node -> NodeState]
    BY <1>0, <1>5, <1>6, <1>7 DEF TypeOK, NodesKept
  <2>2. /\ thread' = thread /\ rpc' = rpc /\ late' = late /\ committing' = committing
        /\ lost' = lost /\ applied' = applied /\ answers' = answers
    BY DEF WriteEntry, rpcVars, historyVars
  <2>3. thread' \in [Node -> [Node -> Thread]] /\ rpc' \in [Node -> [Node -> Rpc \cup {NoRpc}]]
    BY <1>0, <2>2 DEF TypeOK
  <2> QED BY <1>0, <2>1, <2>2, <2>3 DEF TypeOK
<1>9. CallsKept /\ CallInv'
  BY <1>0, <1>1, <1>2, <1>5 DEF CallsKept, CallInv, TypeOK, CallState
<1> QED BY <1>6, <1>8, <1>9 DEF Step, WriteEntry, historyVars

LEMMA StepDue ==
  ASSUME LogInv, NEW c \in Calls, Due(c)
  PROVE  Step
<1>0. TypeOK /\ CallInv /\ CallbackInv
  BY DEF LogInv
<1>1. NodesKept
  BY <1>0, NodesStay DEF Due
<1>2. call' = [call EXCEPT ![c] = [call[c] EXCEPT !.timer = "due"]] /\ call[c].timer = "set"
  BY <1>0 DEF Due, TypeOK
<1>3. [call[c] EXCEPT !.timer = "due"] \in CallState
  BY <1>0 DEF TypeOK, CallState
<1>4. TypeOK'
  BY <1>0, <1>2, <1>3 DEF TypeOK, Due, rpcVars, historyVars
<1>5. CallsKept /\ CallInv'
  BY <1>0, <1>2 DEF CallsKept, CallInv, TypeOK, CallState
<1> QED BY <1>1, <1>4, <1>5 DEF Step, Due, historyVars

LEMMA StepExpire ==
  ASSUME LogInv, NEW c \in Calls, Expire(c)
  PROVE  Step
<1>0. TypeOK /\ CallInv /\ CallbackInv
  BY DEF LogInv
<1> DEFINE n == call[c].node
           cbs == {cb \in node[n].callbacks : cb.index = call[c].index}
           ts == node[n].tasks \o Refusals(cbs)
           s == [node[n] EXCEPT !.callbacks = @ \ cbs, !.tasks = ts]
<1>1. call[c].timer = "due" /\ n \in Node
  <2>1. call[c].timer = "due"
    BY DEF Expire
  <2>2. call[c].at # "new"
    BY <1>0, <2>1 DEF CallInv
  <2> QED BY <1>0, <2>1, <2>2 DEF CallInv
<1>2. node[n] \in NodeState /\ Right(node[n].callbacks) /\ NodeRight(node[n])
  BY <1>0, <1>1 DEF TypeOK, CallbackInv, NodeRight
<1> HIDE DEF n
<1>3. Right(cbs) /\ Right(node[n].callbacks \ cbs)
  BY <1>2, RightSubset
<1>4. s.callbacks = node[n].callbacks \ cbs /\ s.tasks = node[n].tasks \o AnswersTo(cbs, FALSE)
  BY <1>2 DEF NodeState, Refusals
<1>5. \A o \in cbs : InMap(node[n], o.call) /\ ~InMap(s, o.call)
  <2> HIDE DEF s
  <2> QED BY <1>2, <1>4 DEF InMap, Right
<1>6. /\ \A b \in s.callbacks : \E a \in node[n].callbacks : a.index = b.index /\ a.call = b.call
      /\ \A a \in node[n].callbacks : InMap(s, a.call) \/ \E o \in cbs : o.call = a.call
  <2> HIDE DEF s
  <2> QED BY <1>4 DEF InMap
<1>7. Moved(node[n], s) /\ s.tasks \in Seq(Task)
  <2> HIDE DEF s, cbs
  <2> QED BY <1>2, <1>3, <1>4, <1>5, <1>6, SomeAnswered
<1>8. s \in NodeState
  <2>1. ts \in Seq(Task)
    BY <1>4, <1>7 DEF Refusals
  <2> HIDE DEF ts
  <2> QED BY <1>2, <2>1 DEF NodeState
<1>9. node' = [node EXCEPT ![n] = s]
  BY <1>0, <1>1 DEF Expire, TypeOK, n
<1>10. NodesKept
  <2>1. NodeRight(s)
    <3> HIDE DEF s, cbs
    <3> QED BY <1>3, <1>4, <1>8 DEF NodeRight
  <2> HIDE DEF s
  <2> QED BY <1>0, <1>1, <1>7, <1>9, <2>1, NodeMoves
<1>11. call' = [call EXCEPT ![c] = [call[c] EXCEPT !.timer = "no"]]
  BY <1>0 DEF Expire, TypeOK
<1>12. [call[c] EXCEPT !.timer = "no"] \in CallState
  BY <1>0 DEF TypeOK, CallState
<1> HIDE DEF s
<1>13. TypeOK'
  BY <1>0, <1>10, <1>11, <1>12 DEF TypeOK, NodesKept, Expire, rpcVars, historyVars
<1>14. CallsKept /\ CallInv'
  BY <1>0, <1>11 DEF CallsKept, CallInv, TypeOK, CallState
<1> QED BY <1>10, <1>13, <1>14 DEF Step, Expire, historyVars

LEMMA ThreadSteps ==
  ASSUME TypeOK, NEW n \in Node, NEW m \in Node, NEW t \in Thread,
         thread' = [thread EXCEPT ![n] = [thread[n] EXCEPT ![m] = t]]
  PROVE  thread' \in [Node -> [Node -> Thread]]
<1>1. [thread[n] EXCEPT ![m] = t] \in [Node -> Thread]
  BY DEF TypeOK
<1> QED BY <1>1 DEF TypeOK

LEMMA RpcSteps ==
  ASSUME TypeOK, NEW n \in Node, NEW m \in Node, NEW r \in Rpc \cup {NoRpc},
         rpc' = [rpc EXCEPT ![n] = [rpc[n] EXCEPT ![m] = r]]
  PROVE  rpc' \in [Node -> [Node -> Rpc \cup {NoRpc}]]
<1>1. [rpc[n] EXCEPT ![m] = r] \in [Node -> Rpc \cup {NoRpc}]
  BY DEF TypeOK
<1> QED BY <1>1 DEF TypeOK

LEMMA IdleRight == IdleThread \in Thread /\ [IdleThread EXCEPT !.at = "look"] \in Thread
<1> USE LogAssumption
<1>1. 0 \in Index /\ 0 \in Term /\ 0 \in 0 .. MaxCalls + 1
  BY DEF Index, Term
<1> QED BY <1>1 DEF IdleThread, Thread

LEMMA StepTakeCommand ==
  ASSUME LogInv, NEW n \in Node, NEW m \in Node, TakeCommand(n, m)
  PROVE  Step
<1>0. TypeOK /\ CallInv /\ CallbackInv /\ node[n] \in NodeState
  BY DEF LogInv, TypeOK
<1>1. CallsKept /\ CallInv'
  BY <1>0, CallsStay DEF TakeCommand
<1> DEFINE cs == [node[n].cmds EXCEPT ![m] = Tail(@)]
           s == [node[n] EXCEPT !.cmds = cs]
           t == IF Head(node[n].cmds[m]) = "append" THEN [IdleThread EXCEPT !.at = "look"]
                ELSE IdleThread
<1>2. s \in NodeState /\ SameTasks(node[n], s)
  <2>1. node[n].cmds[m] \in Seq({"append", "sleep"}) /\ node[n].cmds[m] # <<>>
    BY <1>0 DEF TakeCommand, NodeState
  <2>2. Tail(node[n].cmds[m]) \in Seq({"append", "sleep"})
    BY <2>1, TailOf
  <2>3. cs \in [Node -> Seq({"append", "sleep"})]
    BY <1>0, <2>2 DEF NodeState
  <2> HIDE DEF cs
  <2> QED BY <1>0, <2>3 DEF NodeState, SameTasks
<1>3. node' = [node EXCEPT ![n] = s]
  BY <1>0 DEF TakeCommand, TypeOK
<1> HIDE DEF s
<1>4. NodesKept
  BY <1>0, <1>2, <1>3, NodeStays
<1>5. t \in Thread
  BY IdleRight
<1>6. thread' = [thread EXCEPT ![n] = [thread[n] EXCEPT ![m] = t]]
  BY <1>0 DEF TakeCommand, TypeOK
<1> HIDE DEF t
<1>7. thread' \in [Node -> [Node -> Thread]]
  BY <1>0, <1>5, <1>6, ThreadSteps
<1> QED BY <1>0, <1>1, <1>4, <1>7 DEF Step, NodesKept, TypeOK, TakeCommand, Keep, historyVars

LEMMA StepLook ==
  ASSUME LogInv, NEW n \in Node, NEW m \in Node, Look(n, m)
  PROVE  Step
<1> USE LogAssumption
<1>0. TypeOK /\ CallInv /\ CallbackInv /\ node[n] \in NodeState /\ thread[n][m] \in Thread
  BY DEF LogInv, TypeOK
<1>1. CallsKept /\ CallInv' /\ NodesKept
  BY <1>0, CallsStay, NodesStay DEF Look
<1> DEFINE t == thread[n][m]
           last == node[n].last
           next == IF t.next = 0 \/ t.next > last THEN last ELSE t.next
           rest == last = t.match /\ t.beat
           bt == t.beat /\ ~rest
           at == IF rest THEN "look" ELSE "stamp"
           u == [t EXCEPT !.next = next, !.beat = bt, !.at = at]
<1>2. next \in 0 .. MaxCalls + 1 /\ bt \in BOOLEAN /\ at \in {"look", "stamp"}
  BY <1>0 DEF NodeState, Index, Thread
<1>3. thread' = [thread EXCEPT ![n] = [thread[n] EXCEPT ![m] = u]]
  BY <1>0 DEF Look, TypeOK
<1> HIDE DEF next, bt, at
<1>4. u \in Thread
  BY <1>0, <1>2 DEF Thread
<1> HIDE DEF u
<1>5. thread' \in [Node -> [Node -> Thread]]
  BY <1>0, <1>3, <1>4, ThreadSteps
<1> QED BY <1>0, <1>1, <1>5 DEF Step, TypeOK, Look, Keep, historyVars

LEMMA StepStampRequest ==
  ASSUME LogInv, NEW n \in Node, NEW m \in Node, StampRequest(n, m)
  PROVE  Step
<1>0. TypeOK /\ CallInv /\ CallbackInv /\ node[n] \in NodeState /\ thread[n][m] \in Thread
  BY DEF LogInv, TypeOK
<1>1. CallsKept /\ CallInv' /\ NodesKept
  BY <1>0, CallsStay, NodesStay DEF StampRequest
<1> DEFINE u == [thread[n][m] EXCEPT !.at = "send", !.term = node[n].term,
                                     !.commit = node[n].committed]
<1>2. thread' = [thread EXCEPT ![n] = [thread[n] EXCEPT ![m] = u]]
  BY <1>0 DEF StampRequest, TypeOK
<1>3. u \in Thread
  <2>1. node[n].term \in Term /\ node[n].committed \in Index
    BY <1>0 DEF NodeState
  <2> QED BY <1>0, <2>1 DEF Thread
<1> HIDE DEF u
<1>4. thread' \in [Node -> [Node -> Thread]]
  BY <1>0, <1>2, <1>3, ThreadSteps
<1> QED BY <1>0, <1>1, <1>4 DEF Step, TypeOK, StampRequest, Keep, historyVars

LEMMA StepSend ==
  ASSUME LogInv, NEW n \in Node, NEW m \in Node, Send(n, m)
  PROVE  Step
<1> USE LogAssumption
<1>0. TypeOK /\ CallInv /\ CallbackInv /\ node[n] \in NodeState /\ thread[n][m] \in Thread
  BY DEF LogInv, TypeOK
<1>1. CallsKept /\ CallInv' /\ NodesKept
  BY <1>0, CallsStay, NodesStay DEF Send
<1> DEFINE t == thread[n][m]
           unreadable == Unreadable(node[n].file, IF t.next > 1 THEN t.next - 1 ELSE t.next)
           at == IF unreadable THEN "look" ELSE "wait"
           u == [t EXCEPT !.at = at, !.term = 0, !.commit = 0]
           r == [status |-> "sent", req |-> BuildAppend(n, t)]
<1>2. thread' = [thread EXCEPT ![n] = [thread[n] EXCEPT ![m] = u]]
  BY <1>0 DEF Send, TypeOK
<1>3. u \in Thread
  <2>1. at \in {"look", "wait"} /\ 0 \in Term /\ 0 \in Index
    BY DEF Term, Index
  <2> HIDE DEF at
  <2> QED BY <1>0, <2>1 DEF Thread
<1>4. r \in Rpc
  <2>1. BuildAppend(n, t) \in Request
    BY <1>0, BuildRight
  <2> QED BY <2>1 DEF Rpc
<1>5. rpc' = rpc \/ rpc' = [rpc EXCEPT ![n] = [rpc[n] EXCEPT ![m] = r]]
  BY <1>0 DEF Send, TypeOK
<1> HIDE DEF u, r
<1>6. thread' \in [Node -> [Node -> Thread]]
  BY <1>0, <1>2, <1>3, ThreadSteps
<1>7. rpc' \in [Node -> [Node -> Rpc \cup {NoRpc}]]
  BY <1>0, <1>4, <1>5, RpcSteps DEF TypeOK
<1> QED BY <1>0, <1>1, <1>6, <1>7 DEF Step, TypeOK, Send, Keep, historyVars

LEMMA StepGiveUp ==
  ASSUME LogInv, NEW n \in Node, NEW m \in Node, GiveUp(n, m)
  PROVE  Step
<1> USE LogAssumption
<1>0. TypeOK /\ CallInv /\ CallbackInv /\ thread[n][m] \in Thread
  BY DEF LogInv, TypeOK
<1>1. CallsKept /\ CallInv' /\ NodesKept
  BY <1>0, CallsStay, NodesStay DEF GiveUp
<1>2. rpc[n][m] \in Rpc /\ rpc[n][m].req \in Request
  <2>1. rpc[n][m] \in Rpc
    BY <1>0 DEF GiveUp, TypeOK
  <2> QED BY <2>1 DEF Rpc
<1>3. thread' = [thread EXCEPT ![n] = [thread[n] EXCEPT ![m] = [thread[n][m] EXCEPT !.at = "look"]]]
      /\ rpc' = [rpc EXCEPT ![n] = [rpc[n] EXCEPT ![m] = NoRpc]]
  BY <1>0 DEF GiveUp, TypeOK
<1>4. [thread[n][m] EXCEPT !.at = "look"] \in Thread
  BY <1>0 DEF Thread
<1>5. thread' \in [Node -> [Node -> Thread]] /\ rpc' \in [Node -> [Node -> Rpc \cup {NoRpc}]]
  BY <1>0, <1>3, <1>4, ThreadSteps, RpcSteps
<1>6. late' \in [Node -> SUBSET Request]
  <2> DEFINE q == rpc[n][m].req
             l == late[m] \cup {q}
  <2>1. late' = late \/ late' = [late EXCEPT ![m] = l]
    BY DEF GiveUp
  <2>2. late \in [Node -> SUBSET Request]
    BY <1>0 DEF TypeOK
  <2>3. l \in SUBSET Request
    BY <1>2, <2>2
  <2> HIDE DEF l
  <2> QED BY <2>1, <2>2, <2>3
<1>7. lost' \in 0 .. MaxLost
  BY <1>0 DEF GiveUp, TypeOK
<1> QED BY <1>0, <1>1, <1>5, <1>6, <1>7 DEF Step, TypeOK, GiveUp, Keep, historyVars

\* The response a peer thread reads.
LEMMA Answered ==
  ASSUME TypeOK, NEW n \in Node, NEW m \in Node, rpc[n][m] # NoRpc, rpc[n][m].status = "answered"
  PROVE  rpc[n][m].resp \in Response /\ rpc[n][m].req \in Request
<1>1. rpc[n][m] \in Rpc
  BY DEF TypeOK
<1> QED BY <1>1 DEF Rpc

LEMMA StepRefused ==
  ASSUME LogInv, NEW n \in Node, NEW m \in Node, Refused(n, m)
  PROVE  Step
<1> USE LogAssumption
<1>0. TypeOK /\ CallInv /\ CallbackInv /\ thread[n][m] \in Thread
  BY DEF LogInv, TypeOK
<1>1. CallsKept /\ CallInv' /\ NodesKept
  BY <1>0, CallsStay, NodesStay DEF Refused
<1>2. rpc[n][m].resp \in Response
  BY <1>0, Answered DEF Refused
<1> DEFINE p == rpc[n][m].resp
           a == [IdleThread EXCEPT !.at = "newterm", !.term = p.term]
           b == [thread[n][m] EXCEPT !.at = "look", !.beat = TRUE, !.match = 0,
                                     !.next = p.last + 1]
           u == IF node[n].term < p.term THEN a ELSE b
<1>3. a \in Thread
  <2>1. p.term \in Term
    BY <1>2 DEF Response
  <2> QED BY <2>1, IdleRight DEF Thread
<1>4. b \in Thread
  <2>1. p.last + 1 \in 0 .. MaxCalls + 1 /\ 0 \in Index
    BY <1>2 DEF Response, Index
  <2> QED BY <1>0, <2>1 DEF Thread
<1>5. thread' = [thread EXCEPT ![n] = [thread[n] EXCEPT ![m] = u]]
      /\ rpc' = [rpc EXCEPT ![n] = [rpc[n] EXCEPT ![m] = NoRpc]]
  BY <1>0 DEF Refused, TypeOK
<1> HIDE DEF a, b
<1>6. u \in Thread
  BY <1>3, <1>4
<1> HIDE DEF u
<1>7. thread' \in [Node -> [Node -> Thread]] /\ rpc' \in [Node -> [Node -> Rpc \cup {NoRpc}]]
  BY <1>0, <1>5, <1>6, ThreadSteps, RpcSteps
<1> QED BY <1>0, <1>1, <1>7 DEF Step, TypeOK, Refused, Keep, historyVars

LEMMA StepNewTerm ==
  ASSUME LogInv, NEW n \in Node, NEW m \in Node, NewTerm(n, m)
  PROVE  Step
<1>0. TypeOK /\ CallInv /\ CallbackInv /\ NodeRight(node[n]) /\ thread[n][m].term \in Term
  <2>1. thread[n][m] \in Thread
    BY DEF LogInv, TypeOK
  <2>2. thread[n][m].term \in Term
    BY <2>1 DEF Thread
  <2> QED BY <2>2 DEF LogInv, TypeOK, CallbackInv, NodeRight
<1>1. CallsKept /\ CallInv'
  BY <1>0, CallsStay DEF NewTerm
<1>2. NodesKept
  <2> DEFINE s == StepDown(node[n], n, thread[n][m].term)
  <2>1. NodeRight(s) /\ Moved(node[n], s)
    BY <1>0, StepDownRight
  <2>2. node' = [node EXCEPT ![n] = s]
    BY DEF NewTerm
  <2> HIDE DEF s
  <2> QED BY <1>0, <2>1, <2>2, NodeMoves
<1>3. thread' = [thread EXCEPT ![n] = [thread[n] EXCEPT ![m] = IdleThread]]
  BY <1>0 DEF NewTerm, TypeOK
<1>4. thread' \in [Node -> [Node -> Thread]]
  BY <1>0, <1>3, IdleRight, ThreadSteps
<1> QED BY <1>0, <1>1, <1>2, <1>4 DEF Step, NodesKept, TypeOK, NewTerm, Keep, historyVars

LEMMA StepAccepted ==
  ASSUME LogInv, NEW n \in Node, NEW m \in Node, Accepted(n, m)
  PROVE  Step
<1> USE LogAssumption
<1>0. TypeOK /\ CallInv /\ CallbackInv /\ NodeRight(node[n]) /\ thread[n][m] \in Thread
  BY DEF LogInv, TypeOK, CallbackInv, NodeRight
<1>1. rpc[n][m].resp \in Response /\ rpc[n][m].req \in Request
  BY <1>0, Answered DEF Accepted
<1> DEFINE s == ReportAll(node[n], rpc[n][m].req.entries)
           answered == {cb.call : cb \in node[n].callbacks} \ {cb.call : cb \in s.callbacks}
           p == rpc[n][m].resp
           u == [thread[n][m] EXCEPT !.at = "look", !.beat = TRUE, !.match = p.last,
                                     !.next = p.last + 1]
<1>2. NodesKept
  <2>1. rpc[n][m].req.entries \in Seq(Entry)
    BY <1>1 DEF Request
  <2>2. NodeRight(s) /\ Moved(node[n], s)
    BY <1>0, <2>1, ReportAllRight
  <2>3. node' = [node EXCEPT ![n] = s]
    BY DEF Accepted
  <2> HIDE DEF s
  <2> QED BY <1>0, <2>2, <2>3, NodeMoves
<1>3. u \in Thread
  <2>1. p.last + 1 \in 0 .. MaxCalls + 1 /\ p.last \in Index
    BY <1>1 DEF Response, Index
  <2> QED BY <1>0, <2>1 DEF Thread
<1>4. thread' = [thread EXCEPT ![n] = [thread[n] EXCEPT ![m] = u]]
      /\ rpc' = [rpc EXCEPT ![n] = [rpc[n] EXCEPT ![m] = NoRpc]]
  BY <1>0 DEF Accepted, TypeOK
<1>5. call' = [c \in Calls |-> IF c \in answered /\ call[c].timer = "set"
                               THEN [call[c] EXCEPT !.timer = "no"] ELSE call[c]]
  BY DEF Accepted
<1> HIDE DEF s, u, answered
<1>6. thread' \in [Node -> [Node -> Thread]] /\ rpc' \in [Node -> [Node -> Rpc \cup {NoRpc}]]
  BY <1>0, <1>3, <1>4, ThreadSteps, RpcSteps
<1>7. ASSUME NEW c \in Calls
      PROVE  /\ call[c] \in CallState /\ [call[c] EXCEPT !.timer = "no"] \in CallState
             /\ [call[c] EXCEPT !.timer = "no"].at = call[c].at
             /\ [call[c] EXCEPT !.timer = "no"].node = call[c].node
             /\ [call[c] EXCEPT !.timer = "no"].index = call[c].index
             /\ [call[c] EXCEPT !.timer = "no"].timer = "no"
  <2>1. call[c] \in CallState
    BY <1>0 DEF TypeOK
  <2> QED BY <2>1 DEF CallState
<1>8. call' \in [Calls -> CallState]
  BY <1>5, <1>7
<1>9. ASSUME NEW c \in Calls
      PROVE  /\ call'[c].at = call[c].at /\ call'[c].node = call[c].node
             /\ call'[c].index = call[c].index
             /\ (call'[c].timer = call[c].timer \/ (call'[c].timer = "no" /\ call[c].timer = "set"))
  <2>1. CASE c \in answered /\ call[c].timer = "set"
    <3>1. call'[c] = [call[c] EXCEPT !.timer = "no"]
      BY <1>5, <2>1
    <3> QED BY <1>7, <2>1, <3>1
  <2>2. CASE ~(c \in answered /\ call[c].timer = "set")
    BY <1>5, <2>2
  <2> QED BY <2>1, <2>2
<1>10. CallsKept /\ CallInv'
  BY <1>0, <1>9 DEF CallsKept, CallInv
<1> QED BY <1>0, <1>2, <1>6, <1>8, <1>10 DEF Step, NodesKept, TypeOK, Accepted, Keep, historyVars

LEMMA StepServe ==
  ASSUME LogInv, NEW n \in Node, NEW m \in Node, Serve(n, m)
  PROVE  Step
<1>0. TypeOK /\ CallInv /\ CallbackInv /\ NodeRight(node[m])
  BY DEF LogInv, TypeOK, CallbackInv, NodeRight
<1> DEFINE r == rpc[n][m]
           h == HandleAppend(m, r.req)
           x == IF h.failed THEN [r EXCEPT !.status = "failed"]
                ELSE [status |-> "answered", req |-> r.req, resp |-> h.resp]
<1>1. r \in Rpc /\ r.status = "sent" /\ r.req \in Request
      /\ r \in [status : {"sent", "failed"}, req : Request]
  <2>1. r \in Rpc /\ r.status = "sent"
    BY <1>0 DEF Serve, TypeOK
  <2> HIDE DEF r
  <2> QED BY <2>1 DEF Rpc
<1>2. CallsKept /\ CallInv'
  BY <1>0, CallsStay DEF Serve
<1>3. NodeRight(h.node) /\ Moved(node[m], h.node) /\ h.resp \in Response
  BY <1>0, <1>1, HandleRight
<1>4. node' = [node EXCEPT ![m] = h.node]
  BY DEF Serve
<1>5. rpc' = [rpc EXCEPT ![n] = [rpc[n] EXCEPT ![m] = x]]
  BY <1>0 DEF Serve, TypeOK
<1> HIDE DEF h, r
<1>6. NodesKept
  BY <1>0, <1>3, <1>4, NodeMoves
<1>7. x \in Rpc
  <2>1. [r EXCEPT !.status = "failed"] \in Rpc
    BY <1>1 DEF Rpc
  <2>2. [status |-> "answered", req |-> r.req, resp |-> h.resp] \in Rpc
    BY <1>1, <1>3 DEF Rpc
  <2> QED BY <2>1, <2>2
<1> HIDE DEF x
<1>8. rpc' \in [Node -> [Node -> Rpc \cup {NoRpc}]]
  BY <1>0, <1>5, <1>7, RpcSteps
<1> QED BY <1>0, <1>2, <1>6, <1>8 DEF Step, NodesKept, TypeOK, Serve, Keep, historyVars

LEMMA StepServeLate ==
  ASSUME LogInv, NEW m \in Node, NEW q \in late[m], ServeLate(m, q)
  PROVE  Step
<1>0. TypeOK /\ CallInv /\ CallbackInv /\ NodeRight(node[m]) /\ q \in Request
  BY DEF LogInv, TypeOK, CallbackInv, NodeRight
<1>1. CallsKept /\ CallInv'
  BY <1>0, CallsStay DEF ServeLate
<1> DEFINE h == HandleAppend(m, q)
<1>2. NodeRight(h.node) /\ Moved(node[m], h.node)
  BY <1>0, HandleRight
<1>3. node' = [node EXCEPT ![m] = h.node]
  BY DEF ServeLate
<1> HIDE DEF h
<1>4. NodesKept
  BY <1>0, <1>2, <1>3, NodeMoves
<1>5. late' \in [Node -> SUBSET Request]
  BY <1>0 DEF ServeLate, TypeOK
<1> QED BY <1>0, <1>1, <1>4, <1>5 DEF Step, NodesKept, TypeOK, ServeLate, Keep, historyVars

LEMMA StepApplyEntry ==
  ASSUME LogInv, NEW n \in Node, ApplyEntry(n)
  PROVE  Step
<1> USE LogAssumption
<1>0. TypeOK /\ CallInv /\ CallbackInv /\ node[n] \in NodeState
  BY DEF LogInv, TypeOK
<1>1. CallsKept /\ CallInv'
  BY <1>0, CallsStay DEF ApplyEntry
<1> DEFINE e == Head(committing[n])
           right == e.index = node[n].committed + 1
           ft == IF right THEN node[n].fault ELSE "order"
           cm == IF right THEN node[n].committed + 1 ELSE node[n].committed
           s == [node[n] EXCEPT !.fault = ft, !.committed = cm]
<1>2. committing[n] \in Seq(Entry) /\ committing[n] # <<>> /\ e \in Entry
      /\ Tail(committing[n]) \in Seq(Entry)
  BY <1>0, TailOf DEF ApplyEntry, TypeOK
<1>3. ft \in Fault \cup {"none"} /\ cm \in Index
  BY <1>0, <1>2 DEF Fault, Entry, NodeState
<1>4. node' = [node EXCEPT ![n] = s]
  BY <1>0 DEF ApplyEntry, TypeOK
<1> HIDE DEF ft, cm
<1>5. s \in NodeState /\ SameTasks(node[n], s)
  BY <1>0, <1>3 DEF NodeState, SameTasks
<1> HIDE DEF s
<1>6. NodesKept
  BY <1>0, <1>4, <1>5, NodeStays
<1>7. applied' \in [Node -> Seq(Entry)]
  <2>1. applied' = applied \/ applied' = [applied EXCEPT ![n] = Append(applied[n], e)]
    BY DEF ApplyEntry
  <2>2. Append(applied[n], e) \in Seq(Entry)
    BY <1>0, <1>2, AppendProperties DEF TypeOK
  <2> QED BY <1>0, <2>1, <2>2 DEF TypeOK
<1>8. committing' \in [Node -> Seq(Entry)]
  BY <1>0, <1>2 DEF ApplyEntry, TypeOK
<1> QED BY <1>0, <1>1, <1>6, <1>7, <1>8 DEF Step, NodesKept, TypeOK, ApplyEntry, rpcVars

\* A step of the committer that takes the first task off and, when that is an
\* answer, tells it to its call.
LEMMA TakenStep ==
  ASSUME LogInv, NEW n \in Node, NEW s \in NodeState, node[n].tasks # <<>>,
         s.callbacks = node[n].callbacks, s.tasks = Tail(node[n].tasks),
         node' = [node EXCEPT ![n] = s], call' = call, TypeOK',
         \/ node[n].tasks[1].kind # "answer" /\ answers' = answers
         \/ /\ node[n].tasks[1].kind = "answer"
            /\ answers' = [answers EXCEPT ![node[n].tasks[1].call] =
                             Append(@, node[n].tasks[1].ok)]
  PROVE  LogInv'
<1> USE DEF LogInv
<1>1. ASSUME NEW m \in Node PROVE node[m] \in NodeState /\ Len(node[m].tasks) \in Nat
  <2>1. node[m] \in NodeState
    BY DEF TypeOK
  <2>2. node[m].tasks \in Seq(Task)
    BY <2>1 DEF NodeState
  <2> QED BY <2>1, <2>2, LenProperties
<1>2. /\ Len(node[n].tasks) \in Nat \ {0} /\ Len(s.tasks) = Len(node[n].tasks) - 1
      /\ \A k \in 1 .. Len(s.tasks) : s.tasks[k] = node[n].tasks[k + 1]
      /\ node[n].tasks[1] \in Task
  <2>1. node[n].tasks \in Seq(Task)
    BY <1>1 DEF NodeState
  <2> QED BY <2>1, TailOf
<1>3. node'[n] = s /\ \A m \in Node \ {n} : node'[m] = node[m]
  BY DEF TypeOK
<1>4. \A m \in Node, c \in Calls : InMap(node'[m], c) <=> InMap(node[m], c)
  BY <1>3 DEF InMap
\* Place k of node m, before the step.
<1> DEFINE P(m, k) == IF m = n THEN k + 1 ELSE k
<1>5. ASSUME NEW m \in Node, NEW k \in 1 .. Len(node'[m].tasks), NEW c \in Calls,
             Answering(m, k, c)'
      PROVE  P(m, k) \in 1 .. Len(node[m].tasks) /\ Answering(m, P(m, k), c)
  <2>1. CASE m = n
    <3>1. k \in 1 .. Len(s.tasks) /\ s.tasks[k].kind = "answer" /\ s.tasks[k].call = c
      BY <1>3, <1>5, <2>1 DEF Answering, Answers
    <3>2. k + 1 \in 1 .. Len(node[n].tasks) /\ s.tasks[k] = node[n].tasks[k + 1]
      BY <1>2, <3>1
    <3> QED BY <2>1, <3>1, <3>2 DEF Answering, Answers
  <2>2. CASE m # n
    BY <1>3, <1>5, <2>2 DEF Answering, Answers
  <2> QED BY <2>1, <2>2
<1>6. ASSUME NEW c \in Calls
      PROVE  \/ answers'[c] = answers[c]
             \/ /\ node[n].tasks[1].kind = "answer" /\ node[n].tasks[1].call = c
                /\ Answering(n, 1, c) /\ answers[c] = <<>> /\ Len(answers'[c]) = 1
                /\ answers'[c] # <<>>
  <2> DEFINE t == node[n].tasks[1]
  <2>1. CASE t.kind = "answer" /\ t.call = c
    <3>1. t.ok \in BOOLEAN
      BY <1>2, <2>1 DEF Task
    <3>2. answers'[c] = Append(answers[c], t.ok)
      BY <2>1 DEF TypeOK
    <3>3. Answering(n, 1, c) /\ 1 \in 1 .. Len(node[n].tasks)
      BY <1>2, <2>1 DEF Answering, Answers
    <3>4. answers[c] = <<>>
      BY <3>3 DEF TaskInv
    <3>5. answers[c] \in Seq(BOOLEAN) /\ Len(answers[c]) = 0
      BY <3>4 DEF TypeOK
    <3> HIDE DEF t
    <3>6. Len(answers'[c]) = 1 /\ answers'[c] # <<>>
      BY <3>1, <3>2, <3>5, AppendProperties, EmptySeq
    <3> QED BY <2>1, <3>3, <3>4, <3>6 DEF t
  <2>2. CASE t.kind = "answer" /\ t.call # c
    BY <2>2 DEF TypeOK
  <2>3. CASE t.kind # "answer"
    BY <2>3
  <2> QED BY <2>1, <2>2, <2>3
\* The call that is answered now has no other task.
<1>7. ASSUME NEW m \in Node, NEW k \in 1 .. Len(node'[m].tasks), NEW c \in Calls,
             Answering(m, k, c)'
      PROVE  answers'[c] = <<>>
  <2>1. P(m, k) \in 1 .. Len(node[m].tasks) /\ Answering(m, P(m, k), c)
    BY <1>5, <1>7
  <2> HIDE DEF P
  <2>2. call[c].node = m /\ answers[c] = <<>>
    BY <2>1 DEF TaskInv
  <2>3. ASSUME Answering(n, 1, c) PROVE FALSE
    <3>1. 1 \in 1 .. Len(node[n].tasks)
      BY <1>2
    <3>2. m = n
      BY <2>2, <2>3, <3>1 DEF TaskInv
    <3>3. P(m, k) = 1
      BY <2>1, <2>3, <3>1, <3>2 DEF TaskInv
    <3> QED BY <3>2, <3>3 DEF P
  <2> QED BY <1>6, <2>2, <2>3
<1>8. CallInv' /\ CallbackInv'
  <2>1. \A m \in Node : node'[m].callbacks = node[m].callbacks
    BY <1>3
  <2>2. CallInv /\ CallbackInv
    OBVIOUS
  <2> QED BY <2>1, <2>2 DEF CallInv, CallbackInv
<1>9. TaskInv'
  <2>1. ASSUME NEW m \in Node, NEW k \in 1 .. Len(node'[m].tasks), NEW c \in Calls,
               Answering(m, k, c)'
        PROVE  /\ call'[c].at = "done" /\ call'[c].node = m
               /\ ~InMap(node'[m], c) /\ answers'[c] = <<>>
    <3>1. P(m, k) \in 1 .. Len(node[m].tasks) /\ Answering(m, P(m, k), c)
      BY <1>5, <2>1
    <3> HIDE DEF P
    <3>2. call[c].at = "done" /\ call[c].node = m /\ ~InMap(node[m], c)
      BY <3>1 DEF TaskInv
    <3> QED BY <1>4, <1>7, <2>1, <3>2
  <2>2. ASSUME NEW m \in Node, NEW j \in 1 .. Len(node'[m].tasks),
               NEW k \in 1 .. Len(node'[m].tasks), NEW c \in Calls,
               Answering(m, j, c)', Answering(m, k, c)'
        PROVE  j = k
    <3>1. P(m, j) \in 1 .. Len(node[m].tasks) /\ Answering(m, P(m, j), c)
      BY <1>5, <2>2
    <3>2. P(m, k) \in 1 .. Len(node[m].tasks) /\ Answering(m, P(m, k), c)
      BY <1>5, <2>2
    <3>3. P(m, j) = P(m, k)
      <4> HIDE DEF P
      <4> QED BY <3>1, <3>2 DEF TaskInv
    <3>4. j \in Int /\ k \in Int
      BY <1>1, <1>3
    <3> QED BY <3>3, <3>4
  <2> QED BY <2>1, <2>2 DEF TaskInv
<1>10. AnsweredInv'
  <2>1. ASSUME NEW c \in Calls
        PROVE  /\ Len(answers'[c]) <= 1
               /\ answers'[c] # <<>> => call'[c].at = "done" /\ ~InMap(node'[call'[c].node], c)
    <3>1. CASE answers'[c] = answers[c]
      <4>1. answers[c] # <<>> => call[c].node \in Node
        BY DEF AnsweredInv, CallInv
      <4> QED BY <1>4, <3>1, <4>1 DEF AnsweredInv
    <3>2. CASE Answering(n, 1, c) /\ Len(answers'[c]) = 1
      <4>1. 1 \in 1 .. Len(node[n].tasks)
        BY <1>2
      <4>2. call[c].at = "done" /\ call[c].node = n /\ ~InMap(node[n], c)
        BY <3>2, <4>1 DEF TaskInv
      <4> QED BY <1>4, <3>2, <4>2
    <3> QED BY <1>6, <3>1, <3>2
  <2> QED BY <2>1 DEF AnsweredInv
<1>11. ASSUME NEW c \in Calls, call'[c].at = "done", call'[c].timer # "no", ~Shared(c)',
              answers'[c] = <<>>, ~InMap(node'[call'[c].node], c)
       PROVE  \E k \in 1 .. Len(node'[call'[c].node].tasks) : Answering(call[c].node, k, c)'
  <2> DEFINE m == call[c].node
  <2>1. m \in Node /\ ~Shared(c) /\ answers[c] = <<>> /\ answers'[c] = answers[c]
    <3>1. m \in Node /\ ~Shared(c)
      BY <1>11 DEF CallInv, Shared
    <3> QED BY <1>6, <1>11, <3>1
  <2>2. PICK k \in 1 .. Len(node[m].tasks) : Answering(m, k, c)
    BY <1>4, <1>11, <2>1 DEF ComingInv
  <2> HIDE DEF m
  <2>3. CASE m # n
    <3>1. node'[m] = node[m]
      BY <1>3, <2>1, <2>3
    <3> QED BY <2>2, <3>1 DEF Answering, Answers, m
  <2>4. CASE m = n
    <3>1. k # 1
      BY <1>6, <1>11, <2>1, <2>2, <2>4 DEF Answering, Answers, TypeOK
    <3>2. k - 1 \in 1 .. Len(s.tasks) /\ s.tasks[k - 1] = node[n].tasks[k]
      <4>1. k \in Int /\ k >= 1 /\ k <= Len(node[n].tasks)
        BY <1>2, <2>2, <2>4
      <4>2. k - 1 \in 1 .. Len(s.tasks) /\ (k - 1) + 1 = k
        BY <1>2, <3>1, <4>1
      <4> QED BY <1>2, <4>2
    <3>3. node'[n] = s /\ call'[c].node = n /\ call[c].node = n
      BY <1>3, <2>4 DEF m
    <3>4. node[n].tasks[k].kind = "answer" /\ node[n].tasks[k].call = c
      BY <2>2, <2>4 DEF Answering, Answers
    <3>5. Answering(n, k - 1, c)'
      BY <3>2, <3>3, <3>4 DEF Answering, Answers
    <3> DEFINE i == k - 1
    <3> HIDE DEF i
    <3>6. i \in 1 .. Len(node'[n].tasks) /\ Answering(n, i, c)'
      BY <3>2, <3>3, <3>5 DEF i
    <3> QED BY <3>3, <3>6
  <2> QED BY <2>3, <2>4
<1>12. ComingInv'
  BY <1>11 DEF ComingInv
<1> QED BY <1>8, <1>9, <1>10, <1>12

LEMMA KeepsRunCommit ==
  ASSUME LogInv, NEW n \in Node, RunCommit(n)
  PROVE  LogInv'
<1> USE LogAssumption
<1>0. TypeOK /\ node[n] \in NodeState /\ node[n].tasks \in Seq(Task) /\ node[n].tasks # <<>>
      /\ node[n].committed \in Index
  BY DEF LogInv, TypeOK, NodeState, RunCommit
<1> DEFINE task == Head(node[n].tasks)
           dead == Unreadable(node[n].file, node[n].committed + 1)
                   /\ task.upto # node[n].committed
           f == IF dead THEN "unreadable" ELSE node[n].fault
           b == IF dead THEN <<>> ELSE Batch(node[n], task.upto)
           ts == Tail(node[n].tasks)
           s == [node[n] EXCEPT !.tasks = ts, !.fault = f]
<1>1. task = node[n].tasks[1] /\ task \in Task /\ ts \in Seq(Task) /\ task.kind = "commit"
  BY <1>0, TailOf DEF RunCommit
<1>2. node' = [node EXCEPT ![n] = s] /\ committing' = [committing EXCEPT ![n] = b]
  BY <1>0 DEF RunCommit, TypeOK
<1>3. task.upto \in Index
  BY <1>1 DEF Task
<1> HIDE DEF task
<1>4. f \in Fault \cup {"none"} /\ b \in Seq(Entry)
  <2>1. Batch(node[n], task.upto) \in Seq(Entry)
    BY <1>0, <1>3, BatchRight
  <2>2. node[n].fault \in Fault \cup {"none"}
    BY <1>0 DEF NodeState
  <2> QED BY <2>1, <2>2 DEF Fault
<1> HIDE DEF f, b, ts
<1>5. s \in NodeState /\ s.callbacks = node[n].callbacks /\ s.tasks = ts
  BY <1>0, <1>1, <1>4 DEF NodeState
<1> HIDE DEF s
<1>6. TypeOK'
  <2>1. node' \in [Node -> NodeState] /\ committing' \in [Node -> Seq(Entry)]
    BY <1>0, <1>2, <1>4, <1>5 DEF TypeOK
  <2>2. /\ thread' = thread /\ rpc' = rpc /\ late' = late /\ call' = call
        /\ lost' = lost /\ applied' = applied /\ answers' = answers
    BY DEF RunCommit, rpcVars, historyVars
  <2>3. thread' \in [Node -> [Node -> Thread]] /\ rpc' \in [Node -> [Node -> Rpc \cup {NoRpc}]]
    BY <1>0, <2>2 DEF TypeOK
  <2> QED BY <1>0, <2>1, <2>2, <2>3 DEF TypeOK
<1>7. node[n].tasks[1].kind # "answer" /\ answers' = answers /\ call' = call
  BY <1>1 DEF RunCommit, historyVars
<1> QED BY <1>0, <1>2, <1>5, <1>6, <1>7, TakenStep DEF ts

LEMMA KeepsRunAnswer ==
  ASSUME LogInv, NEW n \in Node, RunAnswer(n)
  PROVE  LogInv'
<1>0. TypeOK /\ node[n] \in NodeState /\ node[n].tasks \in Seq(Task) /\ node[n].tasks # <<>>
  BY DEF LogInv, TypeOK, NodeState, RunAnswer
<1> DEFINE task == Head(node[n].tasks)
           ts == Tail(node[n].tasks)
           s == [node[n] EXCEPT !.tasks = ts]
<1>1. task = node[n].tasks[1] /\ task \in Task /\ ts \in Seq(Task) /\ task.kind = "answer"
  BY <1>0, TailOf DEF RunAnswer
<1>2. /\ node' = [node EXCEPT ![n] = s]
      /\ answers' = [answers EXCEPT ![task.call] = Append(@, task.ok)]
  BY <1>0 DEF RunAnswer, TypeOK
<1>3. task.call \in Calls /\ task.ok \in BOOLEAN
  BY <1>1 DEF Task
<1> HIDE DEF task, ts
<1>5. s \in NodeState /\ s.callbacks = node[n].callbacks /\ s.tasks = ts
  BY <1>0, <1>1 DEF NodeState
<1> HIDE DEF s
<1>6. TypeOK'
  <2>1. node' \in [Node -> NodeState]
    BY <1>0, <1>2, <1>5 DEF TypeOK
  <2>2. answers' \in [Calls -> Seq(BOOLEAN)]
    <3>1. answers \in [Calls -> Seq(BOOLEAN)]
      BY <1>0 DEF TypeOK
    <3>2. Append(answers[task.call], task.ok) \in Seq(BOOLEAN)
      BY <1>3, <3>1, AppendProperties
    <3> QED BY <1>2, <3>1, <3>2
  <2>3. /\ thread' = thread /\ rpc' = rpc /\ late' = late /\ call' = call
        /\ lost' = lost /\ applied' = applied /\ committing' = committing
    BY DEF RunAnswer, rpcVars
  <2>4. thread' \in [Node -> [Node -> Thread]] /\ rpc' \in [Node -> [Node -> Rpc \cup {NoRpc}]]
    BY <1>0, <2>3 DEF TypeOK
  <2> QED BY <1>0, <2>1, <2>2, <2>3, <2>4 DEF TypeOK
<1>7. call' = call
  BY DEF RunAnswer
<1>8. /\ node[n].tasks[1].kind = "answer"
      /\ answers' = [answers EXCEPT ![node[n].tasks[1].call] =
                       Append(@, node[n].tasks[1].ok)]
  BY <1>1, <1>2
<1>9. s.tasks = Tail(node[n].tasks)
  BY <1>5 DEF ts
<1> QED BY <1>0, <1>2, <1>5, <1>6, <1>7, <1>8, <1>9, TakenStep

\* A call is registered; when its index is in the map for another one, that
\* one keeps the place.
LEMMA KeepsRegister ==
  ASSUME LogInv, NEW c \in Calls, Register(c)
  PROVE  LogInv'
<1> USE LogAssumption
<1> USE DEF LogInv
<1> DEFINE n == call[c].node
           i == call[c].index
           cb == [index |-> i, waits |-> MajorityLess1, call |-> c]
           there == \E b \in node[n].callbacks : b.index = i
           cbs == IF there THEN node[n].callbacks ELSE node[n].callbacks \cup {cb}
           s == [node[n] EXCEPT !.callbacks = cbs]
           was == call[c]
           k == [was EXCEPT !.at = "done"]
<1>1. n \in Node /\ i \in Index /\ i > 0 /\ call[c].at = "written" /\ call[c] \in CallState
  <2>1. call[c] \in CallState /\ call[c].at = "written"
    BY DEF TypeOK, Register
  <2>2. call[c].index \in Index
    BY <2>1 DEF CallState
  <2> QED BY <2>1, <2>2 DEF CallInv
<1>2. node[n] \in NodeState /\ Right(node[n].callbacks)
  BY <1>1 DEF TypeOK, CallbackInv
<1>3. call' = [call EXCEPT ![c] = k] /\ node' = [node EXCEPT ![n] = s]
  BY DEF Register, TypeOK
<1>4. /\ thread' = thread /\ rpc' = rpc /\ late' = late /\ lost' = lost
      /\ applied' = applied /\ committing' = committing /\ answers' = answers
  BY DEF Register, rpcVars, historyVars
<1>5. MajorityLess1 \in Nat \ {0}
  <2>1. Cardinality(Node) \in Nat /\ Cardinality(Node) >= 2
    BY FS_CardinalityType
  <2> DEFINE N == Cardinality(Node)
  <2> HIDE DEF N
  <2>2. N \in Nat /\ N >= 2
    BY <2>1 DEF N
  <2>3. N \div 2 \in Nat \ {0}
    BY <2>2
  <2> QED BY <2>3 DEF MajorityLess1, N
<1>6. /\ k \in CallState /\ k.at = "done" /\ k.node = n /\ k.index = i
      /\ k.timer = call[c].timer
  BY <1>1 DEF CallState
<1> HIDE DEF k, n, i
<1>7. /\ call'[c].at = "done" /\ call'[c].node = n /\ call'[c].index = i
      /\ call'[c].timer = call[c].timer
      /\ \A d \in Calls \ {c} : call'[d] = call[d]
  BY <1>3, <1>6 DEF TypeOK
<1>8. \A d \in Calls : /\ call'[d].node = call[d].node /\ call'[d].index = call[d].index
                       /\ call[d].at = "done" => call'[d].at = "done" /\ d # c
  BY <1>1, <1>7 DEF n, i
<1>9. cb \in Callback /\ cb.index = i /\ cb.call = c
  BY <1>1, <1>5 DEF Callback
<1> HIDE DEF cb
<1>10. cbs \in SUBSET Callback
  <2>1. node[n].callbacks \in SUBSET Callback
    BY <1>2 DEF NodeState
  <2> QED BY <1>9, <2>1
\* The call is in no map yet, on its way to be answered, or answered.
<1>11. \A m \in Node : ~InMap(node[m], c)
  BY <1>1 DEF InMap, CallbackInv
<1>12. answers[c] = <<>> /\ \A m \in Node : \A j \in 1 .. Len(node[m].tasks) : ~Answering(m, j, c)
  BY <1>1 DEF AnsweredInv, TaskInv
<1>13. Right(cbs)
  <2>1. CASE there
    BY <1>2, <2>1
  <2>2. CASE ~there
    <3>1. IsFiniteSet(node[n].callbacks \cup {cb}) /\ i \in Nat
      <4>1. IsFiniteSet(node[n].callbacks)
        BY <1>2 DEF Right, Keyed
      <4>2. i \in Nat
        BY <1>1 DEF Index
      <4> QED BY <4>1, <4>2, FS_AddElement
    <3>2. \A b \in node[n].callbacks : b.call # c
      BY <1>1, <1>11 DEF InMap
    <3> QED BY <1>2, <1>9, <2>2, <3>1, <3>2 DEF Right, Keyed
  <2> QED BY <2>1, <2>2
<1>14. /\ s \in NodeState /\ s.callbacks = cbs /\ s.tasks = node[n].tasks
  <2> HIDE DEF cbs
  <2> QED BY <1>2, <1>10 DEF NodeState
<1>15. \A b \in cbs : b \in node[n].callbacks \/ b = cb
  OBVIOUS
<1>16. \A b \in node[n].callbacks : b \in cbs
  OBVIOUS
<1>17. there \/ cb \in cbs
  OBVIOUS
<1> HIDE DEF cbs, s
<1>18. node'[n] = s /\ \A m \in Node \ {n} : node'[m] = node[m]
  BY <1>1, <1>3 DEF TypeOK
<1>19. TypeOK'
  <2>1. node' \in [Node -> NodeState] /\ call' \in [Calls -> CallState]
    BY <1>1, <1>3, <1>6, <1>14 DEF TypeOK
  <2>2. thread' \in [Node -> [Node -> Thread]] /\ rpc' \in [Node -> [Node -> Rpc \cup {NoRpc}]]
    BY <1>4 DEF TypeOK
  <2> QED BY <1>4, <2>1, <2>2 DEF TypeOK
<1>20. \A m \in Node : node'[m].tasks = node[m].tasks
  BY <1>14, <1>18
<1>21. \A m \in Node, j \in Nat, d \in Calls : Answering(m, j, d)' <=> Answering(m, j, d)
  BY <1>20 DEF Answering, Answers
<1>22. ASSUME NEW m \in Node, NEW d \in Calls
       PROVE  /\ InMap(node[m], d) => InMap(node'[m], d)
              /\ InMap(node'[m], d) /\ d # c => InMap(node[m], d)
  BY <1>9, <1>14, <1>15, <1>16, <1>18 DEF InMap
<1>23. CallInv'
  <2>1. ASSUME NEW d \in Calls
        PROVE  /\ call'[d].at # "new" => call'[d].node \in Node
               /\ call'[d].at \in {"written", "done"} => call'[d].index > 0
               /\ call'[d].at \in {"new", "asked", "stamped"} =>
                    call'[d].index = 0 /\ call'[d].timer = "no"
    BY <1>1, <1>7 DEF CallInv
  <2> QED BY <2>1 DEF CallInv
<1>24. CallbackInv'
  <2>1. ASSUME NEW m \in Node
        PROVE  /\ Right(node'[m].callbacks)
               /\ \A b \in node'[m].callbacks :
                    /\ call'[b.call].at = "done" /\ call'[b.call].node = m
                    /\ call'[b.call].index = b.index
    <3>1. \A b \in node[m].callbacks :
            b.call \in Calls /\ call[b.call].at = "done" /\ call[b.call].node = m
            /\ call[b.call].index = b.index
      <4>1. node[m].callbacks \in SUBSET Callback
        BY DEF TypeOK, NodeState
      <4> QED BY <4>1 DEF CallbackInv, Callback
    <3>2. \A b \in node[m].callbacks :
            call'[b.call].at = "done" /\ call'[b.call].node = m
            /\ call'[b.call].index = b.index
      BY <1>8, <3>1
    <3>3. CASE m = n
      BY <1>7, <1>9, <1>13, <1>14, <1>15, <1>18, <3>2, <3>3
    <3>4. CASE m # n
      BY <1>18, <3>2, <3>4 DEF CallbackInv
    <3> QED BY <3>3, <3>4
  <2> QED BY <2>1 DEF CallbackInv
<1>25. TaskInv'
  <2>1. \A m \in Node : Len(node[m].tasks) \in Nat
    BY DEF TypeOK, NodeState
  <2>2. ASSUME NEW m \in Node, NEW j \in 1 .. Len(node'[m].tasks), NEW d \in Calls,
               Answering(m, j, d)'
        PROVE  /\ call'[d].at = "done" /\ call'[d].node = m
               /\ ~InMap(node'[m], d) /\ answers'[d] = <<>>
    <3>1. j \in 1 .. Len(node[m].tasks) /\ Answering(m, j, d)
      BY <1>20, <1>21, <2>1, <2>2
    <3>2. /\ d # c /\ call[d].at = "done" /\ call[d].node = m /\ ~InMap(node[m], d)
          /\ answers[d] = <<>>
      BY <1>12, <3>1 DEF TaskInv
    <3> QED BY <1>4, <1>8, <1>22, <3>2
  <2>3. ASSUME NEW m \in Node, NEW j \in 1 .. Len(node'[m].tasks),
               NEW l \in 1 .. Len(node'[m].tasks), NEW d \in Calls,
               Answering(m, j, d)', Answering(m, l, d)'
        PROVE  j = l
    <3>1. j \in 1 .. Len(node[m].tasks) /\ Answering(m, j, d)
      BY <1>20, <1>21, <2>1, <2>3
    <3>2. l \in 1 .. Len(node[m].tasks) /\ Answering(m, l, d)
      BY <1>20, <1>21, <2>1, <2>3
    <3> QED BY <3>1, <3>2 DEF TaskInv
  <2> QED BY <2>2, <2>3 DEF TaskInv
<1>26. AnsweredInv'
  <2>1. ASSUME NEW d \in Calls, answers[d] # <<>>
        PROVE  call'[d].at = "done" /\ ~InMap(node'[call'[d].node], d)
    <3>1. d # c /\ call[d].at = "done" /\ ~InMap(node[call[d].node], d) /\ call[d].node \in Node
      BY <1>12, <2>1 DEF AnsweredInv, CallInv
    <3> QED BY <1>8, <1>22, <3>1
  <2> QED BY <1>4, <2>1 DEF AnsweredInv
<1>27. ASSUME NEW d \in Calls, call'[d].at = "done", call'[d].timer # "no", ~Shared(d)',
              answers'[d] = <<>>, ~InMap(node'[call'[d].node], d)
       PROVE  \E j \in 1 .. Len(node'[call'[d].node].tasks) : Answering(call[d].node, j, d)'
  <2>1. ~Shared(d)
    BY <1>8, <1>27 DEF Shared
  <2>2. d # c
    <3>1. SUFFICES ASSUME d = c PROVE FALSE
      OBVIOUS
    <3>2. there
      BY <1>7, <1>9, <1>14, <1>17, <1>18, <1>27, <3>1 DEF InMap
    <3>3. PICK b \in node[n].callbacks : b.index = i
      BY <3>2
    <3>4. b.call \in Calls \ {c} /\ call[b.call].node = n /\ call[b.call].index = i
      <4>1. b \in Callback
        BY <1>2 DEF NodeState
      <4> QED BY <1>1, <1>11, <3>3, <4>1 DEF Callback, CallbackInv, InMap
    <3> QED BY <2>1, <3>1, <3>4 DEF Shared, n, i
  <2>3. call[d].at = "done" /\ call[d].timer # "no" /\ call[d].node \in Node
    BY <1>7, <1>27, <2>2 DEF CallInv
  <2> DEFINE m == call[d].node
  <2>4. ~InMap(node[m], d) /\ answers[d] = <<>> /\ call'[d].node = m
    BY <1>4, <1>8, <1>22, <1>27, <2>3
  <2>5. PICK j \in 1 .. Len(node[m].tasks) : Answering(m, j, d)
    BY <2>1, <2>3, <2>4 DEF ComingInv
  <2>6. node'[m].tasks = node[m].tasks /\ j \in Nat
    BY <1>20, <2>3 DEF TypeOK, NodeState
  <2> QED BY <1>21, <2>3, <2>4, <2>5, <2>6
<1>28. ComingInv'
  BY <1>27 DEF ComingInv
<1> HIDE DEF LogInv
<1> QED BY <1>19, <1>23, <1>24, <1>25, <1>26, <1>28 DEF LogInv

LEMMA InitRight == Init => LogInv
<1> USE LogAssumption
<1> SUFFICES ASSUME Init PROVE LogInv
  OBVIOUS
<1>1. 0 \in Index /\ 0 \in Term /\ 0 \in 0 .. MaxLost
  BY DEF Index, Term
<1>2. NewNode \in NodeState
  <2>1. [m \in Node |-> <<>>] \in [Node -> Seq({"append", "sleep"})]
    OBVIOUS
  <2> QED BY <1>1, <2>1 DEF NewNode, NodeState
<1>3. \A n \in Node : node[n] = NewNode
  BY DEF Init
<1>4. \A n \in Node : node[n].callbacks = {} /\ node[n].tasks = <<>>
  BY <1>3 DEF NewNode
<1>5. \A c \in Calls : /\ call[c].at = "new" /\ call[c].index = 0 /\ call[c].timer = "no"
                       /\ answers[c] = <<>>
  BY DEF Init
<1>6. TypeOK
  <2>1. node \in [Node -> NodeState]
    BY <1>2 DEF Init
  <2>2. thread \in [Node -> [Node -> Thread]]
    BY IdleRight DEF Init
  <2>3. rpc \in [Node -> [Node -> Rpc \cup {NoRpc}]]
    BY DEF Init
  <2>4. late \in [Node -> SUBSET Request]
    BY DEF Init
  <2>5. /\ committing \in [Node -> Seq(Entry)] /\ applied \in [Node -> Seq(Entry)]
        /\ answers \in [Calls -> Seq(BOOLEAN)]
    BY DEF Init
  <2>6. call \in [Calls -> CallState]
    <3>1. [at |-> "new", node |-> Nobody, term |-> 0, index |-> 0, timer |-> "no"] \in CallState
      BY <1>1 DEF CallState
    <3> QED BY <3>1 DEF Init
  <2>7. lost \in 0 .. MaxLost
    BY <1>1 DEF Init
  <2> QED BY <2>1, <2>2, <2>3, <2>4, <2>5, <2>6, <2>7 DEF TypeOK
<1>7. CallInv
  BY <1>5 DEF CallInv
<1>8. CallbackInv
  <2>1. Right({})
    BY FS_EmptySet DEF Right, Keyed
  <2> QED BY <1>4, <2>1 DEF CallbackInv
<1>9. TaskInv
  BY <1>4 DEF TaskInv
<1>10. AnsweredInv /\ ComingInv
  BY <1>5 DEF AnsweredInv, ComingInv
<1> QED BY <1>6, <1>7, <1>8, <1>9, <1>10 DEF LogInv

LEMMA StepRight ==
  ASSUME LogInv, Step
  PROVE  LogInv'
BY MovedStep DEF Step

LEMMA NextRight ==
  ASSUME LogInv, Next
  PROVE  LogInv'
<1>1. CASE \E n \in Node : \E Q \in SUBSET Others(n), t \in Term : Elect(n, Q, t)
  BY <1>1, StepElect, StepRight
<1>2. CASE \E n \in Node : Stand(n)
  BY <1>2, StepStand, StepRight
<1>3. CASE \E c \in Calls, n \in Node : Ask(c, n)
  BY <1>3, StepAsk, StepRight
<1>4. ASSUME NEW c \in Calls, CallStep(c) PROVE LogInv'
  BY <1>4, StepStamp, StepWriteEntry, KeepsRegister, StepDue, StepExpire, StepRight
     DEF CallStep
<1>5. ASSUME NEW n \in Node, CommitterStep(n) PROVE LogInv'
  BY <1>5, KeepsRunCommit, KeepsRunAnswer, StepApplyEntry, StepRight DEF CommitterStep
<1>6. ASSUME NEW n \in Node, NEW m \in Others(n), ThreadStep(n, m) PROVE LogInv'
  <2>1. m \in Node
    BY DEF Others
  <2> QED BY <1>6, <2>1, StepTakeCommand, StepLook, StepStampRequest, StepSend, StepRefused,
             StepNewTerm, StepAccepted, StepRight DEF ThreadStep
<1>7. ASSUME NEW n \in Node, NEW m \in Others(n), GiveUp(n, m) \/ Serve(n, m) PROVE LogInv'
  <2>1. m \in Node
    BY DEF Others
  <2> QED BY <1>7, <2>1, StepGiveUp, StepServe, StepRight
<1>8. ASSUME NEW m \in Node, NEW q \in late[m], ServeLate(m, q) PROVE LogInv'
  BY <1>8, StepServeLate, StepRight
<1> QED BY <1>1, <1>2, <1>3, <1>4, <1>5, <1>6, <1>7, <1>8 DEF Next

LEMMA StutterRight ==
  ASSUME LogInv, UNCHANGED vars
  PROVE  LogInv'
<1>1. TypeOK /\ CallInv /\ CallbackInv
  BY DEF LogInv
<1>2. NodesKept /\ CallsKept /\ CallInv'
  BY <1>1, NodesStay, CallsStay DEF vars
<1>3. TypeOK'
  BY <1>1 DEF TypeOK, vars
<1> QED BY <1>2, <1>3, MovedStep DEF vars

LEMMA LogInvariant == Spec => []LogInv
<1>1. LogInv /\ [Next]_vars => LogInv'
  BY NextRight, StutterRight
<1> QED BY InitRight, <1>1, PTL DEF Spec

-----------------------------------------------------------------------------
(* What is proved.                                                         *)

\* The members of raft, the requests in flight and the calls of replicate have
\* their types: indexes and terms stay in their ranges through every handler,
\* and every callback in the map waits for one response at least.
THEOREM TypeCorrect == Spec => []TypeOK
<1>1. LogInv => TypeOK
  BY DEF LogInv
<1> QED BY LogInvariant, <1>1, PTL

\* The callback of replicate runs once at most, and that of a registered call
\* is not forgotten: while its timer has still to run it is in the map, among
\* the tasks, or has run.  The majority (raft.hpp:642), the time-out
\* (raft.hpp:617) and the step down (raft.hpp:201) race for it.
THEOREM CallsAreAnswered == Spec => []CallsAnswered
<1>1. LogInv => CallsAnswered
  <2> SUFFICES ASSUME LogInv PROVE CallsAnswered
    OBVIOUS
  <2>1. AnsweredOnce
    BY DEF LogInv, AnsweredInv, AnsweredOnce
  <2>2. ASSUME NEW c \in Calls, call[c].at = "done", call[c].timer # "no",
               \A b \in Calls \ {c} : call[b].node = call[c].node =>
                 call[b].index # call[c].index
        PROVE  \/ answers[c] # <<>>
               \/ \E cb \in node[call[c].node].callbacks : cb.call = c
               \/ \E k \in DOMAIN node[call[c].node].tasks :
                    /\ node[call[c].node].tasks[k].kind = "answer"
                    /\ node[call[c].node].tasks[k].call = c
    <3>1. call[c].node \in Node
      BY <2>2 DEF LogInv, CallInv
    <3>2. ~Shared(c)
      BY <2>2 DEF Shared
    <3>3. \/ answers[c] # <<>>
          \/ InMap(node[call[c].node], c)
          \/ \E k \in 1 .. Len(node[call[c].node].tasks) : Answering(call[c].node, k, c)
      BY <2>2, <3>2 DEF LogInv, ComingInv
    <3>4. node[call[c].node].tasks \in Seq(Task)
      BY <3>1 DEF LogInv, TypeOK, NodeState
    <3>5. DOMAIN node[call[c].node].tasks = 1 .. Len(node[call[c].node].tasks)
      BY <3>4
    <3> QED BY <3>3, <3>5 DEF InMap, Answering, Answers
  <2>3. AnswerComing
    BY <2>2 DEF AnswerComing
  <2> QED BY <2>1, <2>3 DEF CallsAnswered
<1> QED BY LogInvariant, <1>1, PTL

-----------------------------------------------------------------------------
(* A file whose entries are numbered from 1 on.                            *)

Counted(f) == \A k \in 1 .. Len(f) : f[k].index = k

\* f is the first part of g.
Begins(f, g) == Len(f) <= Len(g) /\ \A k \in 1 .. Len(f) : f[k] = g[k]

\* es stands in g behind the first s entries.
Stands(es, s, g) == s + Len(es) <= Len(g) /\ \A k \in 1 .. Len(es) : es[k] = g[s + k]

LEMMA LenRight ==
  ASSUME NEW S, NEW f \in Seq(S)
  PROVE  Len(f) \in Nat /\ \A k \in 1 .. Len(f) : f[k] \in S
OBVIOUS

LEMMA CountedRead ==
  ASSUME NEW f \in Seq(Entry), Counted(f), NEW i \in Nat
  PROVE  /\ Holds(f, i) <=> i \in 1 .. Len(f)
         /\ Holds(f, i) => Place(f, i) = i /\ GetEntry(f, i) = f[i]
         /\ ~Unreadable(f, i)
         /\ Start(f) \in {0, 1} /\ (f # <<>> => Start(f) = 1)
<1>1. Len(f) \in Nat /\ (f # <<>> <=> Len(f) > 0)
  BY EmptySeq
<1>2. f # <<>> => f[1].index = 1 /\ f[Len(f)].index = Len(f)
  BY <1>1 DEF Counted
<1>3. Start(f) \in {0, 1} /\ (f # <<>> => Start(f) = 1)
  BY <1>2 DEF Start
<1>4. Holds(f, i) <=> i \in 1 .. Len(f)
  BY <1>1, <1>2, <1>3 DEF Holds
<1>5. Holds(f, i) => Place(f, i) = i
  BY <1>1, <1>3, <1>4 DEF Place
<1>6. Holds(f, i) => GetEntry(f, i) = f[i]
  BY <1>5 DEF GetEntry
<1>7. ~Unreadable(f, i)
  BY <1>1, <1>4, <1>5 DEF Unreadable, Counted
<1> QED BY <1>3, <1>4, <1>5, <1>6, <1>7

\* Reading from i on gives what stands behind the first i - 1 entries.
LEMMA CountedEntries ==
  ASSUME NEW f \in Seq(Entry), Counted(f), NEW i \in Nat
  PROVE  /\ GetEntries(f, i) \in Seq(Entry)
         /\ i \in 1 .. Len(f) => /\ Stands(GetEntries(f, i), i - 1, f)
                                 /\ Len(GetEntries(f, i)) = Len(f) - (i - 1)
         /\ i \notin 1 .. Len(f) => GetEntries(f, i) = <<>>
<1>1. GetEntries(f, i) \in Seq(Entry)
  BY GetEntriesRight
<1>2. Len(f) \in Nat
  OBVIOUS
<1>3. CASE i \in 1 .. Len(f)
  <2> DEFINE es == SubSeq(f, i, Len(f))
             n == Len(f)
  <2>1. GetEntries(f, i) = es
    BY <1>3, CountedRead DEF GetEntries
  <2>2. \A k \in i .. n : f[k] \in Entry
    BY <1>2, <1>3
  <2> HIDE DEF n
  <2>3. n \in Nat /\ i \in 1 .. n
    BY <1>2, <1>3 DEF n
  <2>4. Len(SubSeq(f, i, n)) = n - (i - 1)
    <3>1. Len(SubSeq(f, i, n)) = IF i <= n THEN n - i + 1 ELSE 0
      BY <2>2, <2>3, SubSeqProperties
    <3> QED BY <2>3, <3>1
  <2>5. \A k \in 1 .. n - (i - 1) : SubSeq(f, i, n)[k] = f[(i - 1) + k]
    <3>1. \A k \in 1 .. n - i + 1 : SubSeq(f, i, n)[k] = f[i + k - 1]
      BY <2>2, <2>3, SubSeqProperties
    <3>2. ASSUME NEW k \in 1 .. n - (i - 1)
          PROVE  k \in 1 .. n - i + 1 /\ i + k - 1 = (i - 1) + k
      BY <2>3
    <3> QED BY <3>1, <3>2
  <2> QED BY <1>1, <1>3, <2>1, <2>3, <2>4, <2>5 DEF Stands, n
<1>4. CASE i \notin 1 .. Len(f)
  BY <1>1, <1>4, CountedRead DEF GetEntries
<1> QED BY <1>3, <1>4

-----------------------------------------------------------------------------
(* The inductive invariant.                                                *)

\* The bounds of the run: one term, and nobody stands without being elected.
OneTerm == MaxTerm = 1 /\ Restless = {}

F(n) == node[n].file

Size(n) == Len(node[n].file)

\* L leads, with the votes of as many as nobody else can get.
Ruled(L) ==
  /\ L \in Node /\ node[L].term = 1
  /\ \A n \in Node : node[n].state = "leader" <=> n = L
  /\ \E S \in SUBSET Node : /\ Cardinality(S) = Cardinality(Node) \div 2 + 1
                            /\ \A v \in S : node[v].term = 1

\* Every file is a first part of the leader's, and no process has stopped.
FilesInv(L) ==
  /\ Counted(F(L)) /\ \A k \in 1 .. Size(L) : F(L)[k].term = 1
  /\ \A n \in Node : /\ Begins(F(n), F(L)) /\ node[n].last = Size(n)
                     /\ node[n].fault = "none" /\ node[n].committed <= Size(n)

\* The leader takes the calls and writes their entries.
CallRight(c, L) ==
  /\ call[c].at # "new" => call[c].node = L
  /\ call[c].at \in {"stamped", "written", "done"} => call[c].term = 1
  /\ call[c].at \in {"written", "done"} =>
       call[c].index \in 1 .. Size(L) /\ F(L)[call[c].index].data = c

CalledInv(L) == \A c \in Calls : CallRight(c, L)

\* What peer m of leader L is sent joins its file: the entry before goes along,
\* or m has it.
Sent(q, m, L) ==
  /\ q.term = 1
  /\ \E s \in 0 .. Size(L) :
       /\ Stands(q.entries, s, F(L))
       /\ \/ q.prev = 0 /\ s <= Size(m)
          \/ q.prev = s /\ s > 0 /\ q.prevTerm = 1

\* What peer m has answered.
Answers1(p, q, m) ==
  /\ p.term <= 1 /\ p.last <= Size(m)
  /\ p.ok => \A k \in 1 .. Len(q.entries) : q.entries[k].index <= Size(m)

\* The peer thread for m asks no further than from where m has its log, and no
\* request leaves a gap.
PeerRight(m, L) ==
  /\ thread[L][m].at # "newterm"
  /\ thread[L][m].at = "send" => thread[L][m].term = 1
  /\ thread[L][m].next > 1 =>
       thread[L][m].next <= Size(L) \/ thread[L][m].next - 1 <= Size(m)
  /\ rpc[L][m] # NoRpc => Sent(rpc[L][m].req, m, L)
  /\ rpc[L][m] # NoRpc /\ rpc[L][m].status = "answered" =>
       Answers1(rpc[L][m].resp, rpc[L][m].req, m)
  /\ \A q \in late[m] : Sent(q, m, L)

\* Only the leader's peer threads run.
PeerInv(L) ==
  /\ \A n \in Node \ {L}, m \in Node :
       thread[n][m] = IdleThread /\ rpc[n][m] = NoRpc /\ node[n].cmds[m] = <<>>
  /\ \A m \in Node \ {L} : PeerRight(m, L)
  /\ late[L] = {}

\* No task applies entries.
OnlyAnswers(s) == \A k \in 1 .. Len(s.tasks) : s.tasks[k].kind # "commit"

\* The committer of a follower has the entries after the committed ones.
CommitterInv(L) ==
  /\ \A n \in Node : Stands(committing[n], node[n].committed, F(n))
  /\ committing[L] = <<>> /\ applied[L] = <<>>
  /\ OnlyAnswers(node[L])
  /\ \A n \in Node \ {L} : /\ Len(applied[n]) = node[n].committed
                           /\ Begins(applied[n], F(L))

\* A follower holds the entry of call c.
Held(c, L) == \E m \in Node \ {L} : \E k \in 1 .. Size(m) : F(m)[k].data = c

\* A task that tells a call of success.
Succeeds(t) == t.kind = "answer" /\ t.ok

\* What the leader commits or answers with success, a follower holds.
HeldInv(L) ==
  /\ node[L].committed > 0 => \E m \in Node \ {L} : node[L].committed <= Size(m)
  /\ \A n \in Node : \A k \in 1 .. Len(node[n].tasks) :
       Succeeds(node[n].tasks[k]) => Held(node[n].tasks[k].call, L)
  /\ \A c \in Calls : \A k \in 1 .. Len(answers[c]) : answers[c][k] => Held(c, L)

Led(L) == /\ Ruled(L) /\ FilesInv(L) /\ CalledInv(L) /\ PeerInv(L)
          /\ CommitterInv(L) /\ HeldInv(L)

OrderInv == LogInv /\ (Init \/ \E L \in Node : Led(L))

-----------------------------------------------------------------------------
(* One node: the entries it is sent.                                       *)

\* All but the file and the last index is the same.
SameButFile(s, t) ==
  /\ t.term = s.term /\ t.state = s.state /\ t.committed = s.committed
  /\ t.tasks = s.tasks /\ t.cmds = s.cmds /\ t.fault = s.fault

\* A node that follows log g.
Follows(s, g) == /\ s \in NodeState /\ Begins(s.file, g) /\ s.last = Len(s.file)
                 /\ s.fault = "none"

LEMMA BeginsCounted ==
  ASSUME NEW g \in Seq(Entry), Counted(g), NEW f \in Seq(Entry), Begins(f, g)
  PROVE  Counted(f)
<1>1. Len(f) \in Nat /\ Len(g) \in Nat
  OBVIOUS
<1> QED BY <1>1 DEF Begins, Counted

\* One entry, the k-th behind the first s of g: nothing is left out before it.
LEMMA AcceptNext ==
  ASSUME NEW g \in Seq(Entry), Counted(g), \A i \in 1 .. Len(g) : g[i].term = 1,
         NEW a \in Accepting, a.check, ~a.failed, Follows(a.node, g),
         NEW i \in 1 .. Len(g), i <= Len(a.node.file) + 1, NEW e, e = g[i]
  PROVE  /\ Accept(a, e) \in Accepting
         /\ Accept(a, e).check /\ ~Accept(a, e).failed
         /\ Follows(Accept(a, e).node, g) /\ SameButFile(a.node, Accept(a, e).node)
         /\ Len(a.node.file) <= Len(Accept(a, e).node.file)
         /\ i <= Len(Accept(a, e).node.file)
         /\ SameTasks(a.node, Accept(a, e).node)
<1> DEFINE s == a.node
           f == s.file
           b == Accept(a, e)
           known == a.check /\ e.index <= s.last
<1>0. s \in NodeState /\ a.check = TRUE /\ a.failed = FALSE
  BY DEF Accepting
<1>1. f \in Seq(Entry) /\ Len(f) \in Nat /\ Len(g) \in Nat /\ s.last = Len(f)
  BY <1>0 DEF NodeState, Follows
<1>2. e \in Entry /\ e.index = i /\ e.term = 1 /\ i \in Nat
  BY <1>1 DEF Counted
<1>3. Counted(f)
  BY <1>1, BeginsCounted DEF Follows
<1>4. ~(i < Start(f)) /\ ~Unreadable(f, i)
  BY <1>1, <1>2, <1>3, CountedRead
<1>5. s.fault = "none"
  BY DEF Follows
<1>6. CASE i <= Len(f)
  <2>1. GetEntry(f, i) = f[i] /\ f[i] = g[i]
    BY <1>1, <1>2, <1>3, <1>6, CountedRead DEF Follows, Begins
  <2>2. GetEntry(f, i).term = 1
    BY <2>1
  <2>3. b = a
    <3> HIDE DEF f, s
    <3> QED BY <1>0, <1>1, <1>2, <1>4, <1>5, <1>6, <2>2 DEF Accept, f, s
  <2> QED BY <1>0, <1>6, <2>3 DEF SameButFile, SameTasks, Accepting
<1>7. CASE ~(i <= Len(f))
  <2>1. i = Len(f) + 1
    BY <1>1, <1>2, <1>7
  <2>2. b = [a EXCEPT !.node = WriteFile(s, e), !.check = TRUE]
    <3>1. ~known
      BY <1>1, <1>2, <1>7
    <3> QED BY <1>0, <1>1, <1>2, <1>4, <1>5, <1>7, <3>1 DEF Accept
  <2> DEFINE w == WriteFile(s, e)
  <2>3. w \in NodeState /\ SameTasks(s, w)
    BY <1>0, <1>2, WriteRight
  <2>4. w.file = Append(f, e) /\ w.last = i /\ SameButFile(s, w)
    BY <1>0, <1>2 DEF WriteFile, NodeState, SameButFile
  <2>5. /\ Len(Append(f, e)) = i
        /\ \A k \in 1 .. Len(f) : Append(f, e)[k] = f[k]
        /\ Append(f, e)[i] = g[i]
    BY <1>1, <1>2, <2>1, AppendTo
  <2>6. Begins(Append(f, e), g)
    <3>1. ASSUME NEW k \in 1 .. i PROVE Append(f, e)[k] = g[k]
      <4>1. CASE k = i
        BY <2>5, <4>1
      <4>2. CASE k # i
        <5>1. k \in 1 .. Len(f)
          BY <1>1, <2>1, <4>2
        <5> QED BY <2>5, <5>1 DEF Follows, Begins
      <4> QED BY <4>1, <4>2
    <3> QED BY <1>1, <2>1, <2>5, <3>1 DEF Begins
  <2> HIDE DEF w
  <2>7. b.node = w /\ b.check /\ ~b.failed /\ b \in Accepting
    BY <1>0, <2>2, <2>3 DEF Accepting, w
  <2>8. Follows(w, g)
    BY <1>5, <2>3, <2>4, <2>5, <2>6 DEF Follows, SameButFile
  <2> QED BY <1>1, <2>1, <2>3, <2>4, <2>5, <2>7, <2>8
<1> QED BY <1>6, <1>7

\* All entries of a request.
LEMMA AcceptRun ==
  ASSUME NEW g \in Seq(Entry), Counted(g), \A i \in 1 .. Len(g) : g[i].term = 1,
         NEW s, Follows(s, g), NEW i \in 0 .. Len(s.file), NEW es \in Seq(Entry), Stands(es, i, g)
  PROVE  LET d == AcceptAll(s, es)
         IN  /\ ~d.failed /\ Follows(d.node, g) /\ SameButFile(s, d.node)
             /\ Len(s.file) <= Len(d.node.file) /\ i + Len(es) <= Len(d.node.file)
<1> DEFINE n == Len(es)
           b == [node |-> s, check |-> TRUE, failed |-> FALSE]
           Good(a, k) == /\ a \in Accepting /\ a.check /\ ~a.failed /\ Follows(a.node, g)
                         /\ SameButFile(s, a.node)
                         /\ Len(s.file) <= Len(a.node.file) /\ i + k <= Len(a.node.file)
<1>0. s \in NodeState /\ Len(s.file) \in Nat /\ i \in Nat /\ Len(g) \in Nat
  BY DEF Follows, NodeState
<1>1. n \in Nat /\ \A k \in 1 .. n : es[k] \in Entry
  OBVIOUS
<1>2. PICK f : /\ f[0] = b
               /\ \A k \in 1 .. n : f[k] = Accept(f[k - 1], es[k])
               /\ AcceptAll(s, es) = f[n]
  BY <1>1, AcceptAllSteps
<1>3. f[0] = b /\ \A k \in 1 .. n : f[k] = Accept(f[k - 1], es[k])
  BY <1>2
<1>4. Good(b, 0)
  BY <1>0 DEF Accepting, SameButFile
<1>5. ASSUME NEW k \in 1 .. n, Good(f[k - 1], k - 1) PROVE Good(f[k], k)
  <2> DEFINE a == f[k - 1]
             m == Len(a.node.file)
             j == i + k
  <2>1. j \in 1 .. Len(g) /\ es[k] = g[j]
    BY <1>0, <1>1 DEF Stands
  <2>2. a.node \in NodeState /\ m \in Nat
    <3>1. Follows(a.node, g)
      BY <1>5
    <3>2. a.node \in NodeState
      <4> HIDE DEF a
      <4> QED BY <3>1 DEF Follows
    <3> HIDE DEF a
    <3> QED BY <3>2 DEF NodeState
  <2>3. j <= m + 1
    <3> HIDE DEF m, a
    <3>1. i + (k - 1) <= m
      BY <1>5 DEF m, a
    <3> QED BY <1>0, <1>1, <2>2, <3>1
  <2>4. f[k] = Accept(a, es[k])
    BY <1>3
  <2> HIDE DEF j, a
  <2>5. /\ f[k] \in Accepting /\ f[k].check /\ ~f[k].failed /\ Follows(f[k].node, g)
        /\ SameButFile(a.node, f[k].node) /\ Len(a.node.file) <= Len(f[k].node.file)
        /\ j <= Len(f[k].node.file)
    BY <1>5, <2>1, <2>3, <2>4, AcceptNext DEF a
  <2>6. Len(f[k].node.file) \in Nat
    BY <2>5 DEF Follows, NodeState
  <2>7. Len(s.file) <= Len(f[k].node.file)
    <3>1. Len(s.file) <= m
      BY <1>5 DEF a
    <3>2. m <= Len(f[k].node.file)
      BY <2>5
    <3> HIDE DEF m
    <3> QED BY <1>0, <2>2, <2>6, <3>1, <3>2
  <2>8. SameButFile(s, f[k].node)
    BY <1>5, <2>5 DEF SameButFile, a
  <2> QED BY <2>5, <2>7, <2>8 DEF j
<1> HIDE DEF Good
<1>6. \A k \in 0 .. n : Good(f[k], k)
  <2> DEFINE T == {k \in 0 .. n : ~Good(f[k], k)}
  <2>1. SUFFICES ASSUME T # {} PROVE FALSE
    OBVIOUS
  <2>2. PICK k \in T : \A j \in T : k <= j
    <3>1. T \in SUBSET Nat
      BY <1>1
    <3> HIDE DEF T
    <3> QED BY <2>1, <3>1, LeastNumber
  <2>3. k # 0
    BY <1>3, <1>4
  <2>4. k \in 1 .. n /\ k - 1 \in 0 .. n /\ k - 1 \notin T
    BY <1>1, <2>2, <2>3
  <2> QED BY <1>5, <2>4
<1>7. Good(f[n], n)
  BY <1>1, <1>6
<1> QED BY <1>2, <1>7 DEF Good

\* The tasks t has more than s: none tells a call of success.
Unsuccessful(s, t) ==
  /\ Len(s.tasks) <= Len(t.tasks)
  /\ \A k \in 1 .. Len(t.tasks) :
       (k \in 1 .. Len(s.tasks) /\ t.tasks[k] = s.tasks[k]) \/ ~Succeeds(t.tasks[k])

LEMMA AnswersBehind ==
  ASSUME NEW s \in NodeState, NEW t, NEW ts \in Seq(Task), t.tasks = s.tasks \o ts,
         \A i \in 1 .. Len(ts) : ts[i].kind = "answer", OnlyAnswers(s)
  PROVE  OnlyAnswers(t)
<1> DEFINE S == Len(s.tasks)
           n == Len(ts)
<1>1. s.tasks \in Seq(Task) /\ S \in Nat /\ n \in Nat
  BY DEF NodeState
<1>2. /\ Len(t.tasks) = S + n /\ \A i \in 1 .. S : t.tasks[i] = s.tasks[i]
      /\ \A i \in 1 .. n : t.tasks[S + i] = ts[i]
  BY <1>1, Joined
<1> HIDE DEF S, n
<1>3. ASSUME NEW k \in 1 .. Len(t.tasks) PROVE t.tasks[k].kind # "commit"
  <2>1. CASE k <= S
    <3>1. k \in 1 .. S
      BY <1>1, <1>2, <2>1
    <3> QED BY <1>2, <3>1 DEF OnlyAnswers, S
  <2>2. CASE ~(k <= S)
    <3>1. \E i \in 1 .. n : k = S + i
      <4>1. k - S \in 1 .. n /\ k = S + (k - S)
        BY <1>1, <1>2, <2>2
      <4> QED BY <4>1
    <3>2. \A i \in 1 .. n : ts[i].kind = "answer"
      BY DEF n
    <3> QED BY <1>2, <3>1, <3>2
  <2> QED BY <2>1, <2>2
<1> QED BY <1>3 DEF OnlyAnswers

LEMMA RefusalsRight ==
  ASSUME NEW s, NodeRight(s), NEW t, NEW cbs \in SUBSET s.callbacks,
         t.tasks = s.tasks \o Refusals(cbs)
  PROVE  Unsuccessful(s, t) /\ (OnlyAnswers(s) => OnlyAnswers(t))
<1> DEFINE ts == Refusals(cbs)
           S == Len(s.tasks)
           n == Len(ts)
<1>1. s.tasks \in Seq(Task) /\ S \in Nat
  BY DEF NodeRight, NodeState
<1>2. Right(cbs) /\ \A a \in cbs : a.call \in Calls
  BY RightSubset DEF NodeRight, NodeState, Callback
<1>3. ts \in Seq(Task) /\ n \in Nat
  <2>1. AnswersTo(cbs, FALSE) \in Seq(Task)
    BY <1>2, AnswersToAll
  <2>2. ts = AnswersTo(cbs, FALSE)
    BY DEF Refusals
  <2>3. ts \in Seq(Task)
    BY <2>1, <2>2
  <2> HIDE DEF ts
  <2> QED BY <2>3, LenProperties
<1>4. \A i \in 1 .. n : ts[i].kind = "answer" /\ ~ts[i].ok
  <2> DEFINE c == Cardinality(cbs)
             o == InOrder(cbs)
  <2>1. ts = [i \in 1 .. c |-> Answer(o[i].call, FALSE)]
    BY DEF Refusals, AnswersTo
  <2>2. c \in Nat
    BY <1>2, FS_CardinalityType DEF Right, Keyed
  <2> HIDE DEF c, o, ts
  <2>3. n = c
    BY <2>1, <2>2
  <2>4. \A i \in 1 .. c : ts[i] = Answer(o[i].call, FALSE)
    BY <2>1
  <2> QED BY <2>3, <2>4 DEF Answer
<1> HIDE DEF ts
<1>5. /\ Len(t.tasks) = S + n /\ \A i \in 1 .. S : t.tasks[i] = s.tasks[i]
      /\ \A i \in 1 .. n : t.tasks[S + i] = ts[i]
  BY <1>1, <1>3, Joined DEF ts
<1> HIDE DEF S, n
<1>6. ASSUME NEW k \in 1 .. Len(t.tasks)
      PROVE  \/ k \in 1 .. S /\ t.tasks[k] = s.tasks[k]
             \/ t.tasks[k].kind = "answer" /\ ~t.tasks[k].ok
  <2>1. CASE k <= S
    BY <1>1, <1>5, <2>1
  <2>2. CASE ~(k <= S)
    <3>1. \E i \in 1 .. n : k = S + i
      <4>1. k - S \in 1 .. n /\ k = S + (k - S)
        BY <1>1, <1>3, <1>5, <2>2
      <4> QED BY <4>1
    <3> QED BY <1>4, <1>5, <3>1
  <2> QED BY <2>1, <2>2
<1>7. Unsuccessful(s, t)
  BY <1>1, <1>3, <1>5, <1>6 DEF Unsuccessful, Succeeds, S
<1>8. OnlyAnswers(s) => OnlyAnswers(t)
  BY <1>3, <1>4, AnswersBehind DEF NodeRight, n, ts
<1> QED BY <1>7, <1>8

\* What a follower keeps through step_down.
SameLog(s, t) ==
  /\ t.file = s.file /\ t.last = s.last /\ t.committed = s.committed
  /\ t.fault = s.fault /\ t.cmds = s.cmds

LEMMA StepDownKeeps ==
  ASSUME NEW s, NodeRight(s), s.state # "leader", NEW n \in Node, NEW t \in Term
  PROVE  LET d == StepDown(s, n, t)
         IN  /\ SameLog(s, d) /\ d.state = "follower" /\ Unsuccessful(s, d)
             /\ d.term = IF t > s.term THEN t ELSE s.term
<1>1. s \in NodeState
  BY DEF NodeRight
<1> DEFINE d == StepDown(s, n, t)
           ts == s.tasks \o Refusals(s.callbacks)
<1>2. d = [s EXCEPT !.term = IF t > @ THEN t ELSE @, !.state = "follower", !.tasks = ts,
                    !.callbacks = {}]
  BY DEF StepDown
<1> HIDE DEF ts
<1>3. /\ SameLog(s, d) /\ d.state = "follower" /\ d.tasks = ts
      /\ d.term = IF t > s.term THEN t ELSE s.term
  BY <1>1, <1>2 DEF NodeState, SameLog
<1> HIDE DEF d
<1>4. Unsuccessful(s, d)
  BY <1>3, RefusalsRight DEF ts
<1> QED BY <1>3, <1>4 DEF d

\* What the handler returns for request q, and makes of follower m of L.
Handled(h, q, m, L) ==
  LET d == h.node
  IN  /\ ~h.failed /\ Follows(d, F(L)) /\ d.term = 1 /\ d.state # "leader"
      /\ d.committed = node[m].committed /\ d.cmds = node[m].cmds
      /\ Size(m) <= Len(d.file) /\ Unsuccessful(node[m], d)
      /\ h.resp.term = 1 /\ h.resp.last <= Len(d.file)
      /\ h.resp.ok => \A k \in 1 .. Len(q.entries) : q.entries[k].index <= Len(d.file)

\* handle_append_entries_request in a follower, for a request that joins its file.
LEMMA FollowerHandles ==
  ASSUME OneTerm, LogInv, NEW L, Ruled(L), FilesInv(L), NEW m \in Node \ {L},
         NEW q \in Request, Sent(q, m, L)
  PROVE  Handled(HandleAppend(m, q), q, m, L)
<1> DEFINE g == F(L)
           s == IF q.term > node[m].term THEN StepDown(node[m], m, q.term) ELSE node[m]
           prev == q.prev # 0 /\ q.prev > Start(s.file)
           left(ok, i) == [node |-> s, failed |-> FALSE, resp |-> Reply(ok, s.term, i)]
           done == AcceptAll(s, q.entries)
           full == IF done.node.committed < q.commit
                   THEN [done.node EXCEPT !.tasks =
                           Append(@, [kind |-> "commit", upto |-> q.commit])]
                   ELSE done.node
           h == HandleAppend(m, q)
<1>0. /\ m \in Node /\ L \in Node /\ NodeRight(node[m]) /\ node[m] \in NodeState
      /\ node[L] \in NodeState /\ q.entries \in Seq(Entry) /\ q.commit \in Index /\ q.prev \in Index
      /\ q.term = 1 /\ q.term \in Term
  BY DEF LogInv, TypeOK, CallbackInv, NodeRight, Request, Sent, Ruled
<1>1. /\ g \in Seq(Entry) /\ Counted(g) /\ \A i \in 1 .. Len(g) : g[i].term = 1
      /\ Len(g) \in Nat /\ Size(m) \in Nat
  BY <1>0 DEF FilesInv, F, Size, NodeState
<1>2. Follows(node[m], g) /\ node[m].committed <= Size(m)
  BY <1>0 DEF FilesInv, Follows, F, Size
<1>3. node[m].term \in {0, 1} /\ node[m].state # "leader"
  <2>1. node[m].term \in 0 .. 1
    BY <1>0 DEF NodeState, Term, OneTerm
  <2> QED BY <1>0, <2>1 DEF Ruled
<1>4. /\ s \in NodeState /\ SameLog(node[m], s) /\ s.term = 1 /\ s.state # "leader"
      /\ Unsuccessful(node[m], s) /\ NodeRight(s)
  <2>1. CASE node[m].term = 0
    BY <1>0, <1>3, <2>1, StepDownRight, StepDownKeeps DEF NodeRight
  <2>2. CASE node[m].term = 1
    <3>1. s = node[m]
      BY <1>0, <2>2
    <3>2. Unsuccessful(node[m], node[m])
      BY <1>0 DEF Unsuccessful, NodeState
    <3> QED BY <1>0, <1>3, <2>2, <3>1, <3>2 DEF SameLog
  <2> QED BY <1>3, <2>1, <2>2
<1> HIDE DEF s
<1>5. Follows(s, g) /\ Len(s.file) = Size(m) /\ s.last = Size(m)
  BY <1>2, <1>4 DEF Follows, SameLog, F, Size
<1>6. PICK i \in 0 .. Size(L) :
        /\ Stands(q.entries, i, F(L))
        /\ \/ q.prev = 0 /\ i <= Size(m)
           \/ q.prev = i /\ i > 0 /\ q.prevTerm = 1
  BY DEF Sent
<1>7. Counted(s.file) /\ s.file \in Seq(Entry)
  BY <1>1, <1>4, <1>5, BeginsCounted DEF Follows, NodeState
<1> SUFFICES Handled(h, q, m, L)
  OBVIOUS
<1>8. CASE q.prev > s.last
  <2>1. h = left(FALSE, s.last)
    BY <1>0, <1>4, <1>8 DEF HandleAppend, s
  <2>2. h.node = s /\ h.failed = FALSE /\ h.resp.term = 1 /\ h.resp.last = s.last /\ h.resp.ok = FALSE
    BY <1>4, <2>1 DEF Reply
  <2> HIDE DEF h
  <2>3. s.last = Len(s.file) /\ s.committed = node[m].committed /\ s.cmds = node[m].cmds
        /\ Size(m) <= Len(s.file) /\ s.last <= Len(s.file)
    BY <1>1, <1>4, <1>5 DEF SameLog
  <2> QED BY <1>4, <1>5, <2>2, <2>3 DEF Handled
<1>9. CASE ~(q.prev > s.last)
  <2>1. i \in 0 .. Len(s.file)
    BY <1>0, <1>1, <1>5, <1>6, <1>9 DEF Index
  <2>2. /\ ~done.failed /\ Follows(done.node, g) /\ SameButFile(s, done.node)
        /\ Len(s.file) <= Len(done.node.file) /\ i + Len(q.entries) <= Len(done.node.file)
    BY <1>0, <1>1, <1>5, <1>6, <2>1, AcceptRun
  <2> HIDE DEF done
  <2>3. prev => ~Unreadable(s.file, q.prev) /\ GetEntry(s.file, q.prev).term = q.prevTerm
    <3>1. SUFFICES ASSUME prev PROVE ~Unreadable(s.file, q.prev)
                                     /\ GetEntry(s.file, q.prev).term = q.prevTerm
      OBVIOUS
    <3>2. q.prev \in Nat /\ q.prev \in 1 .. Len(s.file) /\ q.prevTerm = 1
      BY <1>0, <1>1, <1>5, <1>6, <1>9, <3>1 DEF Index
    <3>3. ~Unreadable(s.file, q.prev) /\ GetEntry(s.file, q.prev) = s.file[q.prev]
      BY <1>7, <3>2, CountedRead
    <3>4. s.file[q.prev].term = 1
      BY <1>1, <1>5, <3>2 DEF Follows, Begins
    <3> QED BY <3>2, <3>3, <3>4
  <2>4. done.node.fault = "none"
    BY <2>2 DEF Follows
  <2>5. h = [node |-> full, failed |-> FALSE, resp |-> Reply(TRUE, s.term, full.last)]
    <3> HIDE DEF prev
    <3> QED BY <1>0, <1>4, <1>9, <2>2, <2>3, <2>4 DEF HandleAppend, s, done, full, prev
  <2>6. h.node = full /\ h.failed = FALSE /\ h.resp.term = 1 /\ h.resp.last = full.last
    BY <1>4, <2>5 DEF Reply
  <2> HIDE DEF h
  <2> DEFINE d == done.node
  <2>7. d \in NodeState /\ d.tasks \in Seq(Task) /\ Len(d.tasks) \in Nat /\ d.tasks = s.tasks
    BY <2>2 DEF Follows, SameButFile, NodeState
  <2>8. Follows(full, g) /\ SameLog(d, full) /\ full.term = d.term /\ full.state = d.state
        /\ Unsuccessful(s, full)
    <3>1. CASE ~(d.committed < q.commit)
      <4>1. full = d
        BY <3>1
      <4>2. Unsuccessful(s, d)
        BY <2>7 DEF Unsuccessful
      <4> HIDE DEF full, d
      <4> QED BY <2>2, <4>1, <4>2 DEF SameLog, d
    <3>2. CASE d.committed < q.commit
      <4> DEFINE e == [kind |-> "commit", upto |-> q.commit]
                 ts == Append(d.tasks, e)
      <4>1. full = [d EXCEPT !.tasks = ts]
        BY <3>2
      <4>2. e \in Task /\ ~Succeeds(e)
        BY <1>0 DEF Task, Succeeds
      <4> HIDE DEF e
      <4>3. /\ ts \in Seq(Task) /\ Len(ts) = Len(d.tasks) + 1
            /\ \A k \in 1 .. Len(d.tasks) : ts[k] = d.tasks[k]
            /\ ts[Len(d.tasks) + 1] = e
        BY <2>7, <4>2, AppendTo
      <4> HIDE DEF ts, d, full
      <4>4. full \in NodeState /\ full.tasks = ts /\ SameLog(d, full) /\ full.term = d.term
            /\ full.state = d.state
        BY <2>7, <4>1, <4>3 DEF NodeState, SameLog
      <4>5. Unsuccessful(s, full)
        <5>1. ASSUME NEW k \in 1 .. Len(ts)
              PROVE  (k \in 1 .. Len(d.tasks) /\ ts[k] = d.tasks[k]) \/ ts[k] = e
          BY <2>7, <4>3
        <5> QED BY <2>7, <4>2, <4>3, <4>4, <5>1 DEF Unsuccessful
      <4>6. Follows(full, g)
        BY <2>2, <4>4 DEF Follows, SameLog, d
      <4> QED BY <4>4, <4>5, <4>6
    <3> QED BY <3>1, <3>2
  <2> HIDE DEF full
  <2>9. Unsuccessful(node[m], full)
    <3>1. full.tasks \in Seq(Task) /\ s.tasks \in Seq(Task) /\ node[m].tasks \in Seq(Task)
      BY <1>0, <1>4, <2>8 DEF Follows, NodeState
    <3>2. Len(full.tasks) \in Nat /\ Len(s.tasks) \in Nat /\ Len(node[m].tasks) \in Nat
      BY <3>1
    <3>3. Len(node[m].tasks) <= Len(full.tasks)
      BY <1>4, <2>8, <3>2 DEF Unsuccessful
    <3>4. ASSUME NEW k \in 1 .. Len(full.tasks)
          PROVE  \/ k \in 1 .. Len(node[m].tasks) /\ full.tasks[k] = node[m].tasks[k]
                 \/ ~Succeeds(full.tasks[k])
      <4>1. \/ k \in 1 .. Len(s.tasks) /\ full.tasks[k] = s.tasks[k]
            \/ ~Succeeds(full.tasks[k])
        BY <2>8 DEF Unsuccessful
      <4>2. k \in 1 .. Len(s.tasks) =>
              \/ k \in 1 .. Len(node[m].tasks) /\ s.tasks[k] = node[m].tasks[k]
              \/ ~Succeeds(s.tasks[k])
        BY <1>4 DEF Unsuccessful
      <4> QED BY <4>1, <4>2
    <3> QED BY <3>3, <3>4 DEF Unsuccessful
  <2>10. full.term = 1 /\ full.state # "leader" /\ full.committed = node[m].committed
         /\ full.cmds = node[m].cmds
    BY <1>4, <2>2, <2>8 DEF SameButFile, SameLog
  <2>11. Len(full.file) \in Nat /\ Size(m) <= Len(full.file) /\ full.last = Len(full.file)
         /\ i + Len(q.entries) <= Len(full.file)
    BY <1>5, <2>2, <2>8 DEF SameLog, Follows, NodeState
  <2>12. ASSUME NEW k \in 1 .. Len(q.entries) PROVE q.entries[k].index <= Len(full.file)
    <3>1. Len(q.entries) \in Nat
      BY <1>0
    <3>2. q.entries[k] = g[i + k] /\ i + k \in 1 .. Len(g)
      BY <1>1, <1>6, <3>1 DEF Stands
    <3>3. q.entries[k].index = i + k
      BY <1>1, <3>2 DEF Counted
    <3> QED BY <2>1, <2>11, <3>1, <3>3, <1>1, <1>5
  <2>13. h.resp.last <= Len(full.file)
    BY <2>6, <2>11
  <2> QED BY <2>6, <2>8, <2>9, <2>10, <2>11, <2>12, <2>13 DEF Handled
<1> QED BY <1>8, <1>9

-----------------------------------------------------------------------------
(* One node: successes that are reported.                                  *)

\* What the report of entries with indexes I keeps.
Reported(s, t, I) ==
  /\ NodeRight(t) /\ Moved(s, t)
  /\ t.term = s.term /\ t.state = s.state /\ t.file = s.file /\ t.last = s.last
  /\ t.fault = s.fault /\ t.cmds = s.cmds
  /\ t.committed = s.committed \/ t.committed \in I
  /\ \A a \in s.callbacks : a.index \notin I => a \in t.callbacks
  /\ OnlyAnswers(s) => OnlyAnswers(t)

LEMMA ReportKeeps ==
  ASSUME NEW s, NodeRight(s), NEW e \in Entry, NEW I, e.index \in I
  PROVE  Reported(s, Report(s, e), I)
<1> DEFINE cbs  == {cb \in s.callbacks : cb.index = e.index}
           less == {[cb EXCEPT !.waits = @ - 1] : cb \in cbs}
           over == {cb \in less : cb.waits = 0}
           rest == (s.callbacks \ cbs) \cup (less \ over)
           d == Report(s, e)
<1>0. s \in NodeState
  BY DEF NodeRight
<1>1. NodeRight(d) /\ Moved(s, d)
  BY ReportRight
<1>2. d = IF over = {} THEN [s EXCEPT !.callbacks = rest]
          ELSE [s EXCEPT !.callbacks = rest, !.committed = e.index,
                         !.tasks = @ \o AnswersTo(over, TRUE)]
  BY DEF Report
<1>3. \A a \in s.callbacks : a.index \notin I => a \in rest
  OBVIOUS
<1>4. Right(over) /\ \A a \in over : a.call \in Calls
  <2>1. ASSUME NEW a \in over
        PROVE  \E x \in cbs : a.index = x.index /\ a.call = x.call
    <3>1. PICK x \in cbs : a = [x EXCEPT !.waits = @ - 1]
      OBVIOUS
    <3>2. x \in Callback
      BY <1>0 DEF NodeState
    <3>3. a.index = x.index /\ a.call = x.call
      BY <3>1, <3>2 DEF Callback
    <3> QED BY <3>3
  <2>2. \A x \in cbs : x.index \in Nat /\ x.call \in Calls /\ x.index = e.index
    <3>1. cbs \in SUBSET Callback
      BY <1>0 DEF NodeState
    <3> QED BY <3>1 DEF Callback, Index
  <2>3. \A x, y \in cbs : x = y
    BY <2>2 DEF NodeRight, Right, Keyed
  <2>4. \A a, b \in over : a = b
    <3>1. \A a, b \in less : a = b
      BY <2>3
    <3> QED BY <3>1
  <2>5. IsFiniteSet(over)
    <3>1. \A x \in over : over = {x}
      <4> HIDE DEF over
      <4> QED BY <2>4
    <3>2. over = {} \/ \E x : over = {x}
      <4> HIDE DEF over
      <4> QED BY <3>1
    <3> HIDE DEF over
    <3> QED BY <3>2, FS_EmptySet, FS_Singleton
  <2> HIDE DEF over, cbs
  <2> QED BY <2>1, <2>2, <2>4, <2>5 DEF Right, Keyed
<1> HIDE DEF d, over, rest
<1>5. CASE over = {}
  <2>1. d = [s EXCEPT !.callbacks = rest]
    BY <1>2, <1>5
  <2>2. /\ d.term = s.term /\ d.state = s.state /\ d.file = s.file /\ d.last = s.last
        /\ d.fault = s.fault /\ d.cmds = s.cmds /\ d.committed = s.committed
        /\ d.tasks = s.tasks /\ d.callbacks = rest
    BY <1>0, <2>1 DEF NodeState
  <2> QED BY <1>1, <1>3, <2>2 DEF Reported, OnlyAnswers, d
<1>6. CASE over # {}
  <2> DEFINE ts == AnswersTo(over, TRUE)
             us == s.tasks \o ts
  <2>1. d = [s EXCEPT !.callbacks = rest, !.committed = e.index, !.tasks = us]
    BY <1>2, <1>6
  <2>2. ts \in Seq(Task) /\ \A i \in 1 .. Len(ts) : ts[i].kind = "answer"
    <3> USE <1>4
    <3>1. AnswersTo(over, TRUE) \in Seq(Task)
      BY AnswersToAll
    <3>2. \A i \in 1 .. Len(AnswersTo(over, TRUE)) : AnswersTo(over, TRUE)[i].kind = "answer"
      BY AnswersToAll
    <3> QED BY <3>1, <3>2
  <2> HIDE DEF ts
  <2>3. d.tasks = us
    BY <1>0, <2>1 DEF NodeState
  <2>4. OnlyAnswers(s) => OnlyAnswers(d)
    BY <1>0, <2>2, <2>3, AnswersBehind
  <2> HIDE DEF us
  <2>5. /\ d.term = s.term /\ d.state = s.state /\ d.file = s.file /\ d.last = s.last
        /\ d.fault = s.fault /\ d.cmds = s.cmds /\ d.committed = e.index
        /\ d.callbacks = rest
    BY <1>0, <2>1 DEF NodeState
  <2> QED BY <1>1, <1>3, <2>4, <2>5 DEF Reported, d
<1> QED BY <1>5, <1>6

LEMMA ReportAllKeeps ==
  ASSUME NEW s, NodeRight(s), NEW es \in Seq(Entry)
  PROVE  Reported(s, ReportAll(s, es), {es[k].index : k \in 1 .. Len(es)})
<1> DEFINE n == Len(es)
           I == {es[k].index : k \in 1 .. n}
           Good(t) == Reported(s, t, I)
<1>1. n \in Nat /\ \A i \in 1 .. n : es[i] \in Entry /\ es[i].index \in I
  OBVIOUS
<1> HIDE DEF I
<1>2. PICK f : /\ f[0] = s
               /\ \A k \in 1 .. n : f[k] = Report(f[k - 1], es[k])
               /\ ReportAll(s, es) = f[n]
  BY <1>1, ReportAllSteps
<1>3. s.tasks \in Seq(Task) /\ Len(s.tasks) \in Nat
  BY DEF NodeRight, NodeState
<1>4. Good(s)
  BY <1>3, NotMoved DEF Reported
<1>5. ASSUME NEW k \in 1 .. n, Good(f[k - 1]) PROVE Good(f[k])
  <2> DEFINE t == f[k - 1]
             u == f[k]
  <2>1. NodeRight(t) /\ Reported(t, u, I)
    BY <1>1, <1>2, <1>5, ReportKeeps DEF Reported
  <2>2. Len(t.tasks) \in Nat /\ Len(u.tasks) \in Nat
    BY <2>1 DEF Reported, NodeRight, NodeState
  <2> HIDE DEF t, u
  <2>3. Reported(s, t, I)
    BY <1>5 DEF t
  <2>4. Moved(s, u)
    BY <1>3, <2>1, <2>2, <2>3, MovedOn DEF Reported
  <2>5. Reported(s, u, I)
    BY <2>1, <2>3, <2>4 DEF Reported
  <2> QED BY <2>5 DEF u
<1> HIDE DEF Good
<1>6. \A k \in 0 .. n : Good(f[k])
  <2> DEFINE T == {k \in 0 .. n : ~Good(f[k])}
  <2>1. SUFFICES ASSUME T # {} PROVE FALSE
    OBVIOUS
  <2>2. PICK k \in T : \A j \in T : k <= j
    <3>1. T \in SUBSET Nat
      BY <1>1
    <3> HIDE DEF T
    <3> QED BY <2>1, <3>1, LeastNumber
  <2>3. k # 0
    BY <1>2, <1>4
  <2>4. k \in 1 .. n /\ k - 1 \in 0 .. n /\ k - 1 \notin T
    BY <1>1, <2>2, <2>3
  <2> QED BY <1>5, <2>4
<1>7. Good(f[n])
  BY <1>1, <1>6
<1> QED BY <1>2, <1>7 DEF Good, I

\* A call that is told of success had its callback at one of the indexes.
LEMMA ReportedSuccess ==
  ASSUME NEW s, NodeRight(s), NEW t, NEW I, Reported(s, t, I), NEW k \in 1 .. Len(t.tasks),
         Succeeds(t.tasks[k])
  PROVE  \/ k \in 1 .. Len(s.tasks) /\ t.tasks[k] = s.tasks[k]
         \/ \E a \in s.callbacks : a.call = t.tasks[k].call /\ a.index \in I
<1>1. Len(s.tasks) \in Nat /\ Len(t.tasks) \in Nat
  BY DEF NodeRight, NodeState, Reported
<1>2. Moved(s, t)
  BY DEF Reported
<1>3. CASE k \in 1 .. Len(s.tasks)
  BY <1>2, <1>3 DEF Moved
<1>4. CASE k \notin 1 .. Len(s.tasks)
  <2>1. k \in NewTasks(s, t) /\ Answers(t, k)
    BY <1>1, <1>4 DEF NewTasks, Answers, Succeeds
  <2>2. InMap(s, t.tasks[k].call) /\ ~InMap(t, t.tasks[k].call)
    BY <1>2, <2>1 DEF Moved
  <2>3. PICK a \in s.callbacks : a.call = t.tasks[k].call
    BY <2>2 DEF InMap
  <2>4. a.index \in I
    BY <2>2, <2>3 DEF InMap, Reported
  <2> QED BY <2>3, <2>4
<1> QED BY <1>3, <1>4

-----------------------------------------------------------------------------
(* What a step keeps that only adds to files.                              *)

Grown == \A n \in Node : Begins(F(n), F(n)')

\* Success that t has to tell of, s has.
NoNewSuccess(s, t) ==
  \A k \in 1 .. Len(t.tasks) :
    Succeeds(t.tasks[k]) => \E j \in 1 .. Len(s.tasks) : s.tasks[j] = t.tasks[k]

LEMMA NoneNew ==
  ASSUME NEW s, NEW t, Unsuccessful(s, t) \/ t.tasks = s.tasks
  PROVE  NoNewSuccess(s, t)
BY DEF Unsuccessful, NoNewSuccess

LEMMA FilesTyped ==
  ASSUME TypeOK, NEW n \in Node
  PROVE  node[n] \in NodeState /\ F(n) \in Seq(Entry) /\ Size(n) \in Nat /\ Size(n) = Len(F(n))
<1>1. node[n] \in NodeState
  BY DEF TypeOK
<1>2. node[n].file \in Seq(Entry)
  BY <1>1 DEF NodeState
<1> QED BY <1>1, <1>2 DEF F, Size

LEMMA FilesTypedNext ==
  ASSUME TypeOK', NEW n \in Node
  PROVE  node'[n] \in NodeState /\ F(n)' \in Seq(Entry) /\ Size(n)' \in Nat
         /\ Size(n)' = Len(F(n)')
<1>1. node'[n] \in NodeState
  BY DEF TypeOK
<1>2. node'[n].file \in Seq(Entry)
  BY <1>1 DEF NodeState
<1> QED BY <1>1, <1>2 DEF F, Size

LEMMA GrownSizes ==
  ASSUME TypeOK, TypeOK', Grown, NEW n \in Node
  PROVE  /\ Size(n) \in Nat /\ Size(n)' \in Nat /\ Size(n) <= Size(n)'
         /\ \A k \in 1 .. Size(n) : k \in 1 .. Size(n)' /\ F(n)'[k] = F(n)[k]
<1>1. Size(n) \in Nat /\ Size(n)' \in Nat /\ Size(n) = Len(F(n)) /\ Size(n)' = Len(F(n)')
  BY FilesTyped, FilesTypedNext
<1>2. Begins(F(n), F(n)')
  BY DEF Grown
<1>3. Size(n) <= Size(n)' /\ \A k \in 1 .. Size(n) : F(n)[k] = F(n)'[k]
  BY <1>1, <1>2 DEF Begins
<1> QED BY <1>1, <1>3

\* What stands in a file still does.
LEMMA GrownStands ==
  ASSUME TypeOK, TypeOK', Grown, NEW n \in Node, NEW es \in Seq(Entry), NEW i \in Nat,
         Stands(es, i, F(n))
  PROVE  Stands(es, i, F(n)') /\ i \in 0 .. Size(n)'
<1> DEFINE N == Size(n)
           M == Size(n)'
           f == F(n)
           g == F(n)'
<1>1. N \in Nat /\ M \in Nat /\ N <= M /\ N = Len(f) /\ M = Len(g)
      /\ \A k \in 1 .. N : g[k] = f[k]
  BY GrownSizes, FilesTyped, FilesTypedNext
<1>2. Len(es) \in Nat /\ i + Len(es) <= N /\ \A k \in 1 .. Len(es) : es[k] = f[i + k]
  BY <1>1 DEF Stands
<1> SUFFICES Stands(es, i, g) /\ i \in 0 .. M
  OBVIOUS
<1> HIDE DEF N, M, f, g
<1>3. ASSUME NEW k \in 1 .. Len(es) PROVE es[k] = g[i + k]
  <2>1. i + k \in 1 .. N
    BY <1>1, <1>2
  <2> QED BY <1>1, <1>2, <2>1
<1>4. i + Len(es) <= Len(g) /\ i \in 0 .. M
  BY <1>1, <1>2
<1> QED BY <1>3, <1>4 DEF Stands

LEMMA GrownSent ==
  ASSUME TypeOK, TypeOK', Grown, NEW L \in Node, NEW m \in Node, NEW q \in Request,
         Sent(q, m, L)
  PROVE  Sent(q, m, L)'
<1>1. PICK s \in 0 .. Size(L) :
        /\ Stands(q.entries, s, F(L))
        /\ \/ q.prev = 0 /\ s <= Size(m)
           \/ q.prev = s /\ s > 0 /\ q.prevTerm = 1
  BY DEF Sent
<1>2. q.entries \in Seq(Entry) /\ s \in Nat /\ q.term = 1
  BY FilesTyped DEF Request, Sent
<1>3. Stands(q.entries, s, F(L)') /\ s \in 0 .. Size(L)'
  BY <1>1, <1>2, GrownStands
<1>4. s <= Size(m) => s <= Size(m)'
  <2> DEFINE N == Size(m)
             M == Size(m)'
  <2>1. N \in Nat /\ M \in Nat /\ N <= M
    BY GrownSizes
  <2> HIDE DEF N, M
  <2>2. s <= N => s <= M
    BY <1>2, <2>1
  <2> QED BY <2>2 DEF N, M
<1> QED BY <1>1, <1>2, <1>3, <1>4 DEF Sent

LEMMA GrownHeld ==
  ASSUME TypeOK, TypeOK', Grown, NEW L \in Node, NEW c \in Calls, Held(c, L)
  PROVE  Held(c, L)'
<1>1. PICK m \in Node \ {L} : \E k \in 1 .. Size(m) : F(m)[k].data = c
  BY DEF Held
<1>2. PICK k \in 1 .. Size(m) : F(m)[k].data = c
  BY <1>1
<1>3. k \in 1 .. Size(m)' /\ F(m)'[k] = F(m)[k]
  BY GrownSizes
<1> QED BY <1>2, <1>3 DEF Held

LEMMA GrownCall ==
  ASSUME TypeOK, TypeOK', Grown, NEW L \in Node, NEW c \in Calls, CallRight(c, L),
         call'[c].at = call[c].at, call'[c].node = call[c].node,
         call'[c].term = call[c].term, call'[c].index = call[c].index
  PROVE  CallRight(c, L)'
<1>1. call[c].at \in {"written", "done"} =>
        call[c].index \in 1 .. Size(L)' /\ F(L)'[call[c].index].data = c
  BY GrownSizes DEF CallRight
<1> QED BY <1>1 DEF CallRight

LEMMA GrownAnswers ==
  ASSUME TypeOK, TypeOK', Grown, NEW m \in Node, NEW p \in Response, NEW q \in Request,
         Answers1(p, q, m)
  PROVE  Answers1(p, q, m)'
<1> DEFINE N == Size(m)
           M == Size(m)'
<1>1. N \in Nat /\ M \in Nat /\ N <= M
  BY GrownSizes
<1>2. p.last \in Nat /\ q.entries \in Seq(Entry)
  BY DEF Response, Request, Index
<1>3. \A k \in 1 .. Len(q.entries) : q.entries[k].index \in Nat
  <2>1. \A k \in 1 .. Len(q.entries) : q.entries[k] \in Entry
    BY <1>2, LenRight
  <2> QED BY <2>1 DEF Entry, Index
<1>4. p.term <= 1 /\ p.last <= N
      /\ (p.ok => \A k \in 1 .. Len(q.entries) : q.entries[k].index <= N)
  BY DEF Answers1
<1> SUFFICES /\ p.term <= 1 /\ p.last <= M
             /\ p.ok => \A k \in 1 .. Len(q.entries) : q.entries[k].index <= M
  BY DEF Answers1
<1> HIDE DEF N, M
<1>5. \A i \in Nat : i <= N => i <= M
  BY <1>1
<1> QED BY <1>2, <1>3, <1>4, <1>5

LEMMA PeerTyped ==
  ASSUME TypeOK, NEW n \in Node, NEW m \in Node
  PROVE  /\ thread[n][m] \in Thread /\ thread[n][m].next \in Nat
         /\ rpc[n][m] # NoRpc =>
              /\ rpc[n][m] \in Rpc /\ rpc[n][m].req \in Request
              /\ rpc[n][m].status = "answered" => rpc[n][m].resp \in Response
         /\ \A q \in late[m] : q \in Request
<1>1. thread[n][m] \in Thread /\ rpc[n][m] \in Rpc \cup {NoRpc} /\ late[m] \in SUBSET Request
  BY DEF TypeOK
<1>2. thread[n][m].next \in Nat
  BY <1>1, LogAssumption DEF Thread
<1>3. rpc[n][m] \in Rpc => rpc[n][m].req \in Request
  BY DEF Rpc
<1>4. rpc[n][m] \in Rpc /\ rpc[n][m].status = "answered" => rpc[n][m].resp \in Response
  BY DEF Rpc
<1> QED BY <1>1, <1>2, <1>3, <1>4

\* The thread for m goes on from the same place.
LEMMA GrownNext ==
  ASSUME TypeOK, TypeOK', Grown, NEW L \in Node, NEW m \in Node, PeerRight(m, L),
         thread'[L][m].next = thread[L][m].next
  PROVE  thread'[L][m].next > 1 =>
           thread'[L][m].next <= Size(L)' \/ thread'[L][m].next - 1 <= Size(m)'
<1> DEFINE x == thread[L][m].next
           a == Size(L)
           b == Size(L)'
           c == Size(m)
           d == Size(m)'
<1>1. x \in Nat /\ a \in Nat /\ b \in Nat /\ a <= b /\ c \in Nat /\ d \in Nat /\ c <= d
  BY GrownSizes, PeerTyped
<1>2. x > 1 => x <= a \/ x - 1 <= c
  BY DEF PeerRight
<1> SUFFICES x > 1 => x <= b \/ x - 1 <= d
  OBVIOUS
<1> HIDE DEF x, a, b, c, d
<1> QED BY <1>1, <1>2

LEMMA GrownRpc ==
  ASSUME TypeOK, TypeOK', Grown, NEW L \in Node, NEW m \in Node, PeerRight(m, L),
         rpc'[L][m] = rpc[L][m], rpc[L][m] # NoRpc
  PROVE  /\ Sent(rpc[L][m].req, m, L)'
         /\ rpc'[L][m].status = "answered" =>
              Answers1(rpc[L][m].resp, rpc[L][m].req, m)'
<1> PICK q : q = rpc[L][m].req
  OBVIOUS
<1> PICK p : p = rpc[L][m].resp
  OBVIOUS
<1>1. q \in Request /\ Sent(q, m, L)
  BY PeerTyped DEF PeerRight
<1>2. rpc[L][m].status = "answered" => p \in Response /\ Answers1(p, q, m)
  BY PeerTyped DEF PeerRight
<1>3. Sent(q, m, L)' /\ (rpc[L][m].status = "answered" => Answers1(p, q, m)')
  BY <1>1, <1>2, GrownSent, GrownAnswers
<1>4. rpc'[L][m].req = q /\ rpc'[L][m].resp = p
  OBVIOUS
<1>5. Sent(rpc[L][m].req, m, L)'
  BY <1>3, <1>4 DEF Sent
<1>6. rpc'[L][m].status = "answered" => Answers1(rpc[L][m].resp, rpc[L][m].req, m)'
  BY <1>3, <1>4 DEF Answers1
<1> QED BY <1>5, <1>6

LEMMA GrownPeer ==
  ASSUME TypeOK, TypeOK', Grown, NEW L \in Node, NEW m \in Node, PeerRight(m, L),
         thread'[L][m] = thread[L][m], rpc'[L][m] = rpc[L][m], late'[m] \subseteq late[m]
  PROVE  PeerRight(m, L)'
<1>1. thread'[L][m].next > 1 =>
        thread'[L][m].next <= Size(L)' \/ thread'[L][m].next - 1 <= Size(m)'
  BY GrownNext
<1>2. thread'[L][m].at # "newterm" /\ (thread'[L][m].at = "send" => thread'[L][m].term = 1)
  BY DEF PeerRight
<1>3. \A q \in late'[m] : Sent(q, m, L)'
  BY GrownSent, PeerTyped DEF PeerRight
<1>4. rpc'[L][m] # NoRpc => Sent(rpc[L][m].req, m, L)'
  BY GrownRpc
<1>5. rpc'[L][m] # NoRpc /\ rpc'[L][m].status = "answered" =>
        Answers1(rpc[L][m].resp, rpc[L][m].req, m)'
  BY GrownRpc
<1> QED BY <1>1, <1>2, <1>3, <1>4, <1>5 DEF PeerRight

LEMMA GrownPeers ==
  ASSUME TypeOK, TypeOK', Grown, NEW L \in Node, PeerInv(L), thread' = thread, rpc' = rpc,
         late' = late, \A n \in Node : node'[n].cmds = node[n].cmds
  PROVE  PeerInv(L)'
<1>1. \A m \in Node \ {L} : PeerRight(m, L)'
  BY GrownPeer DEF PeerInv
<1> QED BY <1>1 DEF PeerInv

LEMMA BeginsOn ==
  ASSUME NEW f \in Seq(Entry), NEW g \in Seq(Entry), NEW h \in Seq(Entry),
         Begins(f, g), Begins(g, h)
  PROVE  Begins(f, h)
<1>1. Len(f) \in Nat /\ Len(g) \in Nat /\ Len(h) \in Nat
  OBVIOUS
<1> QED BY <1>1 DEF Begins

\* The committer of a node whose committed_index_ stays.
LEMMA GrownStage ==
  ASSUME TypeOK, TypeOK', Grown, NEW n \in Node, Stands(committing[n], node[n].committed, F(n)),
         committing'[n] = committing[n], node'[n].committed = node[n].committed
  PROVE  Stands(committing[n], node[n].committed, F(n))'
<1>1. committing[n] \in Seq(Entry) /\ node[n].committed \in Nat
  BY DEF TypeOK, NodeState, Index
<1> PICK es : es = committing[n]
  OBVIOUS
<1> PICK i : i = node[n].committed
  OBVIOUS
<1>2. Stands(es, i, F(n)')
  BY <1>1, GrownStands
<1>3. committing'[n] = es /\ node'[n].committed = i
  OBVIOUS
<1> QED BY <1>2, <1>3

LEMMA GrownApplied ==
  ASSUME TypeOK, TypeOK', Grown, NEW L \in Node, NEW n \in Node, Begins(applied[n], F(L)),
         applied'[n] = applied[n]
  PROVE  Begins(applied[n], F(L))'
<1>1. applied[n] \in Seq(Entry) /\ F(L) \in Seq(Entry) /\ F(L)' \in Seq(Entry)
  BY FilesTyped, FilesTypedNext DEF TypeOK
<1>2. Begins(F(L), F(L)')
  BY DEF Grown
<1>3. Begins(applied[n], F(L)')
  BY <1>1, <1>2, BeginsOn
<1> QED BY <1>3

LEMMA GrownCommitter ==
  ASSUME TypeOK, TypeOK', Grown, NEW L \in Node, CommitterInv(L), committing' = committing,
         applied' = applied, OnlyAnswers(node'[L]), node'[L].committed <= Size(L)',
         \A n \in Node \ {L} : node'[n].committed = node[n].committed
  PROVE  CommitterInv(L)'
<1>1. \A n \in Node \ {L} : Stands(committing[n], node[n].committed, F(n))'
  BY GrownStage DEF CommitterInv
<1>2. Stands(committing[L], node[L].committed, F(L))'
  <2>1. committing'[L] = <<>>
    BY DEF CommitterInv
  <2>2. node'[L].committed \in Nat /\ Size(L)' = Len(F(L)')
    BY FilesTypedNext DEF NodeState, Index
  <2>3. node'[L].committed + Len(committing'[L]) <= Len(F(L)')
    <3>1. Len(committing'[L]) = 0
      BY <2>1
    <3> QED BY <2>2, <3>1
  <2>4. \A k \in 1 .. Len(committing'[L]) : FALSE
    BY <2>1
  <2> QED BY <2>3, <2>4 DEF Stands
<1>3. \A n \in Node \ {L} : Begins(applied[n], F(L))'
  BY GrownApplied DEF CommitterInv
<1> QED BY <1>1, <1>2, <1>3 DEF CommitterInv, OnlyAnswers

LEMMA GrownHolds ==
  ASSUME TypeOK, TypeOK', Grown, NEW L \in Node, HeldInv(L), answers' = answers,
         \A n \in Node : NoNewSuccess(node[n], node'[n]),
         node'[L].committed = node[L].committed
  PROVE  HeldInv(L)'
<1>1. node'[L].committed > 0 => \E m \in Node \ {L} : node'[L].committed <= Size(m)'
  <2> SUFFICES ASSUME node'[L].committed > 0
               PROVE  \E m \in Node \ {L} : node'[L].committed <= Size(m)'
    OBVIOUS
  <2>1. PICK m \in Node \ {L} : node[L].committed <= Size(m)
    BY DEF HeldInv
  <2>2. node[L].committed \in Nat /\ Size(m) \in Nat /\ Size(m)' \in Nat /\ Size(m) <= Size(m)'
    <3>1. node[L].committed \in Nat
      BY DEF TypeOK, NodeState, Index
    <3> QED BY <3>1, GrownSizes
  <2> DEFINE x == node[L].committed
             a == Size(m)
             b == Size(m)'
  <2>3. x \in Nat /\ a \in Nat /\ b \in Nat /\ a <= b /\ x <= a /\ node'[L].committed = x
    BY <2>1, <2>2
  <2>4. x <= b
    <3> HIDE DEF x, a, b
    <3> QED BY <2>3
  <2> QED BY <2>3, <2>4
<1>2. ASSUME NEW n \in Node, NEW k \in 1 .. Len(node'[n].tasks), Succeeds(node'[n].tasks[k])
      PROVE  Held(node[n].tasks[k].call, L)'
  <2>1. PICK j \in 1 .. Len(node[n].tasks) : node[n].tasks[j] = node'[n].tasks[k]
    BY <1>2 DEF NoNewSuccess
  <2>2. node[n].tasks \in Seq(Task)
    BY DEF TypeOK, NodeState
  <2>3. node[n].tasks[j] \in Task
    BY <2>2, LenRight
  <2> PICK c : c = node[n].tasks[j].call
    OBVIOUS
  <2>4. c \in Calls
    BY <1>2, <2>1, <2>3 DEF Succeeds, Task
  <2>5. Held(c, L)
    BY <1>2, <2>1 DEF HeldInv
  <2>6. Held(c, L)'
    BY <2>4, <2>5, GrownHeld
  <2> QED BY <2>1, <2>6 DEF Held
<1>3. \A c \in Calls : \A k \in 1 .. Len(answers'[c]) : answers'[c][k] => Held(c, L)'
  BY GrownHeld DEF HeldInv
<1> QED BY <1>1, <1>2, <1>3 DEF HeldInv

\* The leader stays the leader.
LEMMA StillRuled ==
  ASSUME NEW L \in Node, Ruled(L),
         \A n \in Node : /\ node'[n].term \in {node[n].term, 1}
                         /\ node'[n].state = "leader" <=> node[n].state = "leader"
  PROVE  Ruled(L)'
<1>1. PICK S \in SUBSET Node : /\ Cardinality(S) = Cardinality(Node) \div 2 + 1
                               /\ \A v \in S : node[v].term = 1
  BY DEF Ruled
<1>2. \A v \in S : node'[v].term = 1
  BY <1>1
<1> QED BY <1>1, <1>2 DEF Ruled

-----------------------------------------------------------------------------
(* Steps that leave the logs alone.                                        *)

Calm(L) ==
  /\ \A n \in Node :
       /\ node'[n].term = node[n].term /\ node'[n].state = node[n].state
       /\ node'[n].file = node[n].file /\ node'[n].last = node[n].last
       /\ node'[n].committed = node[n].committed /\ node'[n].fault = node[n].fault
       /\ NoNewSuccess(node[n], node'[n])
  /\ OnlyAnswers(node[L]) => OnlyAnswers(node'[L])
  /\ committing' = committing /\ applied' = applied /\ answers' = answers

LEMMA CalmGrown ==
  ASSUME TypeOK, NEW L \in Node, Calm(L)
  PROVE  Grown
<1>1. \A n \in Node : F(n)' = F(n) /\ Len(F(n)) \in Nat
  BY FilesTyped DEF Calm, F
<1> QED BY <1>1 DEF Grown, Begins

\* L leads on, and neither its log nor what is applied changes.
Stays(L) == Led(L)' /\ F(L)' = F(L) /\ applied' = applied

LEMMA CalmStep ==
  ASSUME LogInv, LogInv', NEW L \in Node, Led(L), Calm(L), CalledInv(L)', PeerInv(L)'
  PROVE  Stays(L)
<1>0. TypeOK /\ TypeOK' /\ Grown
  BY CalmGrown DEF LogInv
<1>1. Ruled(L)'
  BY StillRuled DEF Led, Calm
<1>2. FilesInv(L)'
  BY DEF Led, FilesInv, Calm, F, Size
<1>3. CommitterInv(L)'
  <2>1. node'[L].committed <= Size(L)'
    BY <1>2 DEF FilesInv
  <2> QED BY <1>0, <2>1, GrownCommitter DEF Led, Calm, CommitterInv
<1>4. HeldInv(L)'
  BY <1>0, GrownHolds DEF Led, Calm
<1>5. F(L)' = F(L) /\ applied' = applied
  BY DEF Calm, F
<1> QED BY <1>1, <1>2, <1>3, <1>4, <1>5 DEF Led, Stays

LEMMA CalmStill ==
  ASSUME NEW L \in Node, node' = node, committing' = committing, UNCHANGED historyVars
  PROVE  Calm(L)
BY NoneNew DEF Calm, historyVars

\* A step of a call.
LEMMA CalmCalls ==
  ASSUME LogInv, LogInv', NEW L \in Node, Led(L), Calm(L), UNCHANGED rpcVars,
         \A n \in Node : node'[n].cmds = node[n].cmds,
         NEW c \in Calls, CallRight(c, L)',
         \A b \in Calls \ {c} : call'[b] = call[b]
  PROVE  Stays(L)
<1>0. TypeOK /\ TypeOK' /\ Grown
  BY CalmGrown DEF LogInv
<1>1. CalledInv(L)'
  BY <1>0, GrownCall DEF Led, CalledInv
<1>2. PeerInv(L)'
  BY <1>0, GrownPeers DEF Led, rpcVars
<1> QED BY <1>1, <1>2, CalmStep

\* The step changes call c only, in members that CallRight does not read.
LEMMA SameCall ==
  ASSUME LogInv, NEW L \in Node, Led(L), Calm(L), NEW c \in Calls,
         call'[c].at = call[c].at, call'[c].node = call[c].node,
         call'[c].term = call[c].term, call'[c].index = call[c].index
  PROVE  CallRight(c, L)'
BY DEF Led, CalledInv, CallRight, Calm, F, Size

LEMMA LedAsk ==
  ASSUME LogInv, LogInv', NEW L \in Node, Led(L), NEW c \in Calls, NEW n \in Node, Ask(c, n)
  PROVE  Stays(L)
<1>1. n = L
  BY DEF Ask, Led, Ruled
<1>2. call[c] \in CallState
  BY DEF LogInv, TypeOK
<1>3. /\ call'[c].at = "asked" /\ call'[c].node = L
      /\ \A b \in Calls \ {c} : call'[b] = call[b]
  BY <1>1, <1>2 DEF Ask, LogInv, TypeOK, CallState
<1>4. CallRight(c, L)'
  BY <1>3 DEF CallRight
<1>5. Calm(L) /\ UNCHANGED rpcVars /\ \A m \in Node : node'[m].cmds = node[m].cmds
  BY CalmStill DEF Ask, historyVars
<1> QED BY <1>3, <1>4, <1>5, CalmCalls

LEMMA LedStamp ==
  ASSUME LogInv, LogInv', NEW L \in Node, Led(L), NEW c \in Calls, Stamp(c)
  PROVE  Stays(L)
<1>1. call[c].node = L /\ node[L].term = 1
  BY DEF Stamp, Led, CalledInv, CallRight, Ruled
<1>2. call[c] \in CallState
  BY DEF LogInv, TypeOK
<1>3. /\ call'[c].at = "stamped" /\ call'[c].node = L /\ call'[c].term = 1
      /\ \A b \in Calls \ {c} : call'[b] = call[b]
  BY <1>1, <1>2 DEF Stamp, LogInv, TypeOK, CallState
<1>4. CallRight(c, L)'
  BY <1>3 DEF CallRight
<1>5. Calm(L) /\ UNCHANGED rpcVars /\ \A m \in Node : node'[m].cmds = node[m].cmds
  BY CalmStill DEF Stamp, historyVars
<1> QED BY <1>3, <1>4, <1>5, CalmCalls

LEMMA LedDue ==
  ASSUME LogInv, LogInv', NEW L \in Node, Led(L), NEW c \in Calls, Due(c)
  PROVE  Stays(L)
<1>1. call[c] \in CallState
  BY DEF LogInv, TypeOK
<1>2. Calm(L) /\ UNCHANGED rpcVars /\ \A m \in Node : node'[m].cmds = node[m].cmds
  BY CalmStill DEF Due, historyVars
<1>3. /\ call'[c].at = call[c].at /\ call'[c].node = call[c].node
      /\ call'[c].term = call[c].term /\ call'[c].index = call[c].index
      /\ \A b \in Calls \ {c} : call'[b] = call[b]
  BY <1>1 DEF Due, LogInv, TypeOK, CallState
<1>4. CallRight(c, L)'
  BY <1>2, <1>3, SameCall
<1> QED BY <1>2, <1>3, <1>4, CalmCalls

\* A step of a call in node n that leaves the callbacks as s has them.
LEMMA CalmOne ==
  ASSUME LogInv, NEW L \in Node, NEW n \in Node, NEW s, node' = [node EXCEPT ![n] = s],
         s.term = node[n].term, s.state = node[n].state, s.file = node[n].file,
         s.last = node[n].last, s.committed = node[n].committed, s.fault = node[n].fault,
         NoNewSuccess(node[n], s), OnlyAnswers(node[n]) => OnlyAnswers(s),
         committing' = committing, UNCHANGED historyVars
  PROVE  Calm(L)
<1>1. node'[n] = s /\ \A m \in Node \ {n} : node'[m] = node[m]
  BY DEF LogInv, TypeOK
<1>2. \A m \in Node \ {n} : NoNewSuccess(node[m], node'[m])
  BY <1>1, NoneNew
<1>3. OnlyAnswers(node[L]) => OnlyAnswers(node'[L])
  BY <1>1
<1>4. \A m \in Node :
       /\ node'[m].term = node[m].term /\ node'[m].state = node[m].state
       /\ node'[m].file = node[m].file /\ node'[m].last = node[m].last
       /\ node'[m].committed = node[m].committed /\ node'[m].fault = node[m].fault
  BY <1>1
<1> QED BY <1>1, <1>2, <1>3, <1>4 DEF Calm, historyVars

LEMMA LedRegister ==
  ASSUME LogInv, LogInv', NEW L \in Node, Led(L), NEW c \in Calls, Register(c)
  PROVE  Stays(L)
<1> DEFINE n == call[c].node
           cb == [index |-> call[c].index, waits |-> MajorityLess1, call |-> c]
           there == \E b \in node[n].callbacks : b.index = cb.index
           cbs == IF there THEN node[n].callbacks ELSE node[n].callbacks \cup {cb}
           s == [node[n] EXCEPT !.callbacks = cbs]
<1>1. call[c] \in CallState /\ n = L
  BY DEF LogInv, TypeOK, Register, Led, CalledInv, CallRight
<1>2. node[n] \in NodeState
  BY <1>1 DEF LogInv, TypeOK
<1>3. node' = [node EXCEPT ![n] = s]
  BY DEF Register
<1> HIDE DEF cbs
<1>4. /\ s.term = node[n].term /\ s.state = node[n].state /\ s.file = node[n].file
      /\ s.last = node[n].last /\ s.committed = node[n].committed /\ s.fault = node[n].fault
      /\ s.tasks = node[n].tasks /\ s.cmds = node[n].cmds
  BY <1>2 DEF NodeState
<1> HIDE DEF s
<1>5. NoNewSuccess(node[n], s) /\ (OnlyAnswers(node[n]) => OnlyAnswers(s))
  BY <1>4, NoneNew DEF OnlyAnswers
<1>6. Calm(L)
  <2>1. committing' = committing /\ UNCHANGED historyVars
    BY DEF Register
  <2> QED BY <1>1, <1>3, <1>4, <1>5, <2>1, CalmOne
<1>7. UNCHANGED rpcVars /\ \A m \in Node : node'[m].cmds = node[m].cmds
  BY <1>1, <1>3, <1>4 DEF Register, LogInv, TypeOK
<1>8. /\ call[c].at = "written" /\ call'[c].at = "done" /\ call'[c].node = call[c].node
      /\ call'[c].term = call[c].term /\ call'[c].index = call[c].index
      /\ \A b \in Calls \ {c} : call'[b] = call[b]
  BY <1>1 DEF Register, LogInv, TypeOK, CallState
<1>9. CallRight(c, L)'
  BY <1>6, <1>8 DEF Led, CalledInv, CallRight, Calm, F, Size
<1> QED BY <1>6, <1>7, <1>8, <1>9, CalmCalls

LEMMA LedExpire ==
  ASSUME LogInv, LogInv', NEW L \in Node, Led(L), NEW c \in Calls, Expire(c)
  PROVE  Stays(L)
<1> DEFINE n == call[c].node
           cbs == {cb \in node[n].callbacks : cb.index = call[c].index}
           s == [node[n] EXCEPT !.callbacks = @ \ cbs, !.tasks = @ \o Refusals(cbs)]
<1>1. call[c] \in CallState /\ n = L
  <2>1. call[c].at # "new"
    BY DEF LogInv, CallInv, Expire
  <2> QED BY <2>1 DEF LogInv, TypeOK, Led, CalledInv, CallRight
<1>2. node[n] \in NodeState /\ NodeRight(node[n])
  BY <1>1 DEF LogInv, TypeOK, CallbackInv, NodeRight
<1>3. node' = [node EXCEPT ![n] = s]
  BY <1>1 DEF Expire, LogInv, TypeOK
<1>4. /\ s.term = node[n].term /\ s.state = node[n].state /\ s.file = node[n].file
      /\ s.last = node[n].last /\ s.committed = node[n].committed /\ s.fault = node[n].fault
      /\ s.tasks = node[n].tasks \o Refusals(cbs) /\ s.cmds = node[n].cmds
  BY <1>2 DEF NodeState
<1> HIDE DEF s
<1>5. NoNewSuccess(node[n], s) /\ (OnlyAnswers(node[n]) => OnlyAnswers(s))
  <2>1. cbs \in SUBSET node[n].callbacks
    OBVIOUS
  <2> HIDE DEF cbs, n
  <2>2. Unsuccessful(node[n], s) /\ (OnlyAnswers(node[n]) => OnlyAnswers(s))
    BY <1>2, <1>4, <2>1, RefusalsRight
  <2> QED BY <2>2, NoneNew
<1>6. Calm(L)
  <2>1. committing' = committing /\ UNCHANGED historyVars
    BY DEF Expire
  <2> QED BY <1>1, <1>3, <1>4, <1>5, <2>1, CalmOne
<1>7. UNCHANGED rpcVars /\ \A m \in Node : node'[m].cmds = node[m].cmds
  BY <1>1, <1>3, <1>4 DEF Expire, LogInv, TypeOK
<1>8. /\ call'[c].at = call[c].at /\ call'[c].node = call[c].node
      /\ call'[c].term = call[c].term /\ call'[c].index = call[c].index
      /\ \A b \in Calls \ {c} : call'[b] = call[b]
  BY <1>1 DEF Expire, LogInv, TypeOK, CallState
<1>9. CallRight(c, L)'
  BY <1>6, <1>8, SameCall
<1> QED BY <1>6, <1>7, <1>8, <1>9, CalmCalls

-----------------------------------------------------------------------------
(* The leader's log grows.                                                 *)

LEMMA AppendRight ==
  ASSUME NEW f \in Seq(Entry), Counted(f), \A k \in 1 .. Len(f) : f[k].term = 1,
         NEW e \in Entry, e.index = Len(f) + 1, e.term = 1
  PROVE  /\ Counted(Append(f, e)) /\ Begins(f, Append(f, e))
         /\ \A k \in 1 .. Len(Append(f, e)) : Append(f, e)[k].term = 1
<1> DEFINE g == Append(f, e)
           n == Len(f)
<1>1. /\ n \in Nat /\ Len(g) = n + 1 /\ \A i \in 1 .. n : g[i] = f[i]
      /\ g[n + 1] = e
  BY AppendTo
<1> HIDE DEF g, n
<1>2. \A k \in 1 .. Len(g) : k \in 1 .. n \/ k = n + 1
  BY <1>1
<1>3. \A k \in 1 .. n : f[k].index = k /\ f[k].term = 1
  BY DEF Counted, n
<1>4. e.index = n + 1
  BY DEF n
<1>5. \A k \in 1 .. Len(g) : g[k].index = k /\ g[k].term = 1
  BY <1>1, <1>2, <1>3, <1>4
<1>6. n <= Len(g)
  BY <1>1
<1> QED BY <1>1, <1>5, <1>6 DEF Counted, Begins, g, n

LEMMA BeginsSelf ==
  ASSUME NEW f \in Seq(Entry)
  PROVE  Begins(f, f)
BY DEF Begins

LEMMA LedWriteEntry ==
  ASSUME LogInv, LogInv', NEW L \in Node, Led(L), NEW c \in Calls, WriteEntry(c)
  PROVE  /\ Led(L)' /\ applied' = applied
         /\ \E e \in Entry : F(L)' = Append(F(L), e)
<1> DEFINE n == call[c].node
           i == node[n].last + 1
           e == [index |-> i, term |-> call[c].term, data |-> c]
           s == WriteFile(node[n], e)
<1>0. TypeOK /\ TypeOK'
  BY DEF LogInv
<1>1. call[c] \in CallState /\ n = L /\ call[c].term = 1
  BY DEF LogInv, TypeOK, WriteEntry, Led, CalledInv, CallRight
<1>2. node[L] \in NodeState /\ node[L].last = Size(L) /\ F(L) \in Seq(Entry)
      /\ Size(L) = Len(F(L)) /\ Size(L) \in Nat
  BY <1>0, FilesTyped DEF Led, FilesInv
<1>3. i = Len(F(L)) + 1 /\ i \in Index /\ node' = [node EXCEPT ![L] = s]
  BY <1>1, <1>2 DEF WriteEntry
<1>4. e \in Entry /\ e.index = Len(F(L)) + 1 /\ e.term = 1 /\ e.data = c
  BY <1>1, <1>3 DEF Entry, CallState
<1> HIDE DEF e
<1>5. /\ s.term = node[L].term /\ s.state = node[L].state /\ s.file = Append(F(L), e)
      /\ s.last = e.index /\ s.committed = node[L].committed /\ s.fault = node[L].fault
      /\ s.tasks = node[L].tasks /\ s.cmds = node[L].cmds
  BY <1>1, <1>2 DEF NodeState, WriteFile, F
<1> HIDE DEF s
<1>6. node'[L] = s /\ \A m \in Node \ {L} : node'[m] = node[m]
  BY <1>0, <1>3 DEF TypeOK
<1>7. F(L)' = Append(F(L), e) /\ \A m \in Node \ {L} : F(m)' = F(m)
  BY <1>5, <1>6 DEF F
<1>8. /\ Counted(F(L)') /\ Begins(F(L), F(L)')
      /\ \A k \in 1 .. Len(F(L)') : F(L)'[k].term = 1
  <2>1. Counted(F(L)) /\ \A k \in 1 .. Len(F(L)) : F(L)[k].term = 1
    BY <1>2 DEF Led, FilesInv
  <2> QED BY <1>2, <1>4, <1>7, <2>1, AppendRight
<1>9. Grown
  <2>1. ASSUME NEW m \in Node PROVE Begins(F(m), F(m)')
    BY <1>0, <1>7, <1>8, FilesTyped, BeginsSelf
  <2> QED BY <2>1 DEF Grown
<1>10. FilesInv(L)'
  <2>1. ASSUME NEW m \in Node
        PROVE  /\ Begins(F(m), F(L))' /\ node'[m].last = Size(m)'
               /\ node'[m].fault = "none" /\ node'[m].committed <= Size(m)'
    <3>1. Begins(F(m)', F(L)')
      <4>1. CASE m = L
        BY <1>0, <4>1, BeginsSelf, FilesTypedNext
      <4>2. CASE m # L
        <5>1. Begins(F(m), F(L)) /\ F(m)' = F(m)
          BY <1>7, <4>2 DEF Led, FilesInv
        <5> QED BY <1>0, <1>8, <5>1, BeginsOn, FilesTyped, FilesTypedNext
      <4> QED BY <4>1, <4>2
    <3>2. node'[m].last = Size(m)'
      <4>1. CASE m = L
        <5>1. Len(Append(F(L), e)) = Len(F(L)) + 1
          BY <1>2, <1>4, AppendTo
        <5> QED BY <1>4, <1>5, <1>6, <1>7, <4>1, <5>1 DEF Size, F
      <4>2. CASE m # L
        BY <1>6, <4>2 DEF Led, FilesInv, Size
      <4> QED BY <4>1, <4>2
    <3>3. node'[m].fault = "none" /\ node'[m].committed = node[m].committed
      BY <1>5, <1>6 DEF Led, FilesInv
    <3>4. node'[m].committed <= Size(m)'
      <4> DEFINE x == node[m].committed
                 a == Size(m)
                 b == Size(m)'
      <4>1. a \in Nat /\ b \in Nat /\ a <= b
        BY <1>0, <1>9, GrownSizes
      <4>2. x \in Nat /\ x <= a
        <5>1. x <= a
          BY DEF Led, FilesInv
        <5>2. x \in Nat
          BY <1>0 DEF TypeOK, NodeState, Index
        <5> QED BY <5>1, <5>2
      <4>3. x <= b
        <5> HIDE DEF x, a, b
        <5> QED BY <4>1, <4>2
      <4> QED BY <3>3, <4>3
    <3> QED BY <3>1, <3>2, <3>3, <3>4
  <2>2. Counted(F(L))' /\ \A k \in 1 .. Size(L)' : F(L)'[k].term = 1
    BY <1>0, <1>8, FilesTypedNext
  <2> QED BY <2>1, <2>2 DEF FilesInv
<1>11. Ruled(L)'
  <2>1. \A m \in Node : node'[m].term = node[m].term /\ node'[m].state = node[m].state
    BY <1>5, <1>6
  <2> QED BY <2>1, StillRuled DEF Led
<1>12. CalledInv(L)'
  <2>1. /\ call'[c].at = "written" /\ call'[c].node = L /\ call'[c].term = 1
        /\ call'[c].index = e.index
        /\ \A b \in Calls \ {c} : call'[b] = call[b]
    <3>1. call'[c] = [call[c] EXCEPT !.at = "written", !.index = i, !.timer = "set"]
          /\ \A b \in Calls \ {c} : call'[b] = call[b]
      BY <1>0 DEF WriteEntry, TypeOK
    <3> QED BY <1>1, <1>3, <1>4, <3>1 DEF CallState
  <2>2. CallRight(c, L)'
    <3>1. e.index \in 1 .. Size(L)' /\ F(L)'[e.index] = e
      <4> DEFINE k == Len(F(L))
      <4>1. k \in Nat /\ Size(L)' = k + 1 /\ e.index = k + 1 /\ Append(F(L), e)[k + 1] = e
        <5>1. Len(Append(F(L), e)) = k + 1 /\ Append(F(L), e)[k + 1] = e
          BY <1>2, <1>4, AppendTo
        <5>2. Size(L)' = Len(F(L)')
          BY <1>0, FilesTypedNext
        <5> QED BY <1>2, <1>4, <1>7, <5>1, <5>2
      <4> HIDE DEF k
      <4>2. e.index \in 1 .. Size(L)'
        BY <4>1
      <4> QED BY <1>7, <4>1, <4>2
    <3> QED BY <1>4, <2>1, <3>1 DEF CallRight
  <2>3. \A b \in Calls \ {c} : CallRight(b, L)'
    BY <1>0, <1>9, <2>1, GrownCall DEF Led, CalledInv
  <2> QED BY <2>2, <2>3 DEF CalledInv
<1>13. PeerInv(L)'
  <2>1. \A m \in Node : node'[m].cmds = node[m].cmds
    BY <1>5, <1>6
  <2> QED BY <1>0, <1>9, <2>1, GrownPeers DEF Led, WriteEntry, rpcVars
<1>14. CommitterInv(L)'
  <2>1. OnlyAnswers(node'[L])
    BY <1>5, <1>6 DEF Led, CommitterInv, OnlyAnswers
  <2>2. node'[L].committed <= Size(L)' /\ \A m \in Node \ {L} : node'[m].committed = node[m].committed
    BY <1>6, <1>10 DEF FilesInv
  <2> QED BY <1>0, <1>9, <2>1, <2>2, GrownCommitter DEF Led, WriteEntry, historyVars
<1>15. HeldInv(L)'
  <2>1. \A m \in Node : NoNewSuccess(node[m], node'[m])
    BY <1>5, <1>6, NoneNew
  <2>2. node'[L].committed = node[L].committed /\ answers' = answers
    BY <1>5, <1>6 DEF WriteEntry, historyVars
  <2> QED BY <1>0, <1>9, <2>1, <2>2, GrownHolds DEF Led
<1> QED BY <1>4, <1>7, <1>10, <1>11, <1>12, <1>13, <1>14, <1>15 DEF Led, WriteEntry, historyVars

-----------------------------------------------------------------------------
(* The leader's peer threads.                                              *)

\* Nothing but what belongs to the peer m of L.
OnlyPeer(L, m) ==
  /\ \A n \in Node, k \in Node \ {m} :
       /\ thread'[n][k] = thread[n][k] /\ rpc'[n][k] = rpc[n][k] /\ late'[k] = late[k]
       /\ node'[n].cmds[k] = node[n].cmds[k]
  /\ \A n \in Node \ {L} :
       /\ thread'[n][m] = thread[n][m] /\ rpc'[n][m] = rpc[n][m]
       /\ node'[n].cmds[m] = node[n].cmds[m]

LEMMA OnlyPeerStep ==
  ASSUME TypeOK, TypeOK', Grown, NEW L \in Node, PeerInv(L), NEW m \in Node \ {L},
         OnlyPeer(L, m), PeerRight(m, L)'
  PROVE  PeerInv(L)'
<1>1. ASSUME NEW n \in Node \ {L}, NEW k \in Node
      PROVE  thread'[n][k] = IdleThread /\ rpc'[n][k] = NoRpc /\ node'[n].cmds[k] = <<>>
  <2>1. thread[n][k] = IdleThread /\ rpc[n][k] = NoRpc /\ node[n].cmds[k] = <<>>
    BY DEF PeerInv
  <2>2. thread'[n][k] = thread[n][k] /\ rpc'[n][k] = rpc[n][k] /\ node'[n].cmds[k] = node[n].cmds[k]
    BY DEF OnlyPeer
  <2> QED BY <2>1, <2>2
<1>2. ASSUME NEW k \in Node \ {L} PROVE PeerRight(k, L)'
  <2>1. CASE k = m
    BY <2>1
  <2>2. CASE k # m
    <3>1. thread'[L][k] = thread[L][k] /\ rpc'[L][k] = rpc[L][k] /\ late'[k] = late[k]
      BY <2>2 DEF OnlyPeer
    <3>2. PeerRight(k, L)
      BY DEF PeerInv
    <3> QED BY <3>1, <3>2, GrownPeer
  <2> QED BY <2>1, <2>2
<1>3. late'[L] = {}
  BY DEF PeerInv, OnlyPeer
<1> QED BY <1>1, <1>2, <1>3 DEF PeerInv

LEMMA CalmPeer ==
  ASSUME LogInv, LogInv', NEW L \in Node, Led(L), Calm(L), call' = call, NEW m \in Node \ {L},
         OnlyPeer(L, m), PeerRight(m, L)'
  PROVE  Stays(L)
<1>0. TypeOK /\ TypeOK' /\ Grown
  BY CalmGrown DEF LogInv
<1>1. CalledInv(L)'
  BY <1>0, GrownCall DEF Led, CalledInv
<1>2. PeerInv(L)'
  BY <1>0, OnlyPeerStep DEF Led
<1> QED BY <1>1, <1>2, CalmStep

\* A step of the thread for m that leaves nodes and requests alone.
LEMMA CalmThread ==
  ASSUME LogInv, LogInv', NEW L \in Node, Led(L), NEW m \in Node \ {L}, NEW t,
         thread' = [thread EXCEPT ![L][m] = t], node' = node, call' = call, Keep,
         NEW r, rpc' = [rpc EXCEPT ![L][m] = r], NEW qs, late' = [late EXCEPT ![m] = qs],
         PeerRight(m, L)'
  PROVE  Stays(L)
<1>0. TypeOK
  BY DEF LogInv
<1>1. Calm(L)
  BY CalmStill DEF Keep, historyVars
<1>2. OnlyPeer(L, m)
  BY <1>0 DEF OnlyPeer, TypeOK
<1> QED BY <1>1, <1>2, CalmPeer

LEMMA SameEntry ==
  ASSUME TypeOK, NEW n \in Node, NEW m \in Node
  PROVE  /\ rpc = [rpc EXCEPT ![n][m] = rpc[n][m]]
         /\ late = [late EXCEPT ![m] = late[m]]
BY DEF TypeOK

\* What PeerRight says of the requests stays, when they do.
LEMMA StillRequests ==
  ASSUME LogInv, NEW L \in Node, Led(L), NEW m \in Node \ {L}, node' = node,
         rpc'[L][m] = NoRpc \/ rpc'[L][m] = rpc[L][m], late'[m] = late[m]
  PROVE  /\ (rpc[L][m] # NoRpc => Sent(rpc[L][m].req, m, L))'
         /\ (rpc[L][m] # NoRpc /\ rpc[L][m].status = "answered" =>
               Answers1(rpc[L][m].resp, rpc[L][m].req, m))'
         /\ (\A q \in late[m] : Sent(q, m, L))'
         /\ Size(L)' = Size(L) /\ Size(m)' = Size(m)
<1>1. PeerRight(m, L)
  BY DEF Led, PeerInv
<1>2. rpc'[L][m] # NoRpc => Sent(rpc[L][m].req, m, L)'
  BY <1>1 DEF PeerRight, Sent, F, Size
<1>3. rpc'[L][m] # NoRpc /\ rpc'[L][m].status = "answered" =>
        Answers1(rpc[L][m].resp, rpc[L][m].req, m)'
  BY <1>1 DEF PeerRight, Answers1, F, Size
<1>4. \A q \in late'[m] : Sent(q, m, L)'
  BY <1>1 DEF PeerRight, Sent, F, Size
<1> QED BY <1>2, <1>3, <1>4 DEF Size

LEMMA OthersOf ==
  ASSUME NEW n \in Node, NEW m \in Others(n)
  PROVE  m \in Node \ {n}
BY DEF Others

LEMMA LedTakeCommand ==
  ASSUME LogInv, LogInv', NEW L \in Node, Led(L), NEW n \in Node, NEW m \in Others(n),
         TakeCommand(n, m)
  PROVE  Stays(L)
<1>0. TypeOK /\ m \in Node \ {n}
  BY OthersOf DEF LogInv
<1>1. n = L
  BY <1>0 DEF TakeCommand, Led, PeerInv
<1> DEFINE t == IF Head(node[n].cmds[m]) = "append" THEN [IdleThread EXCEPT !.at = "look"]
                ELSE IdleThread
           cs == Tail(node[n].cmds[m])
           s == [node[n] EXCEPT !.cmds[m] = cs]
<1>2. thread' = [thread EXCEPT ![L][m] = t]
  BY <1>1 DEF TakeCommand
<1>3. node[L] \in NodeState
  BY <1>0 DEF TypeOK
<1>4. node' = [node EXCEPT ![n] = s]
  BY <1>0 DEF TakeCommand, TypeOK
<1> HIDE DEF cs
<1>5. /\ s.term = node[n].term /\ s.state = node[n].state /\ s.file = node[n].file
      /\ s.last = node[n].last /\ s.committed = node[n].committed /\ s.fault = node[n].fault
      /\ s.tasks = node[n].tasks /\ \A k \in Node \ {m} : s.cmds[k] = node[n].cmds[k]
  BY <1>1, <1>3 DEF NodeState
<1> HIDE DEF s
<1>6. Calm(L)
  <2>1. NoNewSuccess(node[n], s) /\ (OnlyAnswers(node[n]) => OnlyAnswers(s))
    BY <1>5, NoneNew DEF OnlyAnswers
  <2>2. committing' = committing /\ UNCHANGED historyVars
    BY DEF TakeCommand, Keep
  <2> QED BY <1>4, <1>5, <2>1, <2>2, CalmOne
<1>7. OnlyPeer(L, m)
  <2>1. node'[n] = s /\ \A k \in Node \ {n} : node'[k] = node[k]
    BY <1>0, <1>4 DEF TypeOK
  <2>2. rpc' = rpc /\ late' = late
    BY DEF TakeCommand
  <2>3. \A k \in Node, j \in Node : (k = L /\ j = m) \/ thread'[k][j] = thread[k][j]
    BY <1>0, <1>2 DEF TypeOK
  <2>4. \A k \in Node \ {L} : node'[k].cmds = node[k].cmds
    BY <1>1, <2>1
  <2>5. \A j \in Node \ {m} : node'[L].cmds[j] = node[L].cmds[j]
    BY <1>1, <1>5, <2>1
  <2>6. \A k \in Node, j \in Node \ {m} : node'[k].cmds[j] = node[k].cmds[j]
    BY <2>4, <2>5
  <2> QED BY <1>0, <1>1, <2>2, <2>3, <2>4, <2>6 DEF OnlyPeer
<1>8. PeerRight(m, L)'
  <2>1. thread'[L][m] = t
    BY <1>0, <1>1, <1>2 DEF TypeOK
  <2>2. t.at \in {"look", "idle"} /\ t.next = 0
    BY DEF IdleThread
  <2>3. rpc' = rpc /\ late' = late
    BY DEF TakeCommand
  <2>4. PeerRight(m, L)
    BY <1>0, <1>1 DEF Led, PeerInv
  <2>5. \A k \in Node : F(k)' = F(k) /\ Size(k)' = Size(k)
    BY <1>6 DEF Calm, F, Size
  <2>6. rpc'[L][m] # NoRpc => Sent(rpc[L][m].req, m, L)'
    BY <1>0, <2>3, <2>4, <2>5 DEF PeerRight, Sent
  <2>7. rpc'[L][m] # NoRpc /\ rpc'[L][m].status = "answered" =>
          Answers1(rpc[L][m].resp, rpc[L][m].req, m)'
    BY <1>0, <2>3, <2>4, <2>5 DEF PeerRight, Answers1
  <2>8. \A q \in late'[m] : Sent(q, m, L)'
    BY <1>0, <2>3, <2>4, <2>5 DEF PeerRight, Sent
  <2> HIDE DEF t
  <2>9. thread'[L][m].at # "newterm" /\ thread'[L][m].at # "send" /\ ~(thread'[L][m].next > 1)
    BY <2>1, <2>2
  <2> QED BY <2>6, <2>7, <2>8, <2>9 DEF PeerRight
<1>9. call' = call
  BY DEF TakeCommand
<1> QED BY <1>0, <1>1, <1>6, <1>7, <1>8, <1>9, CalmPeer

LEMMA LedLook ==
  ASSUME LogInv, LogInv', NEW L \in Node, Led(L), NEW n \in Node, NEW m \in Others(n),
         Look(n, m)
  PROVE  Stays(L)
<1>0. TypeOK /\ m \in Node \ {n}
  BY OthersOf DEF LogInv
<1>1. n = L
  BY <1>0 DEF Look, Led, PeerInv, IdleThread
<1> DEFINE t == thread[L][m]
           last == node[L].last
           next == IF t.next = 0 \/ t.next > last THEN last ELSE t.next
           rest == last = t.match /\ t.beat
           u == [t EXCEPT !.next = next, !.beat = @ /\ ~rest,
                          !.at = IF rest THEN "look" ELSE "stamp"]
<1>2. thread' = [thread EXCEPT ![L][m] = u] /\ node' = node /\ rpc' = rpc /\ late' = late
      /\ call' = call /\ Keep
  BY <1>1 DEF Look
<1>3. thread'[L][m] = u
  BY <1>0, <1>1, <1>2 DEF TypeOK
<1>4. t \in Thread /\ t.next \in Nat
  BY <1>0, PeerTyped
<1>5. last = Size(L) /\ Size(L) \in Nat
  BY <1>0, FilesTyped DEF Led, FilesInv
<1>6. next <= Size(L)
  <2> DEFINE x == t.next
             a == Size(L)
  <2>1. x \in Nat /\ a \in Nat /\ next = IF x = 0 \/ x > a THEN a ELSE x
    BY <1>4, <1>5
  <2> HIDE DEF x, a, next
  <2>2. next <= a
    BY <2>1
  <2> QED BY <2>2 DEF a
<1> HIDE DEF next, rest
<1>7. u.next = next /\ u.at \in {"look", "stamp"}
  BY <1>4 DEF Thread
<1>8. PeerRight(m, L)'
  <2>1. thread'[L][m].at # "newterm" /\ thread'[L][m].at # "send" /\ thread'[L][m].next <= Size(L)'
    BY <1>2, <1>3, <1>6, <1>7 DEF Size
  <2> QED BY <1>0, <1>1, <1>2, <2>1, StillRequests DEF PeerRight
<1>9. rpc' = [rpc EXCEPT ![L][m] = rpc[L][m]] /\ late' = [late EXCEPT ![m] = late[m]]
  BY <1>0, <1>1, <1>2, SameEntry
<1> HIDE DEF u
<1> QED BY <1>0, <1>1, <1>2, <1>8, <1>9, CalmThread

LEMMA LedStampRequest ==
  ASSUME LogInv, LogInv', NEW L \in Node, Led(L), NEW n \in Node, NEW m \in Others(n),
         StampRequest(n, m)
  PROVE  Stays(L)
<1>0. TypeOK /\ m \in Node \ {n}
  BY OthersOf DEF LogInv
<1>1. n = L
  BY <1>0 DEF StampRequest, Led, PeerInv, IdleThread
<1> DEFINE t == thread[L][m]
           u == [t EXCEPT !.at = "send", !.term = node[L].term, !.commit = node[L].committed]
<1>2. thread' = [thread EXCEPT ![L][m] = u] /\ node' = node /\ rpc' = rpc /\ late' = late
      /\ call' = call /\ Keep
  BY <1>0, <1>1 DEF StampRequest, TypeOK
<1>3. thread'[L][m] = u
  BY <1>0, <1>1, <1>2 DEF TypeOK
<1>4. t \in Thread /\ node[L].term = 1
  BY <1>0, PeerTyped DEF Led, Ruled
<1>5. u.next = t.next /\ u.at = "send" /\ u.term = 1
  BY <1>4 DEF Thread
<1>6. PeerRight(m, L)'
  <2>1. PeerRight(m, L)
    BY <1>0, <1>1 DEF Led, PeerInv
  <2>2. thread'[L][m].next > 1 =>
          thread'[L][m].next <= Size(L)' \/ thread'[L][m].next - 1 <= Size(m)'
    BY <1>2, <1>3, <1>5, <2>1 DEF PeerRight, Size
  <2>3. thread'[L][m].at # "newterm" /\ thread'[L][m].term = 1
    BY <1>3, <1>5
  <2> QED BY <1>0, <1>1, <1>2, <2>2, <2>3, StillRequests DEF PeerRight
<1>7. rpc' = [rpc EXCEPT ![L][m] = rpc[L][m]] /\ late' = [late EXCEPT ![m] = late[m]]
  BY <1>0, <1>1, <1>2, SameEntry
<1> HIDE DEF u
<1> QED BY <1>0, <1>1, <1>2, <1>6, <1>7, CalmThread

LEMMA LedGiveUp ==
  ASSUME LogInv, LogInv', NEW L \in Node, Led(L), NEW n \in Node, NEW m \in Others(n),
         GiveUp(n, m)
  PROVE  Stays(L)
<1>0. TypeOK /\ m \in Node \ {n}
  BY OthersOf DEF LogInv
<1>1. n = L
  BY <1>0 DEF GiveUp, Led, PeerInv
<1> DEFINE r == rpc[L][m]
           broken == r.status = "failed" \/ ~Up(m)
           qs == IF r.status = "sent" /\ ~broken THEN late[m] \cup {r.req} ELSE late[m]
           u == [thread[L][m] EXCEPT !.at = "look"]
<1>2. /\ thread' = [thread EXCEPT ![L][m] = u] /\ node' = node
      /\ rpc' = [rpc EXCEPT ![L][m] = NoRpc] /\ late' = [late EXCEPT ![m] = qs]
      /\ call' = call /\ Keep /\ r # NoRpc
  BY <1>0, <1>1 DEF GiveUp, TypeOK
<1>3. thread'[L][m] = u /\ rpc'[L][m] = NoRpc /\ late'[m] = qs
  BY <1>0, <1>1, <1>2 DEF TypeOK
<1>4. u.next = thread[L][m].next /\ u.at = "look"
  <2>1. thread[L][m] \in Thread
    BY <1>0, PeerTyped
  <2> QED BY <2>1 DEF Thread
<1>5. PeerRight(m, L)
  BY <1>0, <1>1 DEF Led, PeerInv
<1>6. PeerRight(m, L)'
  <2>1. \A k \in Node : F(k)' = F(k) /\ Size(k)' = Size(k)
    BY <1>2 DEF F, Size
  <2>2. \A q \in late'[m] : Sent(q, m, L)
    BY <1>2, <1>3, <1>5 DEF PeerRight
  <2>3. \A q \in late'[m] : Sent(q, m, L)'
    BY <1>0, <2>1, <2>2 DEF Sent
  <2>4. thread'[L][m].next > 1 =>
          thread'[L][m].next <= Size(L)' \/ thread'[L][m].next - 1 <= Size(m)'
    BY <1>0, <1>3, <1>4, <1>5, <2>1 DEF PeerRight
  <2> QED BY <1>3, <1>4, <2>3, <2>4 DEF PeerRight
<1> HIDE DEF u, qs
<1> QED BY <1>0, <1>1, <1>2, <1>6, CalmThread

LEMMA LedRefused ==
  ASSUME LogInv, LogInv', NEW L \in Node, Led(L), NEW n \in Node, NEW m \in Others(n),
         Refused(n, m)
  PROVE  Stays(L)
<1>0. TypeOK /\ m \in Node \ {n}
  BY OthersOf DEF LogInv
<1>1. n = L
  BY <1>0 DEF Refused, Led, PeerInv
<1> DEFINE r == rpc[L][m]
           t == thread[L][m]
           u == [t EXCEPT !.at = "look", !.beat = TRUE, !.match = 0, !.next = r.resp.last + 1]
<1>2. r # NoRpc /\ r.status = "answered" /\ r.resp \in Response /\ Answers1(r.resp, r.req, m)
  BY <1>0, <1>1, PeerTyped DEF Refused, Led, PeerInv, PeerRight
<1>3. ~(node[L].term < r.resp.term)
  <2>1. node[L].term = 1 /\ r.resp.term <= 1 /\ r.resp.term \in Int
    BY <1>2 DEF Led, Ruled, Answers1, Response, Term
  <2> QED BY <2>1
<1>4. /\ thread' = [thread EXCEPT ![L][m] = u] /\ node' = node
      /\ rpc' = [rpc EXCEPT ![L][m] = NoRpc] /\ late' = late
      /\ call' = call /\ Keep
  BY <1>0, <1>1, <1>3 DEF Refused, TypeOK
<1>5. thread'[L][m] = u /\ rpc'[L][m] = NoRpc
  BY <1>0, <1>1, <1>4 DEF TypeOK
<1>6. u.next = r.resp.last + 1 /\ u.at = "look"
  <2>1. t \in Thread
    BY <1>0, PeerTyped
  <2> QED BY <2>1 DEF Thread
<1>7. PeerRight(m, L)'
  <2>1. thread'[L][m].next - 1 <= Size(m)'
    <3>1. r.resp.last \in Nat /\ r.resp.last <= Size(m)
      BY <1>2 DEF Answers1, Response, Index
    <3>2. Size(m)' = Size(m) /\ Size(m) \in Nat
      BY <1>0, <1>4, FilesTyped DEF Size
    <3>3. thread'[L][m].next - 1 = r.resp.last
      BY <1>5, <1>6, <3>1
    <3> QED BY <3>1, <3>2, <3>3
  <2> QED BY <1>0, <1>1, <1>4, <1>5, <1>6, <2>1, StillRequests DEF PeerRight
<1> HIDE DEF u
<1>8. late' = [late EXCEPT ![m] = late[m]]
  BY <1>0, <1>4, SameEntry
<1> QED BY <1>0, <1>1, <1>4, <1>7, <1>8, CalmThread

LEMMA LedNewTerm ==
  ASSUME NEW L \in Node, Led(L), NEW n \in Node, NEW m \in Others(n)
  PROVE  ~NewTerm(n, m)
BY OthersOf DEF NewTerm, Led, PeerInv, PeerRight, IdleThread

\* What build_append_entries_request puts into a request leaves no gap.
LEMMA BuiltRight ==
  ASSUME LogInv, NEW L \in Node, Led(L), NEW m \in Node \ {L}, thread[L][m].at = "send"
  PROVE  Sent(BuildAppend(L, thread[L][m]), m, L)
<1> DEFINE t == thread[L][m]
           f == F(L)
           i == IF t.next > 1 THEN t.next - 1 ELSE t.next
           es == GetEntries(f, i)
           after == Len(es) > 1 /\ t.next > 1
           q == BuildAppend(L, t)
<1>0. TypeOK
  BY DEF LogInv
<1>1. f \in Seq(Entry) /\ Counted(f) /\ Len(f) \in Nat /\ Size(L) = Len(f)
      /\ \A k \in 1 .. Len(f) : f[k].term = 1
  BY <1>0, FilesTyped DEF Led, FilesInv
<1>2. t.next \in Nat /\ t.term = 1
      /\ (t.next > 1 => t.next <= Size(L) \/ t.next - 1 <= Size(m))
  BY <1>0, PeerTyped DEF Led, PeerInv, PeerRight
<1>3. i \in Nat /\ Size(m) \in Nat
  BY <1>0, <1>2, FilesTyped
<1>4. /\ q.term = 1
      /\ q.prev = IF after THEN es[1].index ELSE 0
      /\ q.prevTerm = IF after THEN es[1].term ELSE 0
      /\ q.entries = IF after THEN Tail(es) ELSE es
  <2>1. q = [from |-> L, term |-> t.term, commit |-> t.commit,
             prev     |-> IF after THEN es[1].index ELSE 0,
             prevTerm |-> IF after THEN es[1].term ELSE 0,
             entries  |-> IF after THEN Tail(es) ELSE es]
    BY DEF BuildAppend, F
  <2> HIDE DEF q, after, es
  <2> QED BY <1>2, <2>1
<1>5. /\ es \in Seq(Entry) /\ Len(es) \in Nat
      /\ i \in 1 .. Len(f) => Stands(es, i - 1, f) /\ Len(es) = Len(f) - (i - 1)
      /\ i \notin 1 .. Len(f) => es = <<>>
  <2> HIDE DEF i
  <2>1. es \in Seq(Entry)
    BY <1>1, <1>3, CountedEntries
  <2>2. Len(es) \in Nat
    BY <2>1, LenRight
  <2> QED BY <1>1, <1>3, <2>1, <2>2, CountedEntries
<1> HIDE DEF es, q, f
<1>6. CASE i \notin 1 .. Len(f)
  <2>1. es = <<>>
    BY <1>5, <1>6
  <2>2. ~after
    BY <2>1
  <2>3. q.prev = 0 /\ q.entries = <<>>
    BY <1>4, <2>1, <2>2
  <2>4. Stands(q.entries, 0, F(L)) /\ 0 \in 0 .. Size(L) /\ 0 <= Size(m)
    BY <1>1, <1>3, <2>3 DEF Stands, f
  <2> QED BY <1>4, <2>3, <2>4 DEF Sent, q
<1>7. CASE i \in 1 .. Len(f) /\ after
  <2> HIDE DEF i, after
  <2>1. i \in Nat /\ i > 0 /\ i \in 0 .. Size(L)
    BY <1>1, <1>3, <1>7
  <2>2. Stands(es, i - 1, f) /\ Len(es) > 1
    BY <1>5, <1>7 DEF after
  <2>3. es # <<>>
    BY <2>2
  <2>4. /\ Len(Tail(es)) = Len(es) - 1
        /\ \A k \in 1 .. Len(Tail(es)) : Tail(es)[k] = es[k + 1]
    BY <1>5, <2>3, TailOf
  <2>5. es[1] = f[i] /\ f[i].index = i /\ f[i].term = 1
    <3>1. (i - 1) + 1 = i /\ 1 \in 1 .. Len(es)
      BY <1>5, <2>1, <2>2
    <3>2. es[1] = f[(i - 1) + 1]
      BY <2>2, <3>1 DEF Stands
    <3>3. es[1] = f[i]
      BY <3>1, <3>2
    <3> QED BY <1>1, <1>7, <3>3 DEF Counted
  <2>6. Stands(Tail(es), i, f)
    <3> DEFINE ts == Tail(es)
    <3>0. Len(ts) = Len(es) - 1 /\ \A k \in 1 .. Len(ts) : ts[k] = es[k + 1]
      BY <2>4
    <3> HIDE DEF ts
    <3>1. i + Len(ts) <= Len(f)
      BY <1>1, <1>5, <1>7, <2>1, <3>0
    <3>2. ASSUME NEW k \in 1 .. Len(ts) PROVE ts[k] = f[i + k]
      <4>1. k + 1 \in 1 .. Len(es) /\ (i - 1) + (k + 1) = i + k
        BY <1>5, <2>1, <3>0
      <4>2. es[k + 1] = f[(i - 1) + (k + 1)]
        BY <2>2, <4>1 DEF Stands
      <4>3. es[k + 1] = f[i + k]
        BY <4>1, <4>2
      <4> QED BY <3>0, <4>3
    <3>3. Stands(ts, i, f)
      BY <3>1, <3>2 DEF Stands
    <3> QED BY <3>3 DEF ts
  <2>7. q.prev = i /\ q.prevTerm = 1 /\ q.entries = Tail(es)
    BY <1>4, <1>7, <2>5
  <2>8. Stands(q.entries, i, F(L))
    BY <2>6, <2>7 DEF f
  <2> QED BY <1>4, <2>1, <2>7, <2>8 DEF Sent, q
<1>8. CASE i \in 1 .. Len(f) /\ ~after
  <2>1. q.prev = 0 /\ q.entries = es
    BY <1>4, <1>8
  <2>2. i - 1 <= Size(m)
    <3> DEFINE x == t.next
               a == Size(L)
               b == Size(m)
               c == Len(es)
    <3>1. x \in Nat /\ a \in Nat /\ b \in Nat /\ c \in Nat
          /\ (x > 1 => x <= a \/ x - 1 <= b) /\ i \in 1 .. a /\ c = a - (i - 1)
          /\ ~(c > 1 /\ x > 1) /\ i = IF x > 1 THEN x - 1 ELSE x
      BY <1>1, <1>2, <1>3, <1>5, <1>8
    <3>2. i - 1 <= b
      <4> HIDE DEF x, a, b, c, i
      <4> QED BY <3>1
    <3> QED BY <3>2
  <2>3. Stands(q.entries, i - 1, F(L))
    BY <1>5, <1>8, <2>1 DEF f
  <2>4. i - 1 \in 0 .. Size(L)
    BY <1>1, <1>3, <1>8
  <2> HIDE DEF i
  <2> QED BY <1>4, <2>1, <2>2, <2>3, <2>4 DEF Sent, q
<1> QED BY <1>6, <1>7, <1>8

LEMMA LedSend ==
  ASSUME LogInv, LogInv', NEW L \in Node, Led(L), NEW n \in Node, NEW m \in Others(n),
         Send(n, m)
  PROVE  Stays(L)
<1>0. TypeOK /\ m \in Node \ {n}
  BY OthersOf DEF LogInv
<1>1. n = L
  BY <1>0 DEF Send, Led, PeerInv, IdleThread
<1> DEFINE t == thread[L][m]
           q == BuildAppend(L, t)
           r == [status |-> "sent", req |-> q]
           u == [t EXCEPT !.at = "wait", !.term = 0, !.commit = 0]
           i == IF t.next > 1 THEN t.next - 1 ELSE t.next
<1>2. ~Unreadable(node[L].file, i)
  <2>1. t.next \in Nat
    BY <1>0, <1>1, PeerTyped
  <2>2. i \in Nat
    BY <2>1
  <2>3. F(L) \in Seq(Entry) /\ Counted(F(L))
    BY <1>0, FilesTyped DEF Led, FilesInv
  <2> HIDE DEF i
  <2> QED BY <2>2, <2>3, CountedRead DEF F
<1>3. Sent(q, m, L)
  BY <1>0, <1>1, BuiltRight DEF Send
<1>4. /\ thread' = [thread EXCEPT ![L][m] = u] /\ node' = node
      /\ rpc' = [rpc EXCEPT ![L][m] = r] /\ late' = late
      /\ call' = call /\ Keep
  <2> HIDE DEF q
  <2>1. /\ thread' = [thread EXCEPT ![L][m].at = "wait", ![L][m].term = 0, ![L][m].commit = 0]
        /\ node' = node /\ rpc' = [rpc EXCEPT ![L][m] = r] /\ late' = late
        /\ call' = call /\ Keep
    BY <1>1, <1>2 DEF Send, q
  <2> QED BY <1>0, <1>1, <2>1 DEF TypeOK
<1> HIDE DEF q, i
<1>5. thread'[L][m] = u /\ rpc'[L][m] = r
  BY <1>0, <1>1, <1>4 DEF TypeOK
<1>6. u.next = t.next /\ u.at = "wait"
  <2>1. t \in Thread
    BY <1>0, PeerTyped
  <2> QED BY <2>1 DEF Thread
<1>7. PeerRight(m, L)
  BY <1>0, <1>1 DEF Led, PeerInv
<1>8. PeerRight(m, L)'
  <2>1. \A k \in Node : F(k)' = F(k) /\ Size(k)' = Size(k)
    BY <1>4 DEF F, Size
  <2>2. \A x \in late'[m] : Sent(x, m, L)'
    BY <1>0, <1>4, <1>7, <2>1 DEF PeerRight, Sent
  <2>3. thread'[L][m].next > 1 =>
          thread'[L][m].next <= Size(L)' \/ thread'[L][m].next - 1 <= Size(m)'
    BY <1>0, <1>5, <1>6, <1>7, <2>1 DEF PeerRight
  <2>4. Sent(rpc[L][m].req, m, L)'
    <3>1. rpc'[L][m].req = q
      BY <1>5
    <3> QED BY <1>0, <1>3, <2>1, <3>1 DEF Sent
  <2>5. rpc'[L][m].status # "answered"
    BY <1>5
  <2> QED BY <1>5, <1>6, <2>2, <2>3, <2>4, <2>5 DEF PeerRight
<1> HIDE DEF u, r
<1>9. late' = [late EXCEPT ![m] = late[m]]
  BY <1>0, <1>4, SameEntry
<1> QED BY <1>0, <1>1, <1>4, <1>8, <1>9, CalmThread

-----------------------------------------------------------------------------
(* A success reaches the leader.                                           *)

LEMMA LedAccepted ==
  ASSUME LogInv, LogInv', NEW L \in Node, Led(L), NEW n \in Node, NEW m \in Others(n),
         Accepted(n, m)
  PROVE  Stays(L)
<1>0. TypeOK /\ TypeOK' /\ m \in Node \ {n}
  BY OthersOf DEF LogInv
<1>1. n = L
  BY <1>0 DEF Accepted, Led, PeerInv
<1> DEFINE r == rpc[L][m]
           t == thread[L][m]
           es == r.req.entries
           s == ReportAll(node[L], es)
           I == {es[k].index : k \in 1 .. Len(es)}
           u == [t EXCEPT !.at = "look", !.beat = TRUE, !.match = r.resp.last,
                          !.next = r.resp.last + 1]
<1>2. /\ r # NoRpc /\ r.status = "answered" /\ r.resp.ok /\ r.resp \in Response
      /\ r.req \in Request /\ Answers1(r.resp, r.req, m)
  BY <1>0, <1>1, PeerTyped DEF Accepted, Led, PeerInv, PeerRight
<1>3. es \in Seq(Entry) /\ \A k \in 1 .. Len(es) : es[k].index \in Nat
  <2>1. es \in Seq(Entry)
    BY <1>2 DEF Request
  <2>2. \A k \in 1 .. Len(es) : es[k] \in Entry
    BY <2>1, LenRight
  <2> QED BY <2>1, <2>2 DEF Entry, Index
<1>4. \A i \in I : i \in Nat /\ i <= Size(m)
  BY <1>2, <1>3 DEF Answers1
<1>5. /\ thread' = [thread EXCEPT ![L][m] = u] /\ node' = [node EXCEPT ![L] = s]
      /\ rpc' = [rpc EXCEPT ![L][m] = NoRpc] /\ late' = late /\ Keep
  <2> HIDE DEF s
  <2> QED BY <1>0, <1>1 DEF Accepted, TypeOK, s
<1>6. NodeRight(node[L]) /\ node[L] \in NodeState
  BY DEF LogInv, TypeOK, CallbackInv, NodeRight
<1>7. Reported(node[L], s, I)
  BY <1>3, <1>6, ReportAllKeeps
<1> HIDE DEF s, I
<1>8. node'[L] = s /\ \A k \in Node \ {L} : node'[k] = node[k]
  BY <1>0, <1>5 DEF TypeOK
<1>9. /\ s.term = node[L].term /\ s.state = node[L].state /\ s.file = node[L].file
      /\ s.last = node[L].last /\ s.fault = node[L].fault /\ s.cmds = node[L].cmds
      /\ s.committed = node[L].committed \/ s.committed \in I
      /\ OnlyAnswers(node[L]) => OnlyAnswers(s)
  BY <1>7 DEF Reported
<1>10. \A k \in Node : F(k)' = F(k) /\ Size(k)' = Size(k) /\ Size(k) \in Nat
  BY <1>0, <1>8, <1>9, FilesTyped DEF F, Size
<1>11. Grown
  BY <1>0, <1>10, BeginsSelf, FilesTyped DEF Grown
<1>12. Begins(F(m), F(L)) /\ Size(m) <= Size(L)
       /\ \A k \in 1 .. Size(m) : F(m)[k] = F(L)[k]
  BY <1>0, <1>1, FilesTyped DEF Led, FilesInv, Begins
<1>13. Ruled(L)'
  <2>1. \A k \in Node : node'[k].term = node[k].term /\ node'[k].state = node[k].state
    BY <1>8, <1>9
  <2> QED BY <2>1, StillRuled DEF Led
<1>14. FilesInv(L)'
  <2>1. s.committed <= Size(L)
    <3>1. CASE s.committed = node[L].committed
      BY <3>1 DEF Led, FilesInv
    <3>2. CASE s.committed \in I
      <4> DEFINE x == s.committed
                 a == Size(m)
                 b == Size(L)
      <4>1. x \in Nat /\ a \in Nat /\ b \in Nat /\ x <= a /\ a <= b
        BY <1>0, <1>4, <1>10, <1>12, <3>2
      <4>2. x <= b
        <5> HIDE DEF x, a, b
        <5> QED BY <4>1
      <4> QED BY <4>2
    <3> QED BY <1>9, <3>1, <3>2
  <2>2. ASSUME NEW k \in Node
        PROVE  /\ Begins(F(k), F(L))' /\ node'[k].last = Size(k)'
               /\ node'[k].fault = "none" /\ node'[k].committed <= Size(k)'
    <3>1. /\ Begins(F(k), F(L)) /\ node[k].last = Size(k)
          /\ node[k].fault = "none" /\ node[k].committed <= Size(k)
      BY DEF Led, FilesInv
    <3>2. node'[k].last = node[k].last /\ node'[k].fault = node[k].fault
      BY <1>8, <1>9
    <3>3. node'[k].committed <= Size(k)
      BY <1>8, <2>1, <3>1
    <3> QED BY <1>10, <3>1, <3>2, <3>3
  <2> QED BY <1>10, <2>2 DEF Led, FilesInv
<1>15. CalledInv(L)'
  <2>1. ASSUME NEW c \in Calls PROVE CallRight(c, L)'
    <3>1. call[c] \in CallState
      BY <1>0 DEF TypeOK
    <3>2. call'[c] = call[c] \/ call'[c] = [call[c] EXCEPT !.timer = "no"]
      BY DEF Accepted
    <3>3. /\ call'[c].at = call[c].at /\ call'[c].node = call[c].node
          /\ call'[c].term = call[c].term /\ call'[c].index = call[c].index
      BY <3>1, <3>2 DEF CallState
    <3> QED BY <1>0, <1>11, <3>3, GrownCall DEF Led, CalledInv
  <2> QED BY <2>1 DEF CalledInv
<1>16. PeerInv(L)'
  <2>1. thread'[L][m] = u /\ rpc'[L][m] = NoRpc
    BY <1>0, <1>1, <1>5 DEF TypeOK
  <2>2. u.next = r.resp.last + 1 /\ u.at = "look"
    <3>1. t \in Thread
      BY <1>0, PeerTyped
    <3> QED BY <3>1 DEF Thread
  <2>3. thread'[L][m].next - 1 <= Size(m)'
    <3>1. r.resp.last \in Nat /\ r.resp.last <= Size(m)
      BY <1>2 DEF Answers1, Response, Index
    <3>2. thread'[L][m].next - 1 = r.resp.last
      BY <2>1, <2>2, <3>1
    <3> QED BY <1>0, <1>10, <3>1, <3>2
  <2>4. \A q \in late'[m] : Sent(q, m, L)'
    <3>1. \A q \in late[m] : Sent(q, m, L)
      BY <1>0, <1>1 DEF Led, PeerInv, PeerRight
    <3> QED BY <1>0, <1>5, <1>10, <3>1 DEF Sent
  <2>5. PeerRight(m, L)'
    BY <2>1, <2>2, <2>3, <2>4 DEF PeerRight
  <2> HIDE DEF u
  <2>6. OnlyPeer(L, m)
    <3>1. \A k \in Node : node'[k].cmds = node[k].cmds
      BY <1>8, <1>9
    <3>2. \A k \in Node, j \in Node : (k = L /\ j = m) \/ thread'[k][j] = thread[k][j]
      BY <1>0, <1>5 DEF TypeOK
    <3>3. \A k \in Node, j \in Node : (k = L /\ j = m) \/ rpc'[k][j] = rpc[k][j]
      BY <1>0, <1>5 DEF TypeOK
    <3> QED BY <1>0, <1>1, <1>5, <3>1, <3>2, <3>3 DEF OnlyPeer
  <2> QED BY <1>0, <1>1, <1>11, <2>5, <2>6, OnlyPeerStep DEF Led
<1>17. CommitterInv(L)'
  <2>1. OnlyAnswers(node'[L])
    BY <1>8, <1>9 DEF Led, CommitterInv
  <2>2. node'[L].committed <= Size(L)' /\ \A k \in Node \ {L} : node'[k].committed = node[k].committed
    BY <1>8, <1>14 DEF FilesInv
  <2> QED BY <1>0, <1>5, <1>11, <2>1, <2>2, GrownCommitter DEF Led, Keep, historyVars
<1>18. HeldInv(L)'
  <2>1. node'[L].committed > 0 => \E k \in Node \ {L} : node'[L].committed <= Size(k)'
    <3>1. CASE s.committed = node[L].committed
      BY <1>8, <1>10, <3>1 DEF Led, HeldInv
    <3>2. CASE s.committed \in I
      BY <1>0, <1>1, <1>4, <1>8, <1>10, <3>2
    <3> QED BY <1>9, <3>1, <3>2
  <2>2. \A c \in Calls : Held(c, L) => Held(c, L)'
    BY <1>0, <1>11, GrownHeld
  <2>3. \A a \in node[L].callbacks : a.index \in I => a.call \in Calls /\ Held(a.call, L)
    <3> SUFFICES ASSUME NEW a \in node[L].callbacks, a.index \in I
                 PROVE  a.call \in Calls /\ Held(a.call, L)
      OBVIOUS
    <3>1. a \in Callback
      BY <1>6 DEF NodeState
    <3>2. a.call \in Calls /\ call[a.call].at = "done" /\ call[a.call].index = a.index
      BY <3>1 DEF LogInv, CallbackInv, Callback
    <3>3. a.index \in 1 .. Size(L) /\ F(L)[a.index].data = a.call
      BY <3>2 DEF Led, CalledInv, CallRight
    <3>4. a.index \in 1 .. Size(m)
      BY <1>4, <1>10, <3>3
    <3>5. F(m)[a.index].data = a.call
      BY <1>12, <3>3, <3>4
    <3> QED BY <1>0, <1>1, <3>2, <3>4, <3>5 DEF Held
  <2>4. ASSUME NEW k \in Node, NEW j \in 1 .. Len(node'[k].tasks), Succeeds(node'[k].tasks[j])
        PROVE  Held(node[k].tasks[j].call, L)'
    <3> PICK c : c = node'[k].tasks[j].call
      OBVIOUS
    <3>1. c \in Calls
      <4>1. node'[k].tasks \in Seq(Task)
        BY <1>0 DEF TypeOK, NodeState
      <4>2. node'[k].tasks[j] \in Task
        BY <4>1, LenRight
      <4> QED BY <2>4, <4>2 DEF Succeeds, Task
    <3>2. Held(c, L)
      <4>1. CASE k = L
        <5>1. \/ j \in 1 .. Len(node[L].tasks) /\ s.tasks[j] = node[L].tasks[j]
              \/ \E a \in node[L].callbacks : a.call = s.tasks[j].call /\ a.index \in I
          BY <1>6, <1>7, <1>8, <2>4, <4>1, ReportedSuccess
        <5>2. CASE \E a \in node[L].callbacks : a.call = s.tasks[j].call /\ a.index \in I
          BY <1>8, <2>3, <4>1, <5>2
        <5>3. CASE j \in 1 .. Len(node[L].tasks) /\ s.tasks[j] = node[L].tasks[j]
          BY <1>8, <2>4, <4>1, <5>3 DEF Led, HeldInv
        <5> QED BY <5>1, <5>2, <5>3
      <4>2. CASE k # L
        BY <1>8, <2>4, <4>2 DEF Led, HeldInv
      <4> QED BY <4>1, <4>2
    <3>3. Held(c, L)'
      BY <2>2, <3>1, <3>2
    <3> QED BY <3>3 DEF Held
  <2>5. \A c \in Calls : \A k \in 1 .. Len(answers'[c]) : answers'[c][k] => Held(c, L)'
    BY <1>5, <2>2 DEF Led, HeldInv, Keep, historyVars
  <2> QED BY <2>1, <2>4, <2>5 DEF HeldInv
<1>19. F(L)' = F(L) /\ applied' = applied
  BY <1>5, <1>10 DEF Keep, historyVars
<1> QED BY <1>13, <1>14, <1>15, <1>16, <1>17, <1>18, <1>19 DEF Led, Stays

-----------------------------------------------------------------------------
(* A request reaches a follower.                                           *)

\* All but what belongs to the peer threads.
LEMMA FollowerStep ==
  ASSUME LogInv, LogInv', NEW L \in Node, Led(L), NEW m \in Node \ {L}, NEW q, NEW h,
         Handled(h, q, m, L), node' = [node EXCEPT ![m] = h.node], call' = call, Keep
  PROVE  /\ Grown /\ Ruled(L)' /\ FilesInv(L)' /\ CalledInv(L)' /\ CommitterInv(L)' /\ HeldInv(L)'
         /\ F(L)' = F(L) /\ Size(m)' = Len(h.node.file)
         /\ \A n \in Node : node'[n].cmds = node[n].cmds
<1> DEFINE d == h.node
<1>0. TypeOK /\ TypeOK'
  BY DEF LogInv
<1>1. node'[m] = d /\ \A n \in Node \ {m} : node'[n] = node[n]
  BY <1>0 DEF TypeOK
<1>2. /\ Follows(d, F(L)) /\ d.term = 1 /\ d.state # "leader"
      /\ d.committed = node[m].committed /\ d.cmds = node[m].cmds
      /\ Size(m) <= Len(d.file) /\ Unsuccessful(node[m], d)
  BY DEF Handled
<1>3. /\ d \in NodeState /\ d.file \in Seq(Entry) /\ Len(d.file) \in Nat
      /\ Begins(d.file, F(L)) /\ d.last = Len(d.file) /\ d.fault = "none"
  BY <1>2 DEF Follows, NodeState
<1> HIDE DEF d
<1>4. /\ F(m)' = d.file /\ Size(m)' = Len(d.file)
      /\ \A n \in Node \ {m} : F(n)' = F(n) /\ Size(n)' = Size(n)
  BY <1>1 DEF F, Size
<1>5. Begins(F(m), F(L)) /\ Size(m) = Len(F(m)) /\ Size(m) \in Nat /\ Size(L) \in Nat
  BY <1>0, FilesTyped DEF Led, FilesInv
<1>6. Begins(F(m), d.file)
  <2>1. \A k \in 1 .. Len(F(m)) : k \in 1 .. Len(d.file)
    BY <1>2, <1>3, <1>5
  <2>2. \A k \in 1 .. Len(F(m)) : F(m)[k] = d.file[k]
    BY <1>3, <1>5, <2>1 DEF Begins
  <2> QED BY <1>2, <1>5, <2>2 DEF Begins
<1>7. Grown
  <2>1. ASSUME NEW n \in Node PROVE Begins(F(n), F(n)')
    BY <1>0, <1>4, <1>6, BeginsSelf, FilesTyped
  <2> QED BY <2>1 DEF Grown
<1>8. Ruled(L)'
  <2>1. \A n \in Node : /\ node'[n].term \in {node[n].term, 1}
                        /\ node'[n].state = "leader" <=> node[n].state = "leader"
    <3>1. node[m].state # "leader"
      BY DEF Led, Ruled
    <3> QED BY <1>1, <1>2, <3>1
  <2> QED BY <2>1, StillRuled DEF Led
<1>9. FilesInv(L)'
  <2>1. ASSUME NEW n \in Node
        PROVE  /\ Begins(F(n), F(L))' /\ node'[n].last = Size(n)'
               /\ node'[n].fault = "none" /\ node'[n].committed <= Size(n)'
    <3>1. /\ Begins(F(n), F(L)) /\ node[n].last = Size(n)
          /\ node[n].fault = "none" /\ node[n].committed <= Size(n)
      BY DEF Led, FilesInv
    <3>2. CASE n # m
      BY <1>1, <1>4, <3>1, <3>2
    <3>3. CASE n = m
      <4>1. node[m].committed <= Len(d.file)
        <5> DEFINE x == node[m].committed
                   a == Size(m)
                   b == Len(d.file)
        <5>1. x \in Nat
          BY <1>0 DEF TypeOK, NodeState, Index
        <5>2. x <= a /\ a <= b /\ a \in Nat /\ b \in Nat
          BY <1>2, <1>3, <1>5, <3>1, <3>3
        <5>3. x <= b
          <6> HIDE DEF x, a, b
          <6> QED BY <5>1, <5>2
        <5> QED BY <5>3
      <4> QED BY <1>1, <1>2, <1>3, <1>4, <3>3, <4>1
    <3> QED BY <3>2, <3>3
  <2>2. Counted(F(L))' /\ \A k \in 1 .. Size(L)' : F(L)'[k].term = 1
    BY <1>4 DEF Led, FilesInv
  <2> QED BY <2>1, <2>2 DEF FilesInv
<1>10. CalledInv(L)'
  BY <1>0, <1>7, GrownCall DEF Led, CalledInv
<1>11. CommitterInv(L)'
  <2>1. OnlyAnswers(node'[L])
    BY <1>1 DEF Led, CommitterInv
  <2>2. node'[L].committed <= Size(L)'
    BY <1>9 DEF FilesInv
  <2>3. \A n \in Node \ {L} : node'[n].committed = node[n].committed
    BY <1>1, <1>2
  <2> QED BY <1>0, <1>7, <2>1, <2>2, <2>3, GrownCommitter DEF Led, Keep, historyVars
<1>12. HeldInv(L)'
  <2>1. \A n \in Node : NoNewSuccess(node[n], node'[n])
    <3>1. NoNewSuccess(node[m], d)
      BY <1>2, NoneNew
    <3>2. \A n \in Node \ {m} : NoNewSuccess(node[n], node[n])
      BY NoneNew
    <3> QED BY <1>1, <3>1, <3>2
  <2>2. node'[L].committed = node[L].committed /\ answers' = answers
    BY <1>1 DEF Keep, historyVars
  <2> QED BY <1>0, <1>7, <2>1, <2>2, GrownHolds DEF Led
<1>13. \A n \in Node : node'[n].cmds = node[n].cmds
  BY <1>1, <1>2
<1> QED BY <1>4, <1>7, <1>8, <1>9, <1>10, <1>11, <1>12, <1>13 DEF d

LEMMA LedServe ==
  ASSUME OneTerm, LogInv, LogInv', NEW L \in Node, Led(L), NEW n \in Node, NEW m \in Others(n),
         Serve(n, m)
  PROVE  Stays(L)
<1>0. TypeOK /\ TypeOK' /\ m \in Node \ {n}
  BY OthersOf DEF LogInv
<1>1. n = L
  BY <1>0 DEF Serve, Led, PeerInv
<1> DEFINE r == rpc[L][m]
           q == r.req
           h == HandleAppend(m, q)
           x == [status |-> "answered", req |-> q, resp |-> h.resp]
<1>2. PeerRight(m, L) /\ r # NoRpc /\ q \in Request /\ Sent(q, m, L)
  BY <1>0, <1>1, PeerTyped DEF Serve, Led, PeerInv, PeerRight
<1>3. Handled(h, q, m, L)
  BY <1>0, <1>1, <1>2, FollowerHandles DEF Led
<1> HIDE DEF h
<1>4. ~h.failed
  BY <1>3 DEF Handled
<1>5. /\ node' = [node EXCEPT ![m] = h.node] /\ rpc' = [rpc EXCEPT ![L][m] = x]
      /\ thread' = thread /\ late' = late /\ call' = call /\ Keep
  BY <1>1, <1>4 DEF Serve, h
<1>6. /\ Grown /\ Ruled(L)' /\ FilesInv(L)' /\ CalledInv(L)' /\ CommitterInv(L)' /\ HeldInv(L)'
      /\ F(L)' = F(L) /\ Size(m)' = Len(h.node.file)
      /\ \A k \in Node : node'[k].cmds = node[k].cmds
  BY <1>0, <1>1, <1>3, <1>5, FollowerStep
<1>7. rpc'[L][m] = x
  BY <1>0, <1>1, <1>5 DEF TypeOK
<1>8. PeerRight(m, L)'
  <2>1. Sent(q, m, L)'
    <3> PICK y : y = q
      OBVIOUS
    <3>1. Sent(y, m, L)'
      BY <1>0, <1>1, <1>2, <1>6, GrownSent
    <3>2. y = rpc'[L][m].req
      BY <1>7
    <3>3. rpc'[L][m].req = rpc[L][m].req
      BY <1>7
    <3> QED BY <3>1, <3>2 DEF Sent
  <2>2. Answers1(rpc[L][m].resp, rpc[L][m].req, m)'
    <3>1. /\ h.resp.term = 1 /\ h.resp.last <= Size(m)'
          /\ h.resp.ok => \A k \in 1 .. Len(q.entries) : q.entries[k].index <= Size(m)'
      BY <1>3, <1>6 DEF Handled
    <3>2. rpc'[L][m].resp = h.resp /\ rpc'[L][m].req = q
      BY <1>7
    <3> QED BY <3>1, <3>2 DEF Answers1
  <2>3. thread'[L][m].next > 1 =>
          thread'[L][m].next <= Size(L)' \/ thread'[L][m].next - 1 <= Size(m)'
    BY <1>0, <1>1, <1>2, <1>5, <1>6, GrownNext
  <2>4. \A y \in late'[m] : Sent(y, m, L)'
    <3>1. \A y \in late[m] : y \in Request /\ Sent(y, m, L)
      BY <1>0, <1>2, PeerTyped DEF PeerRight
    <3> QED BY <1>0, <1>1, <1>5, <1>6, <3>1, GrownSent
  <2>5. thread'[L][m].at # "newterm" /\ (thread'[L][m].at = "send" => thread'[L][m].term = 1)
    BY <1>2, <1>5 DEF PeerRight
  <2> QED BY <2>1, <2>2, <2>3, <2>4, <2>5 DEF PeerRight
<1>9. OnlyPeer(L, m)
  <2> HIDE DEF x
  <2>1. \A k \in Node, j \in Node : (k = L /\ j = m) \/ rpc'[k][j] = rpc[k][j]
    BY <1>0, <1>5 DEF TypeOK
  <2> QED BY <1>0, <1>1, <1>5, <1>6, <2>1 DEF OnlyPeer
<1>10. PeerInv(L)'
  BY <1>0, <1>1, <1>6, <1>8, <1>9, OnlyPeerStep DEF Led
<1>11. applied' = applied
  BY <1>5 DEF Keep, historyVars
<1> QED BY <1>6, <1>10, <1>11 DEF Led, Stays

LEMMA LedServeLate ==
  ASSUME OneTerm, LogInv, LogInv', NEW L \in Node, Led(L), NEW m \in Node, NEW q \in late[m],
         ServeLate(m, q)
  PROVE  Stays(L)
<1>0. TypeOK /\ TypeOK'
  BY DEF LogInv
<1>1. m # L
  BY DEF Led, PeerInv
<1>2. PeerRight(m, L) /\ q \in Request /\ Sent(q, m, L)
  BY <1>0, <1>1, PeerTyped DEF Led, PeerInv, PeerRight
<1> DEFINE h == HandleAppend(m, q)
<1>3. Handled(h, q, m, L)
  BY <1>1, <1>2, FollowerHandles DEF Led
<1> HIDE DEF h
<1>4. /\ node' = [node EXCEPT ![m] = h.node] /\ rpc' = rpc /\ thread' = thread
      /\ late' = [late EXCEPT ![m] = late[m] \ {q}] /\ call' = call /\ Keep
  BY DEF ServeLate, h
<1>5. /\ Grown /\ Ruled(L)' /\ FilesInv(L)' /\ CalledInv(L)' /\ CommitterInv(L)' /\ HeldInv(L)'
      /\ F(L)' = F(L) /\ \A k \in Node : node'[k].cmds = node[k].cmds
  BY <1>1, <1>3, <1>4, FollowerStep
<1>6. late'[m] \subseteq late[m] /\ \A k \in Node \ {m} : late'[k] = late[k]
  BY <1>0, <1>4 DEF TypeOK
<1>7. PeerRight(m, L)'
  BY <1>0, <1>2, <1>4, <1>5, <1>6, GrownPeer
<1>8. OnlyPeer(L, m)
  BY <1>4, <1>5, <1>6 DEF OnlyPeer
<1>9. PeerInv(L)'
  BY <1>0, <1>1, <1>5, <1>7, <1>8, OnlyPeerStep DEF Led
<1>10. applied' = applied
  BY <1>4 DEF Keep, historyVars
<1> QED BY <1>5, <1>9, <1>10 DEF Led, Stays

-----------------------------------------------------------------------------
(* The committer thread.                                                   *)

LEMMA StandsTail ==
  ASSUME NEW f \in Seq(Entry), NEW es \in Seq(Entry), es # <<>>, NEW i \in Nat, Stands(es, i, f)
  PROVE  /\ Stands(Tail(es), i + 1, f) /\ Head(es) = f[i + 1]
         /\ i + 1 \in 1 .. Len(f)
<1> DEFINE ts == Tail(es)
           n == Len(es)
           N == Len(f)
<1>1. /\ Head(es) = es[1] /\ n \in Nat \ {0} /\ ts \in Seq(Entry) /\ Len(ts) = n - 1
      /\ \A k \in 1 .. Len(ts) : ts[k] = es[k + 1]
  BY TailOf
<1>2. N \in Nat /\ i + n <= N /\ \A k \in 1 .. n : es[k] = f[i + k]
  BY DEF Stands
<1> SUFFICES Stands(ts, i + 1, f) /\ Head(es) = f[i + 1] /\ i + 1 \in 1 .. N
  OBVIOUS
<1> HIDE DEF ts, n, N
<1>3. ASSUME NEW k \in 1 .. Len(ts) PROVE ts[k] = f[(i + 1) + k]
  <2>1. k + 1 \in 1 .. n /\ i + (k + 1) = (i + 1) + k
    BY <1>1
  <2>2. es[k + 1] = f[i + (k + 1)]
    BY <1>2, <2>1
  <2> QED BY <1>1, <2>1, <2>2
<1>4. (i + 1) + Len(ts) <= N /\ i + 1 \in 1 .. N
  BY <1>1, <1>2
<1>5. es[1] = f[i + 1]
  <2>1. 1 \in 1 .. n
    BY <1>1
  <2> QED BY <1>2, <2>1
<1> QED BY <1>1, <1>3, <1>4, <1>5 DEF Stands, N

LEMMA TailTasks ==
  ASSUME NEW s \in NodeState, NEW t, s.tasks # <<>>, t.tasks = Tail(s.tasks)
  PROVE  NoNewSuccess(s, t) /\ (OnlyAnswers(s) => OnlyAnswers(t))
<1>1. s.tasks \in Seq(Task)
  BY DEF NodeState
<1> DEFINE n == Len(s.tasks)
<1>2. /\ n \in Nat \ {0} /\ Len(t.tasks) = n - 1
      /\ \A i \in 1 .. Len(t.tasks) : t.tasks[i] = s.tasks[i + 1]
  BY <1>1, TailOf
<1> HIDE DEF n
<1>3. \A k \in 1 .. Len(t.tasks) : \E j \in 1 .. n : s.tasks[j] = t.tasks[k]
  <2>1. \A k \in 1 .. Len(t.tasks) : k + 1 \in 1 .. n
    BY <1>2
  <2> QED BY <1>2, <2>1
<1> QED BY <1>3 DEF NoNewSuccess, OnlyAnswers, n

\* A step of the committer of n that leaves the file and the commands alone.
LEMMA CommitterStays ==
  ASSUME LogInv, LogInv', NEW L \in Node, Led(L), NEW n \in Node, NEW s,
         node' = [node EXCEPT ![n] = s],
         s.term = node[n].term, s.state = node[n].state, s.file = node[n].file,
         s.last = node[n].last, s.cmds = node[n].cmds, s.fault = node[n].fault,
         s.committed <= Len(s.file), UNCHANGED <<rpcVars, call>>
  PROVE  /\ Grown /\ Ruled(L)' /\ FilesInv(L)' /\ CalledInv(L)' /\ PeerInv(L)'
         /\ node'[n] = s /\ \A k \in Node \ {n} : node'[k] = node[k]
         /\ \A k \in Node : F(k)' = F(k) /\ Size(k)' = Size(k)
<1>0. TypeOK /\ TypeOK'
  BY DEF LogInv
<1>1. node'[n] = s /\ \A k \in Node \ {n} : node'[k] = node[k]
  BY <1>0 DEF TypeOK
<1>2. \A k \in Node : F(k)' = F(k) /\ Size(k)' = Size(k) /\ node'[k].cmds = node[k].cmds
  BY <1>1 DEF F, Size
<1>3. Grown
  BY <1>0, <1>2, BeginsSelf, FilesTyped DEF Grown
<1>4. Ruled(L)'
  <2>1. \A k \in Node : node'[k].term = node[k].term /\ node'[k].state = node[k].state
    BY <1>1
  <2> QED BY <2>1, StillRuled DEF Led
<1>5. FilesInv(L)'
  <2>1. ASSUME NEW k \in Node
        PROVE  /\ Begins(F(k), F(L))' /\ node'[k].last = Size(k)'
               /\ node'[k].fault = "none" /\ node'[k].committed <= Size(k)'
    <3>1. /\ Begins(F(k), F(L)) /\ node[k].last = Size(k)
          /\ node[k].fault = "none" /\ node[k].committed <= Size(k)
      BY DEF Led, FilesInv
    <3>2. Begins(F(k)', F(L)')
      BY <1>2, <3>1
    <3>3. node'[k].last = node[k].last /\ node'[k].fault = node[k].fault
      BY <1>1
    <3>4. node'[k].committed <= Size(k)
      BY <1>1, <3>1 DEF Size
    <3> QED BY <1>2, <3>1, <3>2, <3>3, <3>4
  <2> QED BY <1>2, <2>1 DEF Led, FilesInv
<1>6. CalledInv(L)'
  BY <1>0, <1>3, GrownCall DEF Led, CalledInv
<1>7. PeerInv(L)'
  BY <1>0, <1>2, <1>3, GrownPeers DEF Led, rpcVars
<1> QED BY <1>1, <1>2, <1>3, <1>4, <1>5, <1>6, <1>7

\* The entries of a commit task are those behind the committed ones.
LEMMA BatchStands ==
  ASSUME NEW s \in NodeState, Counted(s.file), s.committed <= Len(s.file), NEW upto \in Index
  PROVE  Batch(s, upto) \in Seq(Entry) /\ Stands(Batch(s, upto), s.committed, s.file)
<1> DEFINE f == s.file
           c == s.committed
           es == GetEntries(f, c + 1)
           k == upto - c
           n == Len(es)
           j == IF k < n THEN k ELSE n
           bs == SubSeq(es, 1, j)
<1>1. f \in Seq(Entry) /\ Len(f) \in Nat /\ c \in Nat /\ c + 1 \in Nat /\ upto \in Nat
  BY DEF NodeState, Index
<1>2. es \in Seq(Entry) /\ n \in Nat
  BY <1>1, CountedEntries, LenRight
<1>3. Stands(es, c, f)
  <2>1. CASE c + 1 \in 1 .. Len(f)
    <3>1. PICK i \in Nat : i = c + 1
      BY <1>1
    <3>2. Stands(GetEntries(f, i), i - 1, f)
      BY <1>1, <2>1, <3>1, CountedEntries
    <3>3. i - 1 = c
      BY <1>1, <3>1
    <3> QED BY <3>1, <3>2, <3>3
  <2>2. CASE c + 1 \notin 1 .. Len(f)
    <3>1. es = <<>>
      BY <1>1, <2>2, CountedEntries
    <3> HIDE DEF es
    <3> QED BY <1>1, <3>1 DEF Stands
  <2> QED BY <2>1, <2>2
<1>4. CASE k < 0
  <2>1. Batch(s, upto) = es
    BY <1>4 DEF Batch
  <2> QED BY <1>2, <1>3, <2>1
<1>5. CASE ~(k < 0)
  <2>1. Batch(s, upto) = bs
    BY <1>5 DEF Batch
  <2>2. k \in Nat
    BY <1>1, <1>5
  <2> HIDE DEF es, k
  <2>3. j \in 0 .. n
    <3> HIDE DEF n
    <3> QED BY <1>2, <2>2
  <2>4. \A i \in 1 .. j : es[i] \in Entry
    <3>1. \A i \in 1 .. n : es[i] \in Entry
      BY <1>2
    <3> HIDE DEF n, j
    <3> QED BY <1>2, <2>3, <3>1
  <2> HIDE DEF j
  <2>5. bs \in Seq(Entry) /\ Len(bs) = j /\ \A i \in 1 .. j : bs[i] = es[i]
    <3>1. /\ bs \in Seq(Entry) /\ Len(bs) = IF 1 <= j THEN j - 1 + 1 ELSE 0
          /\ \A i \in 1 .. j - 1 + 1 : bs[i] = es[1 + i - 1]
      BY <2>3, <2>4, SubSeqProperties
    <3>2. j \in Nat /\ (IF 1 <= j THEN j - 1 + 1 ELSE 0) = j /\ j - 1 + 1 = j
      BY <1>2, <2>3
    <3>3. \A i \in 1 .. j : 1 + i - 1 = i
      OBVIOUS
    <3> QED BY <3>1, <3>2, <3>3
  <2> HIDE DEF bs, n
  <2>6. c + n <= Len(f) /\ \A i \in 1 .. n : es[i] = f[c + i]
    BY <1>3 DEF Stands, n
  <2>7. c + j <= Len(f) /\ \A i \in 1 .. j : i \in 1 .. n
    <3> HIDE DEF f, c
    <3> QED BY <1>1, <1>2, <2>3, <2>6
  <2> QED BY <2>1, <2>5, <2>6, <2>7 DEF Stands
<1> QED BY <1>4, <1>5

LEMMA LedRunCommit ==
  ASSUME LogInv, LogInv', NEW L \in Node, Led(L), NEW n \in Node, RunCommit(n)
  PROVE  Stays(L)
<1>0. TypeOK /\ TypeOK' /\ node[n] \in NodeState
  BY DEF LogInv, TypeOK
<1> DEFINE task == Head(node[n].tasks)
           ts == Tail(node[n].tasks)
           s == [node[n] EXCEPT !.tasks = ts]
           bs == Batch(node[n], task.upto)
<1>1. task \in Task /\ task = node[n].tasks[1] /\ task.kind = "commit"
      /\ 1 \in 1 .. Len(node[n].tasks)
  <2>1. node[n].tasks \in Seq(Task) /\ node[n].tasks # <<>> /\ task.kind = "commit"
    BY <1>0 DEF RunCommit, NodeState
  <2> QED BY <2>1, TailOf
<1>2. n # L /\ task.upto \in Index
  BY <1>1 DEF Led, CommitterInv, OnlyAnswers, Task
<1>3. /\ Counted(node[n].file) /\ node[n].committed <= Len(node[n].file)
      /\ node[n].file \in Seq(Entry) /\ node[n].committed \in Nat
  <2>1. F(n) \in Seq(Entry) /\ F(L) \in Seq(Entry)
    BY <1>0, FilesTyped
  <2>2. Counted(F(n)) /\ node[n].committed <= Size(n)
    BY <2>1, BeginsCounted DEF Led, FilesInv
  <2> QED BY <1>0, <2>1, <2>2 DEF F, Size, NodeState, Index
<1>4. ~Unreadable(node[n].file, node[n].committed + 1)
  <2>1. node[n].committed + 1 \in Nat
    BY <1>3
  <2> QED BY <1>3, <2>1, CountedRead
<1> HIDE DEF task, ts
<1>5. node' = [node EXCEPT ![n] = s] /\ committing' = [committing EXCEPT ![n] = bs]
  <2> HIDE DEF bs
  <2>1. node' = [node EXCEPT ![n].tasks = ts, ![n].fault = node[n].fault]
    BY <1>0, <1>4 DEF RunCommit, ts, TypeOK
  <2>2. [s EXCEPT !.fault = node[n].fault] = s
    BY <1>0 DEF NodeState
  <2>3. node' = [node EXCEPT ![n] = s]
    BY <1>0, <2>1, <2>2 DEF TypeOK
  <2> QED BY <1>4, <2>3 DEF RunCommit, bs, task
<1>6. /\ s.term = node[n].term /\ s.state = node[n].state /\ s.file = node[n].file
      /\ s.last = node[n].last /\ s.cmds = node[n].cmds /\ s.fault = node[n].fault
      /\ s.committed = node[n].committed /\ s.tasks = ts
  BY <1>0 DEF NodeState
<1> HIDE DEF s
<1>7. UNCHANGED <<rpcVars, call, historyVars>>
  BY DEF RunCommit
<1>8. /\ Grown /\ Ruled(L)' /\ FilesInv(L)' /\ CalledInv(L)' /\ PeerInv(L)'
      /\ node'[n] = s /\ \A k \in Node \ {n} : node'[k] = node[k]
      /\ \A k \in Node : F(k)' = F(k) /\ Size(k)' = Size(k)
  BY <1>3, <1>5, <1>6, <1>7, CommitterStays
<1>9. NoNewSuccess(node[n], s)
  <2>1. node[n].tasks # <<>>
    BY DEF RunCommit
  <2> QED BY <1>0, <1>6, <2>1, TailTasks DEF ts
<1>10. HeldInv(L)'
  <2>1. \A k \in Node : NoNewSuccess(node[k], node'[k])
    <3>1. \A k \in Node \ {n} : NoNewSuccess(node[k], node[k])
      BY NoneNew
    <3> QED BY <1>8, <1>9, <3>1
  <2>2. node'[L].committed = node[L].committed /\ answers' = answers
    BY <1>2, <1>7, <1>8 DEF historyVars
  <2> QED BY <1>0, <1>8, <2>1, <2>2, GrownHolds DEF Led
<1>11. CommitterInv(L)'
  <2>1. Stands(bs, node[n].committed, F(n))
    BY <1>0, <1>2, <1>3, BatchStands DEF F
  <2>2. committing'[n] = bs /\ \A k \in Node \ {n} : committing'[k] = committing[k]
    BY <1>0, <1>5 DEF TypeOK
  <2> HIDE DEF bs
  <2>3. \A k \in Node : node'[k].committed = node[k].committed
    BY <1>6, <1>8
  <2>4. \A k \in Node : Stands(committing[k], node[k].committed, F(k))'
    <3>1. Stands(committing'[n], node'[n].committed, F(n)')
      BY <1>8, <2>1, <2>2, <2>3
    <3>2. \A k \in Node \ {n} : Stands(committing'[k], node'[k].committed, F(k)')
      BY <1>8, <2>2, <2>3 DEF Led, CommitterInv
    <3> QED BY <3>1, <3>2
  <2>5. applied' = applied /\ committing'[L] = <<>> /\ OnlyAnswers(node'[L])
    BY <1>2, <1>7, <1>8, <2>2 DEF Led, CommitterInv, historyVars
  <2>6. \A k \in Node \ {L} : Len(applied'[k]) = node'[k].committed /\ Begins(applied'[k], F(L)')
    BY <1>8, <2>3, <2>5 DEF Led, CommitterInv
  <2> QED BY <2>4, <2>5, <2>6 DEF Led, CommitterInv
<1> QED BY <1>7, <1>8, <1>10, <1>11 DEF Led, Stays, historyVars

LEMMA LedRunAnswer ==
  ASSUME LogInv, LogInv', NEW L \in Node, Led(L), NEW n \in Node, RunAnswer(n)
  PROVE  Stays(L)
<1>0. TypeOK /\ TypeOK' /\ node[n] \in NodeState
  BY DEF LogInv, TypeOK
<1> DEFINE task == Head(node[n].tasks)
           ts == Tail(node[n].tasks)
           s == [node[n] EXCEPT !.tasks = ts]
<1>1. task \in Task /\ task = node[n].tasks[1] /\ task.kind = "answer"
      /\ 1 \in 1 .. Len(node[n].tasks)
  <2>1. node[n].tasks \in Seq(Task) /\ node[n].tasks # <<>> /\ task.kind = "answer"
    BY <1>0 DEF RunAnswer, NodeState
  <2> QED BY <2>1, TailOf
<1>2. task.call \in Calls /\ task.ok \in BOOLEAN
  BY <1>1 DEF Task
<1>3. task.ok => Held(task.call, L)
  BY <1>1 DEF Led, HeldInv, Succeeds
<1>4. node' = [node EXCEPT ![n] = s]
      /\ answers' = [answers EXCEPT ![task.call] = Append(answers[task.call], task.ok)]
  BY <1>0, <1>2 DEF RunAnswer, TypeOK
<1> HIDE DEF task, ts
<1>5. /\ s.term = node[n].term /\ s.state = node[n].state /\ s.file = node[n].file
      /\ s.last = node[n].last /\ s.cmds = node[n].cmds /\ s.fault = node[n].fault
      /\ s.committed = node[n].committed /\ s.tasks = ts
  BY <1>0 DEF NodeState
<1> HIDE DEF s
<1>6. UNCHANGED <<committing, rpcVars, call, applied>>
  BY DEF RunAnswer
<1>7. s.committed <= Len(s.file)
  BY <1>5 DEF Led, FilesInv, Size
<1>8. /\ Grown /\ Ruled(L)' /\ FilesInv(L)' /\ CalledInv(L)' /\ PeerInv(L)'
      /\ node'[n] = s /\ \A k \in Node \ {n} : node'[k] = node[k]
      /\ \A k \in Node : F(k)' = F(k) /\ Size(k)' = Size(k)
  BY <1>4, <1>5, <1>6, <1>7, CommitterStays
<1>9. NoNewSuccess(node[n], s) /\ (OnlyAnswers(node[n]) => OnlyAnswers(s))
  <2>1. node[n].tasks # <<>>
    BY DEF RunAnswer
  <2> QED BY <1>0, <1>5, <2>1, TailTasks DEF ts
<1>10. \A k \in Node : node'[k].committed = node[k].committed
  BY <1>5, <1>8
<1>11. CommitterInv(L)'
  <2>1. OnlyAnswers(node'[L])
    BY <1>8, <1>9 DEF Led, CommitterInv
  <2>2. node'[L].committed <= Size(L)'
    BY <1>8 DEF FilesInv
  <2> QED BY <1>0, <1>6, <1>8, <1>10, <2>1, <2>2, GrownCommitter DEF Led
<1>12. HeldInv(L)'
  <2>1. \A c \in Calls : Held(c, L) => Held(c, L)'
    BY <1>0, <1>8, GrownHeld
  <2>2. node'[L].committed > 0 => \E m \in Node \ {L} : node'[L].committed <= Size(m)'
    BY <1>8, <1>10 DEF Led, HeldInv
  <2>3. ASSUME NEW k \in Node, NEW j \in 1 .. Len(node'[k].tasks), Succeeds(node'[k].tasks[j])
        PROVE  Held(node[k].tasks[j].call, L)'
    <3> PICK c : c = node'[k].tasks[j].call
      OBVIOUS
    <3>1. NoNewSuccess(node[k], node'[k])
      BY <1>8, <1>9, NoneNew
    <3>2. PICK i \in 1 .. Len(node[k].tasks) : node[k].tasks[i] = node'[k].tasks[j]
      BY <2>3, <3>1 DEF NoNewSuccess
    <3>3. Held(c, L)
      BY <2>3, <3>2 DEF Led, HeldInv
    <3>4. c \in Calls
      <4>1. node'[k].tasks \in Seq(Task)
        BY <1>0 DEF TypeOK, NodeState
      <4>2. node'[k].tasks[j] \in Task
        BY <4>1, LenRight
      <4> QED BY <2>3, <4>2 DEF Succeeds, Task
    <3>5. Held(c, L)'
      BY <2>1, <3>3, <3>4
    <3> QED BY <3>5 DEF Held
  <2>4. ASSUME NEW c \in Calls, NEW k \in 1 .. Len(answers'[c]), answers'[c][k]
        PROVE  Held(c, L)'
    <3>1. CASE c # task.call
      <4>1. answers'[c] = answers[c]
        BY <1>0, <1>4, <3>1 DEF TypeOK
      <4> QED BY <2>1, <2>4, <4>1 DEF Led, HeldInv
    <3>2. CASE c = task.call
      <4> DEFINE as == answers[c]
      <4>1. answers'[c] = Append(as, task.ok) /\ as \in Seq(BOOLEAN)
        BY <1>0, <1>2, <1>4, <3>2 DEF TypeOK
      <4>2. /\ Len(as) \in Nat /\ Len(answers'[c]) = Len(as) + 1
            /\ \A i \in 1 .. Len(as) : answers'[c][i] = as[i]
            /\ answers'[c][Len(as) + 1] = task.ok
        BY <1>2, <4>1, AppendTo
      <4>3. k \in 1 .. Len(as) \/ k = Len(as) + 1
        BY <4>2
      <4>4. CASE k = Len(as) + 1
        BY <1>3, <2>1, <2>4, <3>2, <4>2, <4>4
      <4>5. CASE k \in 1 .. Len(as)
        <5>1. as[k]
          BY <2>4, <4>2, <4>5
        <5> QED BY <2>1, <4>5, <5>1 DEF Led, HeldInv
      <4> QED BY <4>3, <4>4, <4>5
    <3> QED BY <3>1, <3>2
  <2> QED BY <2>2, <2>3, <2>4 DEF HeldInv
<1> QED BY <1>6, <1>8, <1>11, <1>12 DEF Led, Stays

\* A follower applies the entry of the leader's log behind those it has applied.
LEMMA LedApplyEntry ==
  ASSUME LogInv, LogInv', NEW L \in Node, Led(L), NEW n \in Node, ApplyEntry(n)
  PROVE  /\ Led(L)' /\ F(L)' = F(L)
         /\ LET k == Len(applied[n]) + 1
            IN  k <= Len(F(L)) /\ applied' = [applied EXCEPT ![n] = Append(applied[n], F(L)[k])]
<1>0. TypeOK /\ TypeOK' /\ node[n] \in NodeState
  BY DEF LogInv, TypeOK
<1> DEFINE e == Head(committing[n])
           c == node[n].committed
           f == F(n)
           es == committing[n]
           as == applied[n]
           s == [node[n] EXCEPT !.committed = c + 1]
<1>1. n # L /\ es # <<>>
  BY DEF ApplyEntry, Led, CommitterInv
<1>2. /\ es \in Seq(Entry) /\ c \in Nat /\ c + 1 \in Nat /\ f \in Seq(Entry) /\ Len(f) = Size(n)
      /\ Len(f) \in Nat /\ as \in Seq(Entry) /\ F(L) \in Seq(Entry) /\ Len(F(L)) \in Nat
  <2>1. es \in Seq(Entry) /\ as \in Seq(Entry)
    BY <1>0 DEF TypeOK
  <2>2. c \in Nat
    BY <1>0 DEF NodeState, Index
  <2>3. c + 1 \in Nat
    BY <2>2
  <2>4. F(n) \in Seq(Entry) /\ Size(n) \in Nat /\ Size(n) = Len(F(n))
    BY <1>0, FilesTyped
  <2>5. F(L) \in Seq(Entry) /\ Size(L) \in Nat /\ Size(L) = Len(F(L))
    BY <1>0, FilesTyped
  <2> QED BY <2>1, <2>2, <2>3, <2>4, <2>5
<1>3. Stands(es, c, f) /\ Len(as) = c /\ Begins(as, F(L)) /\ Begins(f, F(L)) /\ Counted(F(L))
  BY <1>1 DEF Led, CommitterInv, FilesInv
<1>4. Counted(f)
  BY <1>2, <1>3, BeginsCounted
<1>5. Stands(Tail(es), c + 1, f) /\ e = f[c + 1] /\ c + 1 \in 1 .. Len(f)
  BY <1>1, <1>2, <1>3, StandsTail
<1>6. e.index = c + 1 /\ e = F(L)[c + 1] /\ c + 1 <= Len(F(L)) /\ e \in Entry
  <2>1. e.index = c + 1 /\ e = F(L)[c + 1] /\ e \in Entry
    BY <1>2, <1>3, <1>4, <1>5 DEF Counted, Begins
  <2>2. Len(f) <= Len(F(L)) /\ c + 1 <= Len(f)
    BY <1>3, <1>5 DEF Begins
  <2>3. c + 1 <= Len(F(L))
    <3> DEFINE x == c + 1
               a == Len(f)
               b == Len(F(L))
    <3>1. x \in Nat /\ a \in Nat /\ b \in Nat /\ x <= a /\ a <= b
      BY <1>2, <2>2
    <3>2. x <= b
      <4> HIDE DEF x, a, b
      <4> QED BY <3>1
    <3> QED BY <3>2
  <2> QED BY <2>1, <2>3
<1>7. /\ node' = [node EXCEPT ![n] = s] /\ applied' = [applied EXCEPT ![n] = Append(as, e)]
      /\ committing' = [committing EXCEPT ![n] = Tail(es)]
  <2>1. node' = [node EXCEPT ![n].fault = node[n].fault, ![n].committed = c + 1]
    BY <1>0, <1>6 DEF ApplyEntry, TypeOK
  <2>2. s = [node[n] EXCEPT !.fault = node[n].fault, !.committed = c + 1]
    BY <1>0 DEF NodeState
  <2>3. node' = [node EXCEPT ![n] = s]
    BY <1>0, <2>1, <2>2 DEF TypeOK
  <2> QED BY <1>6, <2>3 DEF ApplyEntry
<1> HIDE DEF e
<1>8. /\ s.term = node[n].term /\ s.state = node[n].state /\ s.file = node[n].file
      /\ s.last = node[n].last /\ s.cmds = node[n].cmds /\ s.fault = node[n].fault
      /\ s.committed = c + 1 /\ s.tasks = node[n].tasks
  BY <1>0 DEF NodeState
<1> HIDE DEF s
<1>9. UNCHANGED <<rpcVars, call, answers>>
  BY DEF ApplyEntry
<1>10. s.committed <= Len(s.file)
  BY <1>2, <1>5, <1>8 DEF F
<1>11. /\ Grown /\ Ruled(L)' /\ FilesInv(L)' /\ CalledInv(L)' /\ PeerInv(L)'
       /\ node'[n] = s /\ \A k \in Node \ {n} : node'[k] = node[k]
       /\ \A k \in Node : F(k)' = F(k) /\ Size(k)' = Size(k)
  BY <1>7, <1>8, <1>9, <1>10, CommitterStays
<1>12. HeldInv(L)'
  <2>1. \A k \in Node : NoNewSuccess(node[k], node'[k])
    BY <1>8, <1>11, NoneNew
  <2>2. node'[L].committed = node[L].committed /\ answers' = answers
    BY <1>1, <1>9, <1>11
  <2> QED BY <1>0, <1>11, <2>1, <2>2, GrownHolds DEF Led
<1>13. CommitterInv(L)'
  <2>1. /\ committing'[n] = Tail(es) /\ \A k \in Node \ {n} : committing'[k] = committing[k]
        /\ applied'[n] = Append(as, e) /\ \A k \in Node \ {n} : applied'[k] = applied[k]
    BY <1>0, <1>7 DEF TypeOK
  <2>2. node'[n].committed = c + 1 /\ \A k \in Node \ {n} : node'[k].committed = node[k].committed
    BY <1>8, <1>11
  <2>3. \A k \in Node : Stands(committing[k], node[k].committed, F(k))'
    <3>1. Stands(committing'[n], node'[n].committed, F(n)')
      BY <1>5, <1>11, <2>1, <2>2
    <3>2. \A k \in Node \ {n} : Stands(committing'[k], node'[k].committed, F(k)')
      BY <1>11, <2>1, <2>2 DEF Led, CommitterInv
    <3> QED BY <3>1, <3>2
  <2>4. applied'[L] = <<>> /\ committing'[L] = <<>> /\ OnlyAnswers(node'[L])
    BY <1>1, <1>11, <2>1 DEF Led, CommitterInv
  <2>5. Len(applied'[n]) = node'[n].committed /\ Begins(applied'[n], F(L)')
    <3> DEFINE bs == Append(as, e)
    <3>1. /\ Len(bs) = Len(as) + 1 /\ \A i \in 1 .. Len(as) : bs[i] = as[i]
          /\ bs[Len(as) + 1] = e
      BY <1>2, <1>6, AppendTo
    <3> HIDE DEF bs
    <3>2. \A i \in 1 .. Len(bs) : i \in 1 .. Len(as) \/ i = c + 1
      BY <1>2, <1>3, <3>1
    <3>3. \A i \in 1 .. Len(as) : bs[i] = F(L)[i]
      BY <1>3, <3>1 DEF Begins
    <3>4. bs[c + 1] = F(L)[c + 1] /\ Len(bs) = c + 1
      BY <1>3, <1>6, <3>1
    <3>5. Begins(bs, F(L))
      BY <1>6, <3>2, <3>3, <3>4 DEF Begins
    <3>6. applied'[n] = bs
      BY <2>1 DEF bs
    <3> QED BY <1>11, <2>2, <3>4, <3>5, <3>6
  <2>6. \A k \in Node \ {L} : Len(applied'[k]) = node'[k].committed /\ Begins(applied'[k], F(L)')
    <3>1. \A k \in Node \ {L, n} : Len(applied'[k]) = node'[k].committed /\ Begins(applied'[k], F(L)')
      BY <1>11, <2>1, <2>2 DEF Led, CommitterInv
    <3> QED BY <2>5, <3>1
  <2> QED BY <2>3, <2>4, <2>6 DEF CommitterInv
<1>14. Led(L)'
  BY <1>11, <1>12, <1>13 DEF Led
<1>15. applied' = [applied EXCEPT ![n] = Append(applied[n], F(L)[Len(applied[n]) + 1])]
  BY <1>3, <1>6, <1>7
<1>16. Len(applied[n]) + 1 <= Len(F(L))
  BY <1>3, <1>6
<1> QED BY <1>11, <1>14, <1>15, <1>16

-----------------------------------------------------------------------------
(* The election, of which there is one.                                    *)

\* Two majorities meet.
LEMMA NoSecond ==
  ASSUME OneTerm, LogInv, NEW L \in Node, Led(L), NEW n \in Node, NEW Q \in SUBSET Others(n),
         NEW t \in Term
  PROVE  ~Elect(n, Q, t)
<1> SUFFICES ASSUME Elect(n, Q, t) PROVE FALSE
  OBVIOUS
<1> USE LogAssumption
<1>1. PICK S \in SUBSET Node : /\ Cardinality(S) = Cardinality(Node) \div 2 + 1
                               /\ \A v \in S : node[v].term = 1
  BY DEF Led, Ruled
<1>2. t \in 0 .. 1 /\ t > node[n].term /\ \A v \in Q : node[v].term < t
  BY DEF Elect, Term, OneTerm
<1> DEFINE R == Q \cup {n}
<1>3. Q \in SUBSET Node /\ n \notin Q
  BY DEF Others
<1>4. \A v \in Node : node[v].term \in Int
  BY DEF LogInv, TypeOK, NodeState, Term
<1>5. \A v \in R : node[v].term # 1
  BY <1>2, <1>3, <1>4
<1>6. S \cap R = {}
  BY <1>1, <1>5
<1>7. IsFiniteSet(S) /\ IsFiniteSet(Q) /\ IsFiniteSet(R)
  <2>1. R \in SUBSET Node
    BY <1>3
  <2> QED BY <1>1, <1>3, <2>1, FS_Subset
<1>8. Cardinality(Q) = Cardinality(Node) \div 2
  BY DEF Elect, MajorityLess1
<1>9. Cardinality(R) = Cardinality(Q) + 1
  BY <1>3, <1>7, FS_AddElement
<1>10. Cardinality(S \cup R) = Cardinality(S) + Cardinality(R)
  <2>1. Cardinality(S \cap R) = 0
    BY <1>6, FS_EmptySet
  <2>2. Cardinality(S \cup R) = Cardinality(S) + Cardinality(R) - Cardinality(S \cap R)
    BY <1>7, FS_Union
  <2>3. Cardinality(S) \in Nat /\ Cardinality(R) \in Nat
    BY <1>7, FS_CardinalityType
  <2> QED BY <2>1, <2>2, <2>3
<1>11. Cardinality(S \cup R) <= Cardinality(Node) /\ Cardinality(Node) \in Nat
  <2>1. S \cup R \in SUBSET Node
    BY <1>1, <1>3
  <2> QED BY <2>1, FS_Subset, FS_CardinalityType
<1> DEFINE N == Cardinality(Node)
           a == Cardinality(S \cup R)
           b == Cardinality(S)
           c == Cardinality(R)
           d == Cardinality(Q)
<1>12. N \in Nat /\ a <= N /\ a = b + c /\ b = N \div 2 + 1 /\ c = d + 1 /\ d = N \div 2
  BY <1>1, <1>8, <1>9, <1>10, <1>11
<1> HIDE DEF N, a, b, c, d
<1>13. 2 * (N \div 2) >= N - 1 /\ N \div 2 \in Nat
  BY <1>12
<1> QED BY <1>12, <1>13

LEMMA NobodyStands ==
  ASSUME OneTerm, NEW n \in Node
  PROVE  ~Stand(n)
BY DEF Stand, OneTerm

\* What the first election makes of a node.
LEMMA FirstNode ==
  ASSUME OneTerm, LogInv, Init, NEW n \in Node, NEW Q \in SUBSET Others(n), NEW t \in Term,
         Elect(n, Q, t), NEW v \in Node
  PROVE  /\ node'[v].term = IF v \in Q \cup {n} THEN 1 ELSE 0
         /\ node'[v].state = IF v = n THEN "leader" ELSE "follower"
         /\ node'[v].file = <<>> /\ node'[v].last = 0 /\ node'[v].committed = 0
         /\ node'[v].fault = "none"
         /\ v # n => node'[v].cmds = [m \in Node |-> <<>>]
         /\ \A k \in 1 .. Len(node'[v].tasks) : ~Succeeds(node'[v].tasks[k])
         /\ v = n => node'[v].tasks = <<>>
<1>1. \A w \in Node : node[w] = NewNode
  BY DEF Init
<1>2. NodeRight(NewNode) /\ NewNode \in NodeState
  BY <1>1 DEF LogInv, TypeOK, CallbackInv, NodeRight
<1>3. t = 1
  <2>1. t \in 0 .. 1 /\ t > 0
    BY <1>1 DEF Elect, OneTerm, Term, NewNode
  <2> QED BY <2>1
<1>4. n \notin Q
  BY DEF Others
<1>5. CASE v = n
  <2>1. node'[v] = [SendAll(NewNode, n, "append") EXCEPT !.term = t, !.state = "leader"]
    BY <1>1, <1>5 DEF Elect
  <2> QED BY <1>3, <1>4, <1>5, <2>1 DEF SendAll, NewNode
<1>6. CASE v \in Q
  <2> DEFINE d == StepDown(NewNode, v, t)
  <2>1. node'[v] = d
    BY <1>1, <1>4, <1>6 DEF Elect
  <2>2. SameLog(NewNode, d) /\ d.state = "follower" /\ Unsuccessful(NewNode, d)
        /\ d.term = IF t > NewNode.term THEN t ELSE NewNode.term
    <3>1. NewNode.state # "leader"
      BY DEF NewNode
    <3> QED BY <1>2, <3>1, StepDownKeeps
  <2> HIDE DEF d
  <2>3. \A k \in 1 .. Len(d.tasks) : ~Succeeds(d.tasks[k])
    <3>1. 1 .. Len(NewNode.tasks) = {}
      BY DEF NewNode
    <3> QED BY <2>2, <3>1 DEF Unsuccessful
  <2> QED BY <1>3, <1>4, <1>6, <2>1, <2>2, <2>3 DEF SameLog, NewNode
<1>7. CASE v \notin Q \cup {n}
  <2>1. node'[v] = NewNode
    BY <1>1, <1>7 DEF Elect
  <2> QED BY <1>7, <2>1 DEF NewNode
<1> QED BY <1>5, <1>6, <1>7

LEMMA FirstElect ==
  ASSUME OneTerm, LogInv, Init, NEW n \in Node, NEW Q \in SUBSET Others(n), NEW t \in Term,
         Elect(n, Q, t)
  PROVE  Led(n)' /\ F(n)' = <<>> /\ applied' = applied
<1> USE LogAssumption
<1>1. \A v \in Node :
         /\ node'[v].term = IF v \in Q \cup {n} THEN 1 ELSE 0
         /\ node'[v].state = IF v = n THEN "leader" ELSE "follower"
         /\ node'[v].file = <<>> /\ node'[v].last = 0 /\ node'[v].committed = 0
         /\ node'[v].fault = "none"
         /\ v # n => node'[v].cmds = [m \in Node |-> <<>>]
         /\ \A k \in 1 .. Len(node'[v].tasks) : ~Succeeds(node'[v].tasks[k])
         /\ v = n => node'[v].tasks = <<>>
  BY FirstNode
<1>2. \A v \in Node : F(v)' = <<>> /\ Size(v)' = 0
  BY <1>1 DEF F, Size
<1>3. UNCHANGED <<thread, rpc, late, committing, call, lost, applied, answers>>
  BY DEF Elect
<1>4. Ruled(n)'
  <2> DEFINE S == Q \cup {n}
  <2>1. S \in SUBSET Node /\ Q \in SUBSET Node /\ n \notin Q
    BY DEF Others
  <2>2. Cardinality(S) = Cardinality(Node) \div 2 + 1
    <3>1. IsFiniteSet(Q)
      BY <2>1, FS_Subset
    <3> QED BY <2>1, <3>1, FS_AddElement DEF Elect, MajorityLess1
  <2>3. \A v \in S : node'[v].term = 1
    BY <1>1, <2>1
  <2>4. \A v \in Node : node'[v].state = "leader" <=> v = n
    BY <1>1
  <2> HIDE DEF S
  <2> QED BY <1>1, <2>1, <2>2, <2>3, <2>4 DEF Ruled, S
<1>5. FilesInv(n)'
  BY <1>1, <1>2 DEF FilesInv, Counted, Begins
<1>6. CalledInv(n)'
  <2>1. \A c \in Calls : call'[c].at = "new"
    BY <1>3 DEF Init
  <2> QED BY <2>1 DEF CalledInv, CallRight
<1>7. PeerInv(n)'
  <2>1. \A k \in Node, m \in Node : thread'[k][m] = IdleThread /\ rpc'[k][m] = NoRpc
    BY <1>3 DEF Init
  <2>2. \A m \in Node : late'[m] = {}
    BY <1>3 DEF Init
  <2>3. \A k \in Node \ {n}, m \in Node : node'[k].cmds[m] = <<>>
    BY <1>1
  <2>4. ASSUME NEW m \in Node \ {n} PROVE PeerRight(m, n)'
    <3>1. thread'[n][m].at = "idle" /\ ~(thread'[n][m].next > 1)
      BY <2>1 DEF IdleThread
    <3> QED BY <2>1, <2>2, <3>1 DEF PeerRight
  <2> QED BY <2>1, <2>2, <2>3, <2>4 DEF PeerInv
<1>8. CommitterInv(n)'
  <2>1. \A k \in Node : committing'[k] = <<>> /\ applied'[k] = <<>>
    BY <1>3 DEF Init
  <2>2. \A k \in Node : Stands(committing[k], node[k].committed, F(k))'
    BY <1>1, <1>2, <2>1 DEF Stands
  <2>3. OnlyAnswers(node[n])'
    BY <1>1 DEF OnlyAnswers
  <2>4. \A k \in Node : Len(applied'[k]) = node'[k].committed /\ Begins(applied'[k], F(n)')
    BY <1>1, <1>2, <2>1 DEF Begins
  <2> QED BY <2>1, <2>2, <2>3, <2>4 DEF CommitterInv
<1>9. HeldInv(n)'
  <2>1. \A c \in Calls : answers'[c] = <<>>
    BY <1>3 DEF Init
  <2>2. ~(node'[n].committed > 0)
    BY <1>1
  <2> QED BY <1>1, <2>1, <2>2 DEF HeldInv
<1> QED BY <1>2, <1>3, <1>4, <1>5, <1>6, <1>7, <1>8, <1>9 DEF Led

\* Before it nothing else happens.
LEMMA FirstIsElect ==
  ASSUME OneTerm, Init, Next
  PROVE  \E n \in Node : \E Q \in SUBSET Others(n), t \in Term : Elect(n, Q, t)
<1>1. \A n \in Node : /\ node[n].state = "follower" /\ node[n].tasks = <<>>
                      /\ \A m \in Node : node[n].cmds[m] = <<>>
  BY DEF Init, NewNode
<1>2. \A n \in Node, m \in Node : thread[n][m].at = "idle" /\ rpc[n][m] = NoRpc
  BY DEF Init, IdleThread
<1>3. \A n \in Node : committing[n] = <<>> /\ late[n] = {}
  BY DEF Init
<1>4. \A c \in Calls : call[c].at = "new" /\ call[c].timer = "no"
  BY DEF Init
<1>5. \A c \in Calls : ~CallStep(c) /\ \A n \in Node : ~Ask(c, n)
  BY <1>1, <1>4 DEF CallStep, Ask, Stamp, WriteEntry, Register, Due, Expire
<1>6. \A n \in Node : ~CommitterStep(n)
  BY <1>1, <1>3 DEF CommitterStep, RunCommit, RunAnswer, ApplyEntry
<1>7. \A n \in Node : \A m \in Others(n) : ~ThreadStep(n, m)
  BY <1>1, <1>2 DEF ThreadStep, TakeCommand, Look, StampRequest, Send, Refused, NewTerm, Accepted,
     Others
<1>8. \A n \in Node : \A m \in Others(n) : ~GiveUp(n, m) /\ ~Serve(n, m)
  BY <1>2 DEF GiveUp, Serve, Others
<1> QED BY <1>3, <1>5, <1>6, <1>7, <1>8, NobodyStands DEF Next

-----------------------------------------------------------------------------
(* Every step.                                                             *)

Extends(L) == /\ Led(L)' /\ applied' = applied
              /\ \E e \in Entry : F(L)' = Append(F(L), e)

Delivers(L) ==
  /\ Led(L)' /\ F(L)' = F(L)
  /\ \E n \in Node : LET k == Len(applied[n]) + 1
                     IN  /\ k <= Len(F(L))
                         /\ applied' = [applied EXCEPT ![n] = Append(applied[n], F(L)[k])]

LEMMA LedNext ==
  ASSUME OneTerm, LogInv, LogInv', NEW L \in Node, Led(L), Next
  PROVE  Stays(L) \/ Extends(L) \/ Delivers(L)
<1>1. CASE \E n \in Node : \E Q \in SUBSET Others(n), t \in Term : Elect(n, Q, t)
  BY <1>1, NoSecond
<1>2. CASE \E n \in Node : Stand(n)
  BY <1>2, NobodyStands
<1>3. CASE \E c \in Calls, n \in Node : Ask(c, n)
  BY <1>3, LedAsk
<1>4. ASSUME NEW c \in Calls, CallStep(c) PROVE Stays(L) \/ Extends(L)
  BY <1>4, LedStamp, LedWriteEntry, LedRegister, LedDue, LedExpire DEF CallStep, Extends
<1>5. ASSUME NEW n \in Node, CommitterStep(n) PROVE Stays(L) \/ Delivers(L)
  BY <1>5, LedRunCommit, LedRunAnswer, LedApplyEntry DEF CommitterStep, Delivers
<1>6. ASSUME NEW n \in Node, NEW m \in Others(n), ThreadStep(n, m) PROVE Stays(L)
  BY <1>6, LedTakeCommand, LedLook, LedStampRequest, LedSend, LedRefused, LedNewTerm, LedAccepted
     DEF ThreadStep
<1>7. ASSUME NEW n \in Node, NEW m \in Others(n), GiveUp(n, m) \/ Serve(n, m) PROVE Stays(L)
  BY <1>7, LedGiveUp, LedServe
<1>8. ASSUME NEW m \in Node, NEW q \in late[m], ServeLate(m, q) PROVE Stays(L)
  BY <1>8, LedServeLate
<1> QED BY <1>1, <1>2, <1>3, <1>4, <1>5, <1>6, <1>7, <1>8 DEF Next

LEMMA FirstNext ==
  ASSUME OneTerm, LogInv, Init, Next
  PROVE  \E n \in Node : Led(n)' /\ F(n)' = <<>> /\ applied' = applied
<1>1. PICK n \in Node : \E Q \in SUBSET Others(n), t \in Term : Elect(n, Q, t)
  BY FirstIsElect
<1> QED BY <1>1, FirstElect

LEMMA LedStutter ==
  ASSUME NEW L \in Node, Led(L), UNCHANGED vars
  PROVE  Stays(L)
<1>0. /\ node' = node /\ thread' = thread /\ rpc' = rpc /\ late' = late
      /\ committing' = committing /\ call' = call /\ applied' = applied /\ answers' = answers
  BY DEF vars
<1>1. Ruled(L)' /\ FilesInv(L)' /\ CalledInv(L)'
  BY <1>0 DEF Led, Ruled, FilesInv, CalledInv, CallRight, F, Size
<1>2. PeerInv(L)'
  BY <1>0 DEF Led, PeerInv, PeerRight, Sent, Answers1, F, Size
<1>3. CommitterInv(L)' /\ HeldInv(L)'
  BY <1>0 DEF Led, CommitterInv, HeldInv, Held, OnlyAnswers, F, Size
<1> QED BY <1>0, <1>1, <1>2, <1>3 DEF Led, Stays, F

LEMMA OrderNext ==
  ASSUME OneTerm, OrderInv, LogInv', [Next]_vars
  PROVE  OrderInv'
<1>1. CASE Init /\ Next
  BY <1>1, FirstNext DEF OrderInv
<1>2. CASE Init /\ UNCHANGED vars
  BY <1>2 DEF OrderInv, Init, vars
<1>3. ASSUME NEW L \in Node, Led(L) PROVE OrderInv'
  <2>1. CASE Next
    BY <1>3, <2>1, LedNext DEF OrderInv, Stays, Extends, Delivers
  <2>2. CASE UNCHANGED vars
    BY <1>3, <2>2, LedStutter DEF OrderInv, Stays
  <2> QED BY <2>1, <2>2
<1> QED BY <1>1, <1>2, <1>3 DEF OrderInv

LEMMA OrderInvariant ==
  ASSUME OneTerm
  PROVE  Spec => []OrderInv
<1>1. Init /\ LogInv => OrderInv
  BY DEF OrderInv
<1>2. OrderInv /\ LogInv' /\ [Next]_vars => OrderInv'
  BY OrderNext
<1> QED BY LogInvariant, <1>1, <1>2, PTL DEF Spec

-----------------------------------------------------------------------------
(* What is proved.                                                         *)

\* Two nodes of three are a majority.
LEMMA TwoOfThree ==
  ASSUME Cardinality(Node) <= 3, NEW S \in SUBSET Node, NEW m \in S, NEW n \in S, m # n
  PROVE  Majority(S)
<1> USE LogAssumption
<1>1. IsFiniteSet(S) /\ Cardinality(S) \in Nat /\ Cardinality(Node) \in Nat
  BY FS_Subset, FS_CardinalityType
<1>2. Cardinality({m, n}) = 2
  <2>1. IsFiniteSet({m}) /\ Cardinality({m}) = 1
    BY FS_Singleton
  <2>2. {m, n} = {m} \cup {n} /\ n \notin {m}
    OBVIOUS
  <2>3. Cardinality({m} \cup {n}) = Cardinality({m}) + 1
    BY <2>1, <2>2, FS_AddElement
  <2> QED BY <2>1, <2>2, <2>3
<1>3. Cardinality({m, n}) <= Cardinality(S)
  <2>1. {m, n} \in SUBSET S
    OBVIOUS
  <2> QED BY <1>1, <2>1, FS_Subset
<1> QED BY <1>1, <1>2, <1>3 DEF Majority

LEMMA LedHolds ==
  ASSUME TypeOK, Cardinality(Node) <= 3, NEW L \in Node, Led(L)
  PROVE  LogHeld
<1>1. OrderAssert
  BY DEF Led, FilesInv, OrderAssert
<1>2. \A n \in Node : /\ Begins(F(n), F(L)) /\ F(n) \in Seq(Entry)
                      /\ Size(n) = Len(F(n)) /\ Size(n) \in Nat
                      /\ DOMAIN F(n) = 1 .. Size(n)
  BY FilesTyped DEF Led, FilesInv
<1>3. \A n \in Node : \A k \in 1 .. Size(n) : F(n)[k] = F(L)[k] /\ k \in 1 .. Size(L)
  <2> SUFFICES ASSUME NEW n \in Node, NEW k \in 1 .. Size(n)
               PROVE  F(n)[k] = F(L)[k] /\ k \in 1 .. Size(L)
    OBVIOUS
  <2> DEFINE a == Size(n)
             b == Size(L)
  <2>1. a \in Nat /\ b \in Nat /\ a <= b /\ F(n)[k] = F(L)[k] /\ k \in 1 .. a
    BY <1>2 DEF Begins
  <2>2. k \in 1 .. b
    <3> HIDE DEF a, b
    <3> QED BY <2>1
  <2> QED BY <2>1, <2>2
<1>4. AnsweredHeld
  <2> SUFFICES ASSUME NEW c \in Calls, TRUE \in {answers[c][k] : k \in DOMAIN answers[c]}
               PROVE  Majority({n \in Node : \E k \in DOMAIN node[n].file :
                                               node[n].file[k].data = c})
    BY DEF AnsweredHeld
  <2>1. answers[c] \in Seq(BOOLEAN)
    BY DEF TypeOK
  <2>2. PICK k \in 1 .. Len(answers[c]) : answers[c][k]
    <3> DEFINE as == answers[c]
    <3>1. DOMAIN as = 1 .. Len(as)
      BY <2>1
    <3> HIDE DEF as
    <3>2. \E k \in DOMAIN as : as[k] = TRUE
      BY DEF as
    <3> QED BY <3>1, <3>2 DEF as
  <2>3. Held(c, L)
    BY <2>2 DEF Led, HeldInv
  <2>4. PICK m \in Node \ {L} : \E j \in 1 .. Size(m) : F(m)[j].data = c
    BY <2>3 DEF Held
  <2>5. PICK j \in 1 .. Size(m) : F(m)[j].data = c
    BY <2>4
  <2>6. j \in DOMAIN F(m) /\ j \in DOMAIN F(L) /\ F(L)[j].data = c
    BY <1>2, <1>3, <2>5
  <2> DEFINE S == {n \in Node : \E i \in DOMAIN node[n].file : node[n].file[i].data = c}
  <2>7. m \in S /\ L \in S /\ m # L /\ S \in SUBSET Node
    BY <2>5, <2>6 DEF F
  <2> HIDE DEF S
  <2>8. Majority(S)
    BY <2>7, TwoOfThree
  <2> QED BY <2>8 DEF S
<1>5. CommittedHeld
  <2> SUFFICES ASSUME NEW n \in Node, NEW k \in 1 .. node[n].committed
               PROVE  k \in DOMAIN F(n) /\ Majority(HoldersOf(F(n)[k]))
    BY DEF CommittedHeld, F
  <2>1. node[n].committed \in Nat /\ node[n].committed <= Size(n)
    BY DEF TypeOK, NodeState, Index, Led, FilesInv
  <2>2. k \in 1 .. Size(n)
    <3> DEFINE x == node[n].committed
               a == Size(n)
    <3>1. x \in Nat /\ a \in Nat /\ x <= a /\ k \in 1 .. x
      BY <1>2, <2>1
    <3> HIDE DEF x, a
    <3>2. k \in 1 .. a
      BY <3>1
    <3> QED BY <3>2 DEF a
  <2>3. \E m \in Node \ {L} : k \in 1 .. Size(m) /\ F(m)[k] = F(n)[k] /\ F(L)[k] = F(n)[k]
    <3>1. CASE n # L
      BY <1>3, <2>2, <3>1
    <3>2. CASE n = L
      <4>1. node[L].committed > 0
        BY <2>1, <3>2
      <4>2. PICK m \in Node \ {L} : node[L].committed <= Size(m)
        BY <4>1 DEF Led, HeldInv
      <4>3. k \in 1 .. Size(m)
        <5> DEFINE x == node[n].committed
                   a == Size(m)
        <5>1. x \in Nat /\ a \in Nat /\ x <= a /\ k \in 1 .. x
          BY <1>2, <2>1, <3>2, <4>2
        <5> HIDE DEF x, a
        <5>2. k \in 1 .. a
          BY <5>1
        <5> QED BY <5>2 DEF a
      <4> QED BY <1>3, <3>2, <4>3
    <3> QED BY <3>1, <3>2
  <2>4. PICK m \in Node \ {L} : k \in 1 .. Size(m) /\ F(m)[k] = F(n)[k] /\ F(L)[k] = F(n)[k]
    BY <2>3
  <2>5. k \in DOMAIN F(n) /\ k \in DOMAIN F(m) /\ k \in DOMAIN F(L)
    BY <1>2, <1>3, <2>2, <2>4
  <2> DEFINE S == HoldersOf(F(n)[k])
  <2>6. m \in S /\ L \in S /\ m # L /\ S \in SUBSET Node
    BY <2>4, <2>5 DEF HoldersOf, F
  <2> HIDE DEF S
  <2>7. Majority(S)
    BY <2>6, TwoOfThree
  <2> QED BY <2>5, <2>7 DEF S
<1> QED BY <1>1, <1>4, <1>5 DEF LogHeld

\* As long as the leader stays, the committer applies the entry after the last
\* one it applied (raft.hpp:299), a call is answered with success only when a
\* majority holds its entry, and what a node takes for committed is in its log
\* and in a majority's.  append_entries_callback (raft.hpp:642) counts responses
\* and not nodes, so that this is of three nodes at most.
THEOREM LeaderKeepsLog ==
  ASSUME OneTerm, Cardinality(Node) <= 3
  PROVE  Spec => []LogHeld
<1>1. OrderInv => LogHeld
  <2> SUFFICES ASSUME OrderInv PROVE LogHeld
    OBVIOUS
  <2>1. CASE \E L \in Node : Led(L)
    BY <2>1, LedHolds DEF OrderInv, LogInv
  <2>2. CASE Init
    <3>1. \A n \in Node : node[n].fault = "none" /\ node[n].committed = 0
      BY <2>2 DEF Init, NewNode
    <3>2. \A c \in Calls : answers[c] = <<>>
      BY <2>2 DEF Init
    <3>3. OrderAssert
      BY <3>1 DEF OrderAssert
    <3>4. AnsweredHeld
      <4>1. \A c \in Calls : DOMAIN answers[c] = {}
        BY <3>2
      <4> QED BY <4>1 DEF AnsweredHeld
    <3>5. CommittedHeld
      <4>1. \A n \in Node : 1 .. node[n].committed = {}
        BY <3>1
      <4> QED BY <4>1 DEF CommittedHeld
    <3> QED BY <3>3, <3>4, <3>5 DEF LogHeld
  <2> QED BY <2>1, <2>2 DEF OrderInv
<1> QED BY OrderInvariant, <1>1, PTL

\* As long as the leader stays, its log is one sequence that only grows, and
\* the followers apply it in its order, every entry once: whatever requests are
\* lost, late or sent again, commit tasks count their entries when they run and
\* a peer thread may set the commit index back.
THEOREM LogIsDelivered ==
  ASSUME OneTerm
  PROVE  Spec => LogIsOrdered
<1>1. ASSUME NEW L \in Node, Led(L) PROVE LeaderLog = F(L)
  <2>1. Leaders = {L}
    BY <1>1 DEF Led, Ruled, Leaders
  <2> QED BY <2>1 DEF LeaderLog, F
<1>2. ASSUME NEW L \in Node, Led(L)' PROVE LeaderLog' = F(L)'
  <2>1. Leaders' = {L}
    BY <1>2 DEF Led, Ruled, Leaders
  <2> QED BY <2>1 DEF LeaderLog, F
<1>3. ASSUME Init PROVE LeaderLog = <<>>
  <2>1. Leaders = {}
    BY <1>3 DEF Init, NewNode, Leaders
  <2> QED BY <2>1 DEF LeaderLog
<1>4. Init => TO!Init
  BY <1>3 DEF Init, TO!Init
<1>5. ASSUME OrderInv, LogInv', [Next]_vars PROVE [TO!Next]_(TO!vars)
  <2>1. CASE Init /\ Next
    BY <1>2, <1>3, <1>5, <2>1, FirstNext DEF OrderInv, TO!vars
  <2>2. CASE UNCHANGED vars
    BY <2>2 DEF vars, TO!vars, LeaderLog, Leaders
  <2>3. ASSUME NEW L \in Node, Led(L), Next PROVE [TO!Next]_(TO!vars)
    <3>1. LeaderLog = F(L)
      BY <1>1, <2>3
    <3>2. Stays(L) \/ Extends(L) \/ Delivers(L)
      BY <1>5, <2>3, LedNext DEF OrderInv
    <3>3. CASE Stays(L)
      BY <1>2, <3>1, <3>3 DEF Stays, TO!vars
    <3>4. CASE Extends(L)
      BY <1>2, <3>1, <3>4 DEF Extends, TO!Next, TO!Extend
    <3>5. CASE Delivers(L)
      BY <1>2, <3>1, <3>5 DEF Delivers, TO!Next, TO!Deliver
    <3> QED BY <3>2, <3>3, <3>4, <3>5
  <2> QED BY <1>5, <2>1, <2>2, <2>3 DEF OrderInv
<1> QED BY OrderInvariant, LogInvariant, <1>4, <1>5, PTL DEF Spec, LogIsOrdered, TO!Spec

===============================================================================
