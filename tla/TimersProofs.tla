----------------------------- MODULE TimersProofs -----------------------------
(***************************************************************************)
(* Proofs about the event queue and the counter on it.  First what the     *)
(* operations on the queue keep, whatever the queue: its order, and which  *)
(* events are in it.  Then the queue and the counter at work: the queue is *)
(* sound, and an interrupt at the target comes on time.                    *)
(***************************************************************************)
EXTENDS Timers, FiniteSetTheorems, SequenceTheorems, WellFoundedInduction, TLAPS

-----------------------------------------------------------------------------
(* Recursion.                                                              *)

\* Induction over the natural numbers, for a set: the numbers are well-founded.
LEMMA Induction ==
  ASSUME NEW T, 0 \in T, \A n \in Nat : n \in T => n + 1 \in T
  PROVE  Nat \subseteq T
<1> DEFINE B == {n \in Nat : n \notin T}
           R == OpToRel(<, Nat)
<1> SUFFICES ASSUME B # {} PROVE FALSE
  OBVIOUS
<1>1. IsWellFoundedOn(R, Nat)
  BY NatLessThanWellFounded
<1> HIDE DEF R
<1>2. PICK x \in B : \A y \in B : ~ (<<y, x>> \in R)
  <2>1. B \subseteq Nat
    OBVIOUS
  <2> HIDE DEF B
  <2> QED
    BY <1>1, <2>1, WFMin
<1>3. x - 1 \in Nat /\ x - 1 \in B /\ x - 1 < x
  BY <1>2
<1>4. <<x - 1, x>> \in R
  BY <1>2, <1>3 DEF R, OpToRel
<1> QED
  BY <1>2, <1>3, <1>4

\* The values a recursion goes through, from d, by what step makes of each.
Course(g, n, d, step) ==
    g = [i \in 0 .. n |-> IF i = 0 THEN d ELSE step[<<i, g[i - 1]>>]]

LEMMA CourseExists ==
  ASSUME NEW S, NEW d \in S, NEW step \in [Nat \X S -> S]
  PROVE  \A n \in Nat : \E g \in [0 .. n -> S] : Course(g, n, d, step)
<1> DEFINE T == {n \in Nat : \E g \in [0 .. n -> S] : Course(g, n, d, step)}
<1>1. 0 \in T
  <2> DEFINE g == [i \in 0 .. 0 |-> d]
  <2>1. g \in [0 .. 0 -> S] /\ Course(g, 0, d, step)
    BY DEF Course
  <2> QED
    BY <2>1
<1>2. ASSUME NEW n \in Nat, n \in T PROVE n + 1 \in T
  <2>1. PICK g \in [0 .. n -> S] : Course(g, n, d, step)
    BY <1>2
  <2> DEFINE v == step[<<n + 1, g[n]>>]
             h == [i \in 0 .. n + 1 |-> IF i = n + 1 THEN v ELSE g[i]]
             W(i) == IF i = 0 THEN d ELSE step[<<i, h[i - 1]>>]
  <2>2. \A i \in 0 .. n : g[i] = IF i = 0 THEN d ELSE step[<<i, g[i - 1]>>]
    BY <2>1, Zenon DEF Course
  <2>3. v \in S
    <3>1. g[n] \in S /\ n + 1 \in Nat
      OBVIOUS
    <3> QED
      BY <3>1
  <2>4. /\ h \in [0 .. n + 1 -> S] /\ h[n + 1] = v
        /\ \A i \in 0 .. n : h[i] = g[i]
    <3> HIDE DEF v
    <3> QED
      BY <2>3
  <2> HIDE DEF h
  <2>5. ASSUME NEW i \in 0 .. n + 1 PROVE h[i] = W(i)
    <3>1. CASE i = n + 1
      <4>1. i # 0 /\ i - 1 = n /\ n \in 0 .. n
        BY <3>1
      <4> QED
        BY <2>4, <3>1, <4>1
    <3>2. CASE i # n + 1
      <4>1. i \in 0 .. n /\ (i # 0 => i - 1 \in 0 .. n)
        BY <3>2
      <4> QED
        BY <2>2, <2>4, <4>1
    <3> QED
      BY <3>1, <3>2
  <2>6. h = [i \in 0 .. n + 1 |-> W(i)]
    <3> HIDE DEF W
    <3> QED
      BY <2>4, <2>5
  <2>7. Course(h, n + 1, d, step)
    BY <2>6 DEF Course
  <2> QED
    BY <2>4, <2>7
<1>3. Nat \subseteq T
  <2>1. \A n \in Nat : n \in T => n + 1 \in T
    BY <1>2
  <2> HIDE DEF T
  <2> QED
    BY <1>1, <2>1, Induction
<1> QED
  BY <1>3

-----------------------------------------------------------------------------
(* The queue.                                                              *)

Queues == Seq(TaskRecords)

\* Soonest first, and no event twice.
Ordered(q) ==
    \A i, j \in 1 .. Len(q) : i < j => q[i].due <= q[j].due /\ q[i].event # q[j].event

\* A task, and an event, that is queued.
Queued(q, task) == \E i \in 1 .. Len(q) : q[i] = task
Holds(q, event) == \E i \in 1 .. Len(q) : q[i].event = event

\* What unscheduling has kept of the first n tasks.
Kept(q, event, n, k) ==
    /\ k \in Queues /\ Ordered(k)
    /\ \A i \in 1 .. Len(k) : k[i].event # event /\ \E j \in 1 .. n : k[i] = q[j]
    /\ \A j \in 1 .. n : q[j].event # event => Queued(k, q[j])

\* One more task is appended behind those kept before it.
LEMMA KeepsOne ==
  ASSUME NEW q \in Queues, Ordered(q), NEW event,
         NEW n \in Nat, n + 1 <= Len(q), NEW k, Kept(q, event, n, k)
  PROVE  Kept(q, event, n + 1,
              IF q[n + 1].event = event THEN k ELSE Append(k, q[n + 1]))
<1> DEFINE t == q[n + 1]
           m == Append(k, t)
<1>1. /\ n + 1 \in 1 .. Len(q) /\ t \in TaskRecords
      /\ k \in Queues /\ Len(k) \in Nat /\ Len(q) \in Nat
  BY DEF Kept, Queues
<1>2. CASE t.event = event
  BY <1>2, <1>1 DEF Kept
<1>3. CASE t.event # event
  <2>1. /\ m \in Queues /\ Len(m) = Len(k) + 1 /\ m[Len(k) + 1] = t
        /\ \A i \in 1 .. Len(k) : m[i] = k[i]
    BY <1>1 DEF Queues
  <2> HIDE DEF m, t
  <2>2. ASSUME NEW i \in 1 .. Len(k) PROVE k[i].due <= t.due /\ k[i].event # t.event
    <3>1. PICK j \in 1 .. n : k[i] = q[j]
      BY DEF Kept
    <3> QED
      BY <3>1, <1>1 DEF Ordered, t
  <2>3. Ordered(m)
    <3> SUFFICES ASSUME NEW i \in 1 .. Len(m), NEW j \in 1 .. Len(m), i < j
                 PROVE  m[i].due <= m[j].due /\ m[i].event # m[j].event
      BY DEF Ordered
    <3>1. CASE j = Len(k) + 1
      BY <3>1, <2>1, <2>2, <1>1
    <3>2. CASE j # Len(k) + 1
      <4>1. i \in 1 .. Len(k) /\ j \in 1 .. Len(k)
        BY <3>2, <2>1, <1>1
      <4> QED
        BY <4>1, <2>1 DEF Kept, Ordered
    <3> QED
      BY <3>1, <3>2
  <2>4. ASSUME NEW i \in 1 .. Len(m)
        PROVE  m[i].event # event /\ \E j \in 1 .. n + 1 : m[i] = q[j]
    <3>1. CASE i = Len(k) + 1
      BY <3>1, <2>1, <1>1, <1>3 DEF t
    <3>2. CASE i # Len(k) + 1
      <4>1. i \in 1 .. Len(k)
        BY <3>2, <2>1, <1>1
      <4>2. k[i].event # event /\ \E j \in 1 .. n : k[i] = q[j]
        BY <4>1 DEF Kept
      <4> QED
        BY <4>1, <4>2, <2>1
    <3> QED
      BY <3>1, <3>2
  <2>5. ASSUME NEW j \in 1 .. n + 1, q[j].event # event PROVE Queued(m, q[j])
    <3>1. CASE j = n + 1
      <4>1. Len(k) + 1 \in 1 .. Len(m) /\ m[Len(k) + 1] = q[j]
        BY <3>1, <2>1, <1>1 DEF t
      <4> QED
        BY <4>1 DEF Queued
    <3>2. CASE j # n + 1
      <4>1. PICK i \in 1 .. Len(k) : k[i] = q[j]
        BY <2>5, <3>2 DEF Kept, Queued
      <4>2. i \in 1 .. Len(m) /\ m[i] = q[j]
        BY <4>1, <2>1, <1>1
      <4> QED
        BY <4>2 DEF Queued
    <3> QED
      BY <3>1, <3>2
  <2>6. Kept(q, event, n + 1, m)
    BY <2>1, <2>3, <2>4, <2>5 DEF Kept
  <2> QED
    BY <2>6, <1>3 DEF m, t
<1> QED
  BY <1>2, <1>3

\* What is left is in order, without the event, and nothing else is gone.
LEMMA Unscheduled ==
  ASSUME NEW q \in Queues, Ordered(q), NEW event
  PROVE  Kept(q, event, Len(q), Unschedule(q, event))
<1> DEFINE N == Len(q)
           S == Queues
           next(n, k) == IF q[n].event = event THEN k ELSE Append(k, q[n])
           step == [p \in Nat \X S |-> IF p[1] \in 1 .. N THEN next(p[1], p[2]) ELSE p[2]]
           kept == CHOOSE g : g = [n \in 0 .. N |-> IF n = 0 THEN << >> ELSE next(n, g[n - 1])]
<1>1. N \in Nat /\ << >> \in S /\ \A n \in 1 .. N : q[n] \in TaskRecords
  BY DEF Queues
<1>2. \A n \in 1 .. N, k \in S : next(n, k) \in S
  <2>1. \A t \in TaskRecords, k \in S : Append(k, t) \in S
    BY DEF Queues
  <2> HIDE DEF S, N
  <2> QED
    BY <1>1, <2>1
<1> HIDE DEF S, next, N
<1>3. step \in [Nat \X S -> S] /\ \A n \in 1 .. N, k \in S : step[<<n, k>>] = next(n, k)
  BY <1>1, <1>2
<1> HIDE DEF step
<1>4. PICK h \in [0 .. N -> S] : Course(h, N, << >>, step)
  BY <1>1, <1>3, CourseExists
<1>5. h = [n \in 0 .. N |-> IF n = 0 THEN << >> ELSE next(n, h[n - 1])]
  <2>1. ASSUME NEW n \in 0 .. N PROVE h[n] = IF n = 0 THEN << >> ELSE next(n, h[n - 1])
    <3>1. h[n] = IF n = 0 THEN << >> ELSE step[<<n, h[n - 1]>>]
      BY <1>4, Zenon DEF Course
    <3>2. n # 0 => h[n - 1] \in S /\ n \in 1 .. N
      BY <1>1
    <3> QED
      BY <1>3, <3>1, <3>2
  <2> QED
    BY <2>1
<1>6. kept = [n \in 0 .. N |-> IF n = 0 THEN << >> ELSE next(n, kept[n - 1])]
  BY <1>5
<1>7. Unschedule(q, event) = kept[N]
  BY Zenon DEF Unschedule, next, N
<1> HIDE DEF kept
<1> DEFINE T == {n \in Nat : n <= N => Kept(q, event, n, kept[n])}
<1>8. 0 \in T
  <2>1. kept[0] = << >>
    BY <1>1, <1>6
  <2>2. Kept(q, event, 0, << >>)
    BY DEF Kept, Queues, Ordered
  <2> QED
    BY <2>1, <2>2
<1>9. ASSUME NEW n \in Nat, n \in T PROVE n + 1 \in T
  <2> SUFFICES ASSUME n + 1 <= N PROVE Kept(q, event, n + 1, kept[n + 1])
    OBVIOUS
  <2>1. kept[n + 1] = next(n + 1, kept[n])
    <3>1. n + 1 \in 0 .. N /\ n + 1 # 0 /\ (n + 1) - 1 = n
      BY <1>1
    <3> QED
      BY <1>6, <3>1
  <2>2. Kept(q, event, n, kept[n])
    BY <1>1, <1>9
  <2> QED
    BY <2>1, <2>2, KeepsOne DEF next, N
<1>10. Nat \subseteq T
  <2>1. \A n \in Nat : n \in T => n + 1 \in T
    BY <1>9
  <2> HIDE DEF T
  <2> QED
    BY <1>8, <2>1, Induction
<1> QED
  BY <1>1, <1>7, <1>10 DEF N

\* A task put in its place: behind all that are due no later.
LEMMA Inserted ==
  ASSUME NEW q \in Queues, Ordered(q), NEW task \in TaskRecords,
         \A i \in 1 .. Len(q) : q[i].event # task.event
  PROVE  LET r == Insert(q, task) IN
         /\ r \in Queues /\ Ordered(r) /\ Queued(r, task)
         /\ \A i \in 1 .. Len(q) : Queued(r, q[i])
         /\ \A i \in 1 .. Len(r) : r[i] = task \/ Queued(q, r[i])
<1> DEFINE n == Len(q)
           later == {i \in 1 .. n : q[i].due > task.due}
           pos == IF later = {} THEN n + 1 ELSE CHOOSE i \in later : \A j \in later : i <= j
           a == SubSeq(q, 1, pos - 1)
           b == SubSeq(q, pos, n)
           r == Insert(q, task)
<1>1. n \in Nat /\ (\A i \in 1 .. n : q[i] \in TaskRecords) /\ task.due \in Int
  <2>1. n \in Nat /\ \A i \in 1 .. n : q[i] \in TaskRecords
    BY DEF Queues
  <2> QED
    BY <2>1 DEF TaskRecords
<1>2. \A i \in 1 .. n : q[i].due \in Int
  BY <1>1 DEF TaskRecords
<1>3. /\ pos \in 1 .. n + 1
      /\ \A i \in 1 .. n : i < pos => q[i].due <= task.due
      /\ \A i \in 1 .. n : i >= pos => q[i].due > task.due
  <2>1. CASE later = {}
    BY <2>1, <1>1, <1>2
  <2>2. CASE later # {}
    <3>1. \E i \in later : \A j \in later : i <= j
      <4> HIDE DEF n
      <4>1. later \subseteq Nat
        OBVIOUS
      <4> HIDE DEF later
      <4> DEFINE R == OpToRel(<, Nat)
      <4>2. PICK x \in later : \A y \in later : ~(<<y, x>> \in R)
        BY <2>2, <4>1, NatLessThanWellFounded, WFMin
      <4>3. ASSUME NEW y \in later PROVE x <= y
        <5>1. x \in Nat /\ y \in Nat
          BY <4>1
        <5>2. y < x => <<y, x>> \in R
          BY <5>1 DEF OpToRel
        <5> HIDE DEF R
        <5> QED
          BY <4>2, <5>1, <5>2
      <4> QED
        BY <4>3
    <3>2. pos \in later /\ \A j \in later : pos <= j
      <4> HIDE DEF later
      <4> QED
        BY <2>2, <3>1
    <3> HIDE DEF pos
    <3>3. pos \in 1 .. n /\ q[pos].due > task.due
      BY <3>2
    <3>4. ASSUME NEW i \in 1 .. n, i < pos PROVE q[i].due <= task.due
      <4>1. i \notin later
        BY <3>2, <3>3, <3>4, <1>1
      <4> QED
        BY <4>1, <1>1, <1>2
    <3>5. ASSUME NEW i \in 1 .. n, i >= pos PROVE q[i].due > task.due
      <4>1. q[pos].due <= q[i].due
        BY <3>3, <3>5, <1>1, <1>2 DEF Ordered
      <4> QED
        BY <4>1, <3>3, <3>5, <1>1, <1>2
    <3> QED
      BY <3>3, <3>4, <3>5, <1>1
  <2> QED
    BY <2>1, <2>2
<1>4. r = a \o <<task>> \o b
  BY DEF Insert
<1> HIDE DEF pos, later
<1>5. /\ r \in Queues /\ Len(r) = n + 1 /\ r[pos] = task
      /\ \A i \in 1 .. n : i < pos => r[i] = q[i]
      /\ \A i \in 1 .. n : i >= pos => r[i + 1] = q[i]
  <2>1. /\ a \in Queues /\ Len(a) = pos - 1
        /\ \A i \in 1 .. pos - 1 : a[i] = q[i]
    BY <1>1, <1>3 DEF Queues
  <2>2. /\ b \in Queues /\ Len(b) = n + 1 - pos
        /\ \A i \in 1 .. n + 1 - pos : b[i] = q[pos + i - 1]
    BY <1>1, <1>3 DEF Queues
  <2> HIDE DEF a, b, n
  <2>3. a \o <<task>> \o b \in Queues
    BY <2>1, <2>2 DEF Queues
  <2>4. Len(a \o <<task>> \o b) = n + 1
    <3> DEFINE c == a \o <<task>>
    <3>1. c \in Queues /\ Len(c) = pos
      BY <2>1, <1>3 DEF Queues
    <3> HIDE DEF c
    <3>2. Len(c \o b) = pos + Len(b)
      <4>1. c \in Seq(TaskRecords) /\ b \in Seq(TaskRecords)
        BY <3>1, <2>2 DEF Queues
      <4> QED
        BY <3>1, <4>1, ConcatProperties
    <3> QED
      BY <3>2, <2>2, <1>1, <1>3 DEF c
  <2>5. (a \o <<task>> \o b)[pos] = task
    BY <2>1, <2>2, <1>1, <1>3 DEF Queues
  <2>6. ASSUME NEW i \in 1 .. n, i < pos PROVE (a \o <<task>> \o b)[i] = q[i]
    BY <2>1, <2>2, <2>6, <1>1, <1>3 DEF Queues
  <2>7. ASSUME NEW i \in 1 .. n, i >= pos PROVE (a \o <<task>> \o b)[i + 1] = q[i]
    <3>1. i + 1 - pos \in 1 .. n + 1 - pos /\ pos + (i + 1 - pos) - 1 = i
      BY <2>7, <1>1, <1>3
    <3>2. b[i + 1 - pos] = q[i]
      BY <3>1, <2>2
    <3> QED
      BY <3>1, <3>2, <2>1, <2>2, <2>7, <1>1, <1>3 DEF Queues
  <2> QED
    BY <1>4, <2>3, <2>4, <2>5, <2>6, <2>7
<1> HIDE DEF a, b, r
<1>6. ASSUME NEW i \in 1 .. Len(r)
      PROVE  \/ i = pos
             \/ i < pos /\ i \in 1 .. n /\ r[i] = q[i]
             \/ i > pos /\ i - 1 \in 1 .. n /\ i - 1 >= pos /\ r[i] = q[i - 1]
  <2>1. CASE i > pos
    <3>1. i - 1 \in 1 .. n /\ i - 1 >= pos /\ (i - 1) + 1 = i
      BY <2>1, <1>1, <1>3, <1>5
    <3> QED
      BY <2>1, <3>1, <1>5
  <2> QED
    BY <2>1, <1>1, <1>3, <1>5
<1>7. Ordered(r)
  <2> SUFFICES ASSUME NEW i \in 1 .. Len(r), NEW j \in 1 .. Len(r), i < j
               PROVE  r[i].due <= r[j].due /\ r[i].event # r[j].event
    BY DEF Ordered
  <2> DEFINE x == IF i > pos THEN i - 1 ELSE i
             y == IF j > pos THEN j - 1 ELSE j
  <2>1. CASE i = pos
    BY <2>1, <1>6, <1>5, <1>3, <1>1, <1>2
  <2>2. CASE j = pos
    BY <2>2, <1>6, <1>5, <1>3, <1>1, <1>2
  <2>3. CASE i # pos /\ j # pos
    <3>1. x \in 1 .. n /\ y \in 1 .. n /\ r[i] = q[x] /\ r[j] = q[y] /\ x < y
      BY <2>3, <1>6, <1>3, <1>1
    <3> HIDE DEF x, y
    <3> QED
      BY <3>1 DEF Ordered
  <2> QED
    BY <2>1, <2>2, <2>3
<1>8. Queued(r, task)
  BY <1>1, <1>3, <1>5 DEF Queued
<1>9. ASSUME NEW i \in 1 .. Len(q) PROVE Queued(r, q[i])
  <2>1. CASE i < pos
    BY <2>1, <1>1, <1>5 DEF Queued
  <2>2. CASE i >= pos
    <3>1. i + 1 \in 1 .. Len(r) /\ r[i + 1] = q[i]
      BY <2>2, <1>1, <1>5
    <3> QED
      BY <3>1 DEF Queued
  <2> QED
    BY <2>1, <2>2, <1>1, <1>3
<1>10. ASSUME NEW i \in 1 .. Len(r) PROVE r[i] = task \/ Queued(q, r[i])
  BY <1>5, <1>6 DEF Queued
<1> QED
  BY <1>5, <1>7, <1>8, <1>9, <1>10 DEF r

\* An event scheduled is queued once, as it was last scheduled, and no other
\* task is disturbed.
LEMMA Scheduled ==
  ASSUME NEW q \in Queues, Ordered(q), NEW event \in Events, NEW due \in Int,
         NEW repeat \in Nat \cup {OneShot}
  PROVE  LET r == Schedule(q, event, due, repeat) IN
         /\ r \in Queues /\ Ordered(r) /\ Queued(r, Task(event, due, repeat))
         /\ \A i \in 1 .. Len(q) : q[i].event # event => Queued(r, q[i])
         /\ \A i \in 1 .. Len(r) : \/ r[i] = Task(event, due, repeat)
                                   \/ r[i].event # event /\ Queued(q, r[i])
<1> DEFINE u == Unschedule(q, event)
           t == Task(event, due, repeat)
           r == Insert(u, t)
<1>1. Kept(q, event, Len(q), u)
  BY Unscheduled
<1>2. t \in TaskRecords /\ t.event = event
  BY DEF Task, TaskRecords
<1> HIDE DEF u, t
<1>3. u \in Queues /\ Ordered(u) /\ \A i \in 1 .. Len(u) : u[i].event # t.event
  BY <1>1, <1>2 DEF Kept
<1>4. /\ r \in Queues /\ Ordered(r) /\ Queued(r, t)
      /\ \A i \in 1 .. Len(u) : Queued(r, u[i])
      /\ \A i \in 1 .. Len(r) : r[i] = t \/ Queued(u, r[i])
  BY <1>2, <1>3, Inserted
<1> HIDE DEF r
<1>5. ASSUME NEW i \in 1 .. Len(q), q[i].event # event PROVE Queued(r, q[i])
  <2>1. PICK j \in 1 .. Len(u) : u[j] = q[i]
    BY <1>1, <1>5 DEF Kept, Queued
  <2> QED
    BY <1>4, <2>1
<1>6. ASSUME NEW i \in 1 .. Len(r), r[i] # t PROVE r[i].event # event /\ Queued(q, r[i])
  <2>1. PICK j \in 1 .. Len(u) : u[j] = r[i]
    BY <1>4, <1>6 DEF Queued
  <2> QED
    BY <1>1, <2>1 DEF Kept, Queued
<1>7. r = Schedule(q, event, due, repeat)
  BY DEF r, u, t, Schedule
<1> QED
  BY <1>4, <1>5, <1>6, <1>7 DEF t

\* What handling the first task does to a queue: a one-shot task leaves it, a
\* repeating one is queued again, and no other task is disturbed.
Turned(q, r) ==
    /\ r \in Queues /\ Ordered(r)
    /\ \A event \in Events :
          Holds(q, event) /\ (event = q[1].event => q[1].repeat # OneShot) => Holds(r, event)
    /\ \A i \in 1 .. Len(r) :
          \/ q[1].repeat # OneShot /\ r[i] = Task(q[1].event, q[1].repeat, q[1].repeat)
          \/ Queued(q, r[i])

LEMMA Taken ==
  ASSUME NEW q \in Queues, Ordered(q), q # << >>
  PROVE  Turned(q, AfterNext(q))
<1> DEFINE t == q[1]
           u == Tail(q)
           n == Len(q)
           again == Schedule(u, t.event, t.repeat, t.repeat)
<1>1. /\ n \in Nat /\ n >= 1 /\ 1 \in 1 .. n /\ t \in TaskRecords /\ Head(q) = t
      /\ u \in Queues /\ Len(u) = n - 1
      /\ \A i \in 1 .. n - 1 : u[i] = q[i + 1]
  BY DEF Queues
<1> HIDE DEF u, t, n
<1>2. /\ Ordered(u)
      /\ \A i \in 1 .. Len(u) : Queued(q, u[i]) /\ u[i].event # t.event
      /\ \A i \in 1 .. n : i # 1 => Queued(u, q[i])
  <2>1. ASSUME NEW i \in 1 .. Len(u)
        PROVE  i + 1 \in 1 .. n /\ i + 1 > 1 /\ u[i] = q[i + 1]
    BY <1>1
  <2>2. Ordered(u)
    <3> SUFFICES ASSUME NEW i \in 1 .. Len(u), NEW j \in 1 .. Len(u), i < j
                 PROVE  u[i].due <= u[j].due /\ u[i].event # u[j].event
      BY DEF Ordered
    <3>1. i + 1 \in 1 .. n /\ j + 1 \in 1 .. n /\ i + 1 < j + 1
      BY <2>1
    <3>2. q[i + 1].due <= q[j + 1].due /\ q[i + 1].event # q[j + 1].event
      BY <3>1 DEF Ordered, n
    <3> QED
      BY <2>1, <3>2
  <2>3. ASSUME NEW i \in 1 .. Len(u) PROVE Queued(q, u[i]) /\ u[i].event # t.event
    <3>1. t.event # q[i + 1].event
      BY <2>1, <1>1 DEF Ordered, n, t
    <3> QED
      BY <2>1, <3>1 DEF Queued, n
  <2>4. ASSUME NEW i \in 1 .. n, i # 1 PROVE Queued(u, q[i])
    <3>1. i - 1 \in 1 .. n - 1 /\ (i - 1) + 1 = i
      BY <1>1, <2>4
    <3>2. i - 1 \in 1 .. Len(u) /\ u[i - 1] = q[i]
      BY <1>1, <3>1
    <3> QED
      BY <3>2 DEF Queued
  <2> QED
    BY <2>2, <2>3, <2>4
<1>3. CASE t.repeat = OneShot
  <2>1. AfterNext(q) = u
    BY <1>1, <1>3 DEF AfterNext, u
  <2>2. ASSUME NEW event \in Events, Holds(q, event), event # t.event PROVE Holds(u, event)
    <3>1. PICK i \in 1 .. n : q[i].event = event
      BY <2>2 DEF Holds, n
    <3> QED
      BY <1>2, <2>2, <3>1 DEF Queued, Holds, t
  <2> QED
    BY <1>1, <1>2, <1>3, <2>1, <2>2 DEF Turned, t
<1>4. CASE t.repeat # OneShot
  <2>1. AfterNext(q) = again
    BY <1>1, <1>4 DEF AfterNext, u
  <2>2. t.event \in Events /\ t.repeat \in Nat
    BY <1>1, <1>4 DEF TaskRecords
  <2>3. /\ again \in Queues /\ Ordered(again) /\ Queued(again, Task(t.event, t.repeat, t.repeat))
        /\ \A i \in 1 .. Len(u) : u[i].event # t.event => Queued(again, u[i])
        /\ \A i \in 1 .. Len(again) : \/ again[i] = Task(t.event, t.repeat, t.repeat)
                                      \/ Queued(u, again[i])
    <3>1. t.repeat \in Int /\ t.repeat \in Nat \cup {OneShot}
      BY <2>2
    <3> QED
      BY <1>1, <1>2, <2>2, <3>1, Scheduled
  <2> HIDE DEF again
  <2>4. ASSUME NEW event \in Events, Holds(q, event) PROVE Holds(again, event)
    <3>1. PICK i \in 1 .. n : q[i].event = event
      BY <2>4 DEF Holds, n
    <3>2. CASE i = 1
      <4>1. Task(t.event, t.repeat, t.repeat).event = event
        BY <3>1, <3>2 DEF Task, t
      <4> QED
        BY <2>3, <4>1 DEF Queued, Holds
    <3>3. CASE i # 1
      <4>1. PICK j \in 1 .. Len(u) : u[j] = q[i]
        BY <1>2, <3>3 DEF Queued
      <4>2. Queued(again, u[j])
        BY <1>2, <2>3
      <4> QED
        BY <3>1, <4>1, <4>2 DEF Queued, Holds
    <3> QED
      BY <3>2, <3>3
  <2>5. ASSUME NEW i \in 1 .. Len(again)
        PROVE  again[i] = Task(t.event, t.repeat, t.repeat) \/ Queued(q, again[i])
    <3>1. CASE Queued(u, again[i])
      <4>1. PICK j \in 1 .. Len(u) : u[j] = again[i]
        BY <3>1 DEF Queued
      <4> QED
        BY <1>2, <4>1
    <3> QED
      BY <2>3, <3>1
  <2> QED
    BY <1>4, <2>1, <2>3, <2>4, <2>5 DEF Turned, t
<1> QED
  BY <1>3, <1>4

\* Time that passes leaves the queue as it is, but for the due times.
LEMMA Advanced ==
  ASSUME NEW q \in Queues, Ordered(q), NEW n \in Int
  PROVE  LET r == Advance(q, n) IN
         /\ r \in Queues /\ Ordered(r) /\ Len(r) = Len(q)
         /\ \A i \in 1 .. Len(q) : /\ r[i].event = q[i].event /\ r[i].repeat = q[i].repeat
                                   /\ r[i].due = q[i].due - n
<1> DEFINE t(i) == [q[i] EXCEPT !.due = q[i].due - n]
           r == [i \in 1 .. Len(q) |-> t(i)]
<1>1. Len(q) \in Nat /\ \A i \in 1 .. Len(q) : q[i] \in TaskRecords
  BY DEF Queues
<1>2. ASSUME NEW i \in 1 .. Len(q)
      PROVE  /\ t(i) \in TaskRecords /\ t(i).event = q[i].event /\ t(i).repeat = q[i].repeat
             /\ t(i).due = q[i].due - n /\ q[i].due \in Int
  BY <1>1 DEF TaskRecords
<1>3. Advance(q, n) = r
  BY DEF Advance
<1> HIDE DEF t
<1>4. r \in Queues /\ Len(r) = Len(q) /\ \A i \in 1 .. Len(q) : r[i] = t(i)
  BY <1>1, <1>2 DEF Queues
<1> HIDE DEF r
<1>5. Ordered(r)
  BY <1>1, <1>2, <1>4 DEF Ordered
<1> QED
  BY <1>2, <1>3, <1>4, <1>5

\* There is room for a queue in order: there are fewer events than places.
LEMMA Room == ASSUME NEW q \in Queues, Ordered(q) PROVE Len(q) <= MaxTasks
<1> DEFINE S == 1 .. Len(q)
           number(e) == CASE e = "HBlankStart" -> 1 [] e = "HBlankEnd" -> 2
                          [] e = "VBlankStart" -> 3 [] e = "VBlankEnd" -> 4
                          [] e = "TimerPulse" -> 5 [] OTHER -> 6
           f == [i \in S |-> number(q[i].event)]
<1>1. Len(q) \in Nat /\ \A i \in S : q[i].event \in Events
  <2>1. Len(q) \in Nat /\ \A i \in S : q[i] \in TaskRecords
    BY DEF Queues
  <2> QED
    BY <2>1 DEF TaskRecords
<1>2. \A e \in Events : number(e) \in 1 .. 6
  BY DEF Events, Blanks
<1>3. \A e, d \in Events : number(e) = number(d) => e = d
  BY DEF Events, Blanks
<1> HIDE DEF number
<1>4. f \in [S -> 1 .. 6]
  BY <1>1, <1>2
<1>5. \A i, j \in S : i # j => f[i] # f[j]
  <2>1. ASSUME NEW i \in S, NEW j \in S, i # j PROVE q[i].event # q[j].event
    BY <1>1, <2>1 DEF Ordered
  <2> QED
    BY <1>1, <1>3, <2>1
<1> HIDE DEF f
<1>6. /\ IsFiniteSet(S) /\ Cardinality(S) = Len(q)
      /\ IsFiniteSet(1 .. 6) /\ Cardinality(1 .. 6) = 6
  <2>1. /\ IsFiniteSet(1 .. Len(q))
        /\ Cardinality(1 .. Len(q)) = IF 1 > Len(q) THEN 0 ELSE Len(q) - 1 + 1
    BY <1>1, FS_Interval
  <2>2. /\ IsFiniteSet(1 .. 6)
        /\ Cardinality(1 .. 6) = IF 1 > 6 THEN 0 ELSE 6 - 1 + 1
    <3>1. 1 \in Int /\ 6 \in Int
      OBVIOUS
    <3> QED
      BY <3>1, FS_Interval, Zenon
  <2> QED
    BY <1>1, <2>1, <2>2
<1>7. ~ (Cardinality(1 .. 6) < Cardinality(S))
  <2> HIDE DEF S
  <2> QED
    BY <1>4, <1>5, <1>6, FS_PigeonHole
<1> QED
  BY <1>1, <1>6, <1>7 DEF MaxTasks

-----------------------------------------------------------------------------
(* The counter's numbers.                                                  *)

Sources == {"Cpu", "CpuDiv8", "Dot", "HBlank"}

CounterOK ==
    /\ counter \in 0 .. (Word - 1) /\ target \in 0 .. Top /\ mode \in ModeRecord
    /\ elapsed \in 0 .. ElapsedBound /\ hblanks \in 0 .. HBlankBound

LEMMA Constants ==
  /\ Top \in Nat /\ Top >= 1 /\ Word \in Nat /\ Word > Top + 1
  /\ Line \in Nat /\ Line >= 1 /\ DotDivider \in Nat /\ DotDivider >= 1
  /\ CpuDivider \in Nat /\ CpuDivider >= 1 /\ HBlankBound \in Nat /\ ElapsedBound \in Nat
BY TimersAssumption

\* A period is longer than the target it ends at.
LEMMA PeriodType ==
  ASSUME NEW m \in ModeRecord, NEW t \in 0 .. Top
  PROVE  Period(m, t) \in 1 .. Top + 1 /\ t < Period(m, t)
BY Constants DEF Period

LEMMA SourceType == CounterOK => ClockSource \in Sources
<1> SUFFICES ASSUME CounterOK PROVE ClockSource \in Sources
  OBVIOUS
<1>1. mode.clock_src \in 0 .. 3
  BY DEF CounterOK, ModeRecord
<1>2. \A w \in 0 .. 2, c \in 0 .. 3 : ClockSourceMatrix[w + 1][c + 1] \in Sources
  <2> SUFFICES ASSUME NEW w \in 0 .. 2, NEW c \in 0 .. 3
               PROVE  ClockSourceMatrix[w + 1][c + 1] \in Sources
    OBVIOUS
  <2>1. CASE w = 0
    BY <2>1 DEF ClockSourceMatrix, Sources
  <2>2. CASE w = 1
    BY <2>2 DEF ClockSourceMatrix, Sources
  <2>3. CASE w = 2
    BY <2>3 DEF ClockSourceMatrix, Sources
  <2> QED
    BY <2>1, <2>2, <2>3
<1> QED
  BY <1>1, <1>2, TimersAssumption DEF ClockSource

LEMMA DeltaType == CounterOK => Delta \in Nat
<1> SUFFICES ASSUME CounterOK PROVE Delta \in Nat
  OBVIOUS
<1>1. elapsed \in Nat /\ hblanks \in Nat
  BY Constants DEF CounterOK
<1>2. elapsed \div CpuDivider \in Nat /\ elapsed \div DotDivider \in Nat
  BY <1>1, Constants
<1> QED
  BY <1>1, <1>2, SourceType DEF Delta, Sources

LEMMA UpdatedType ==
  CounterOK => Updated.counter \in 0 .. (Word - 1) /\ Updated.hblanks \in 0 .. HBlankBound
<1> SUFFICES ASSUME CounterOK
             PROVE  Updated.counter \in 0 .. (Word - 1) /\ Updated.hblanks \in 0 .. HBlankBound
  OBVIOUS
<1> DEFINE P == Period(mode, target)
           sum == counter + Delta
<1>1. P \in 1 .. Top + 1
  BY PeriodType DEF CounterOK
<1>2. sum \in Nat
  BY DeltaType DEF CounterOK
<1> HIDE DEF P, sum
<1>3. sum % P \in 0 .. P - 1
  BY <1>1, <1>2, Constants
<1>4. sum % P \in 0 .. (Word - 1) /\ 0 \in 0 .. HBlankBound
  BY <1>1, <1>3, Constants
<1> QED
  BY <1>4 DEF Updated, P, sum, CounterOK

LEMMA CyclesType ==
  ASSUME CounterOK, NEW n \in Int
  PROVE  TicksToCycles(n) \in Int /\ (n \in Nat => TicksToCycles(n) \in Nat)
<1>1. /\ n * CpuDivider \in Int /\ n * DotDivider \in Int /\ n * Line \in Int
      /\ (n \in Nat => n * CpuDivider \in Nat /\ n * DotDivider \in Nat /\ n * Line \in Nat)
  BY Constants
<1> QED
  BY <1>1, SourceType DEF TicksToCycles, Sources

LEMMA TicksType == ASSUME CounterOK, NEW v \in 0 .. Top PROVE TicksTo(v) \in Int
<1> DEFINE P == Period(mode, target)
           back == P - counter + v
<1>1. P \in Int /\ counter \in Int /\ v \in Int
  BY PeriodType, Constants DEF CounterOK
<1>2. back \in Int
  BY <1>1
<1> HIDE DEF P, back
<1>3. back % Word \in Int
  BY <1>2, Constants
<1> QED
  BY <1>1, <1>3 DEF TicksTo, P, back

\* What is predicted is a task of the timer's.
IsTimerTask(t) ==
    t.event \in {"TimerPulse", "TimerToggle"} /\ t.due \in Int /\ t.repeat \in Nat \cup {OneShot}

LEMMA TimerTaskType == ASSUME CounterOK, NEW v \in 0 .. Top PROVE IsTimerTask(TimerTask(v))
<1>1. v \in Int /\ v \in Nat
  BY Constants
<1>2. TicksToCycles(TicksTo(v)) \in Int /\ TicksToCycles(v) \in Nat
  BY <1>1, TicksType, CyclesType
<1> QED
  BY <1>2 DEF TimerTask, Task, TimerEvent, IsTimerTask

LEMMA PredictionType == CounterOK => \A t \in Prediction : IsTimerTask(t)
<1> SUFFICES ASSUME CounterOK PROVE \A t \in Prediction : IsTimerTask(t)
  OBVIOUS
<1>1. IsTimerTask(TimerTask(target)) /\ IsTimerTask(TimerTask(Top))
  BY TimerTaskType, Constants DEF CounterOK
<1> QED
  BY <1>1 DEF Prediction

-----------------------------------------------------------------------------
(* The queue is sound.                                                     *)

\* A blanking interval's event repeats: a one-shot task would be gone after it
\* is handled.
SoundQueue(q) ==
    /\ q \in Queues /\ Ordered(q)
    /\ \A i \in DOMAIN Regular : Holds(q, Regular[i].event)
    /\ \A i \in 1 .. Len(q) : q[i].event \in Blanks => q[i].repeat # OneShot

QueueInv ==
    /\ CounterOK /\ SoundQueue(tasks)
    /\ in_hsync \in BOOLEAN /\ in_vsync \in BOOLEAN /\ guest \in BOOLEAN /\ overran \in BOOLEAN

LEMMA RegularEvents == \A i \in DOMAIN Regular : Regular[i].event \in Blanks
<1> DEFINE R == [event : Blanks, due : Int, repeat : Nat]
<1>1. Regular \in Seq(R)
  BY TimersAssumption
<1>2. \A i \in DOMAIN Regular : Regular[i] \in R
  <2> HIDE DEF R
  <2> QED
    BY <1>1
<1> QED
  BY <1>2

LEMMA SoundTaken ==
  ASSUME NEW q, SoundQueue(q), q # << >> PROVE SoundQueue(AfterNext(q))
<1> DEFINE r == AfterNext(q)
<1>1. q \in Queues /\ Ordered(q) /\ Turned(q, r)
  BY Taken DEF SoundQueue
<1>2. Len(q) \in Nat /\ 1 \in 1 .. Len(q) /\ q[1] \in TaskRecords
  BY <1>1 DEF Queues, SoundQueue
<1> HIDE DEF r
<1>3. ASSUME NEW i \in DOMAIN Regular PROVE Holds(r, Regular[i].event)
  <2>1. Regular[i].event \in Blanks /\ Regular[i].event \in Events
    BY RegularEvents DEF Events
  <2>2. Regular[i].event = q[1].event => q[1].repeat # OneShot
    BY <1>2, <2>1 DEF SoundQueue
  <2>3. Holds(q, Regular[i].event)
    BY DEF SoundQueue
  <2> QED
    BY <1>1, <2>1, <2>2, <2>3 DEF Turned
<1>4. ASSUME NEW i \in 1 .. Len(r), r[i].event \in Blanks PROVE r[i].repeat # OneShot
  <2>1. CASE q[1].repeat # OneShot /\ r[i] = Task(q[1].event, q[1].repeat, q[1].repeat)
    BY <2>1 DEF Task
  <2>2. CASE Queued(q, r[i])
    BY <2>2, <1>4 DEF SoundQueue, Queued
  <2> QED
    BY <1>1, <2>1, <2>2 DEF Turned
<1>5. SoundQueue(r)
  BY <1>1, <1>3, <1>4 DEF SoundQueue, Turned
<1> QED
  BY <1>5 DEF r

LEMMA SoundScheduled ==
  ASSUME NEW q, SoundQueue(q), NEW t, IsTimerTask(t)
  PROVE  SoundQueue(Schedule(q, t.event, t.due, t.repeat))
<1> DEFINE r == Schedule(q, t.event, t.due, t.repeat)
<1>1. q \in Queues /\ Ordered(q)
  BY DEF SoundQueue
<1>2. t.event \in Events /\ t.event \notin Blanks /\ t.due \in Int /\ t.repeat \in Nat \cup {OneShot}
  BY DEF IsTimerTask, Events, Blanks
<1>3. /\ r \in Queues /\ Ordered(r)
      /\ \A i \in 1 .. Len(q) : q[i].event # t.event => Queued(r, q[i])
      /\ \A i \in 1 .. Len(r) : \/ r[i] = Task(t.event, t.due, t.repeat)
                                \/ r[i].event # t.event /\ Queued(q, r[i])
  BY <1>1, <1>2, Scheduled
<1> HIDE DEF r
<1>4. ASSUME NEW i \in DOMAIN Regular PROVE Holds(r, Regular[i].event)
  <2>1. PICK j \in 1 .. Len(q) : q[j].event = Regular[i].event
    BY DEF SoundQueue, Holds
  <2>2. q[j].event # t.event
    BY <1>2, <2>1, RegularEvents
  <2> QED
    BY <1>3, <2>1, <2>2 DEF Queued, Holds
<1>5. ASSUME NEW i \in 1 .. Len(r), r[i].event \in Blanks PROVE r[i].repeat # OneShot
  <2>1. r[i] # Task(t.event, t.due, t.repeat)
    BY <1>2, <1>5 DEF Task
  <2>2. Queued(q, r[i])
    BY <1>3, <2>1
  <2> QED
    BY <2>2, <1>5 DEF SoundQueue, Queued
<1>6. SoundQueue(r)
  BY <1>3, <1>4, <1>5 DEF SoundQueue
<1> QED
  BY <1>6 DEF r

LEMMA SoundAdvanced ==
  ASSUME NEW q, SoundQueue(q), NEW n \in Int PROVE SoundQueue(Advance(q, n))
<1> DEFINE r == Advance(q, n)
<1>1. q \in Queues /\ Ordered(q)
  BY DEF SoundQueue
<1>2. /\ r \in Queues /\ Ordered(r) /\ Len(r) = Len(q)
      /\ \A i \in 1 .. Len(q) : r[i].event = q[i].event /\ r[i].repeat = q[i].repeat
  BY <1>1, Advanced
<1> HIDE DEF r
<1>3. SoundQueue(r)
  BY <1>2 DEF SoundQueue, Holds
<1> QED
  BY <1>3 DEF r

LEMMA InitQueue == Init => QueueInv
<1> SUFFICES ASSUME Init PROVE QueueInv
  OBVIOUS
<1> DEFINE R == [event : Blanks, due : Int, repeat : Nat]
<1>1. CounterOK
  BY Constants DEF Init, CounterOK, NoMode, ModeRecord
<1>2. Regular \in Seq(R) /\ Len(Regular) \in Nat /\ DOMAIN Regular = 1 .. Len(Regular)
  BY TimersAssumption
<1>3. R \subseteq TaskRecords
  BY DEF TaskRecords, Events
<1>4. Regular \in Queues
  <2> HIDE DEF R
  <2> QED
    BY <1>2, <1>3 DEF Queues
<1>5. \A i \in 1 .. Len(Regular) : Regular[i].repeat # OneShot
  <2>1. \A i \in 1 .. Len(Regular) : Regular[i] \in R
    <3> HIDE DEF R
    <3> QED
      BY <1>2
  <2> QED
    BY <2>1 DEF OneShot
<1>6. Ordered(Regular)
  BY <1>2, TimersAssumption DEF Ordered
<1>7. \A i \in DOMAIN Regular : Holds(Regular, Regular[i].event)
  BY <1>2 DEF Holds
<1> QED
  BY <1>1, <1>4, <1>5, <1>6, <1>7 DEF Init, QueueInv, SoundQueue

\* What handling an event leaves of the queue.
LEMMA HandledQueue ==
  ASSUME QueueInv, NEW event, Take(event) PROVE SoundQueue(AfterNext(tasks)) /\ tasks # << >>
BY SoundTaken DEF QueueInv, Take, IsDue

\* What a new prediction leaves of it.
LEMMA PredictedQueue ==
  ASSUME NEW q, SoundQueue(q), CounterOK', Reschedule(q, Prediction')
  PROVE  SoundQueue(tasks')
<1>1. \A t \in Prediction' : IsTimerTask(t)
  <2>1. (CounterOK => \A t \in Prediction : IsTimerTask(t))'
    BY PredictionType, PTL
  <2> QED
    BY <2>1
<1> QED
  BY <1>1, SoundScheduled DEF Reschedule

LEMMA StepKeepsQueue == QueueInv /\ [Next]_vars => QueueInv'
<1> SUFFICES ASSUME QueueInv, [Next]_vars PROVE QueueInv'
  OBVIOUS
<1> USE DEF QueueInv
<1>0. 0 \in 0 .. (Word - 1) /\ 0 \in 0 .. ElapsedBound /\ 0 \in 0 .. HBlankBound
  BY Constants
<1>1. Updated.counter \in 0 .. (Word - 1) /\ Updated.hblanks \in 0 .. HBlankBound
  BY UpdatedType
<1>2. ASSUME EnterVSync PROVE QueueInv'
  <2>1. CounterOK'
    BY <1>0, <1>1, <1>2 DEF EnterVSync, CounterOK, Take
  <2> QED
    BY <1>2, <2>1, HandledQueue DEF EnterVSync, Take
<1>3. ASSUME ExitVSync PROVE QueueInv'
  <2>1. CounterOK'
    BY <1>3 DEF ExitVSync, CounterOK, Take, ModeRecord
  <2> QED
    BY <1>3, <2>1, HandledQueue DEF ExitVSync, Take
<1>4. ASSUME EnterHSync PROVE QueueInv'
  <2>1. hblanks' \in 0 .. HBlankBound
    BY <1>4, Constants DEF EnterHSync, CounterOK
  <2>2. CounterOK'
    BY <1>0, <1>1, <1>4, <2>1 DEF EnterHSync, CounterOK, Take
  <2> QED
    BY <1>4, <2>2, HandledQueue DEF EnterHSync, Take
<1>5. ASSUME ExitHSync PROVE QueueInv'
  <2>1. CounterOK'
    BY <1>0, <1>5 DEF ExitHSync, CounterOK, Take, ModeRecord
  <2>2. SoundQueue(AfterNext(tasks))
    BY <1>5, HandledQueue DEF ExitHSync
  <2>3. SoundQueue(tasks')
    <3>1. CASE Which = 0
      BY <1>5, <2>1, <2>2, <3>1, PredictedQueue DEF ExitHSync
    <3>2. CASE Which # 0
      BY <1>5, <2>2, <3>2 DEF ExitHSync
    <3> QED
      BY <3>1, <3>2
  <2>4. overran' \in BOOLEAN
    <3>1. Overrun(counter, mode', target) \in BOOLEAN
      BY DEF Overrun
    <3>2. overran' = IF Which = 0 THEN Overrun(counter, mode', target) ELSE overran
      BY <1>5 DEF ExitHSync
    <3> QED
      BY <3>1, <3>2, Zenon
  <2> QED
    BY <1>5, <2>1, <2>3, <2>4 DEF ExitHSync, Take
<1>6. ASSUME ProcessInterrupt PROVE QueueInv'
  <2>1. CounterOK'
    BY <1>6 DEF ProcessInterrupt, CounterOK, Take, ModeRecord, syncVars
  <2> QED
    BY <1>6, <2>1, HandledQueue DEF ProcessInterrupt, Take, syncVars
<1>7. ASSUME NoEvent PROVE QueueInv'
  BY <1>7 DEF NoEvent, CounterOK, timerVars, syncVars
<1>8. ASSUME Load PROVE QueueInv'
  BY <1>0, <1>1, <1>8 DEF Load, CounterOK
<1>9. ASSUME Store PROVE QueueInv'
  <2>1. CounterOK'
    <3>1. mode' \in ModeRecord /\ target' \in 0 .. Top /\ counter' \in 0 .. (Word - 1)
      <4>1. CASE \E v \in Stored : StoreCounter(v)
        BY <4>1, TimersAssumption DEF StoreCounter, CounterOK
      <4>2. CASE \E v \in Stored : StoreTarget(v)
        <5>1. PICK v \in Stored : StoreTarget(v)
          BY <4>2
        <5>2. v \in Nat
          BY TimersAssumption
        <5>3. v % (Top + 1) \in 0 .. Top
          BY <5>2, Constants
        <5> QED
          BY <1>1, <5>1, <5>3 DEF StoreTarget, CounterOK
      <4>3. CASE \E m \in Modes : StoreMode(m)
        <5>1. PICK m \in Modes : StoreMode(m)
          BY <4>3
        <5>2. m \in ModeRecord
          BY TimersAssumption
        <5>3. [m EXCEPT !.irq_disabled = TRUE] \in ModeRecord
          BY <5>2 DEF ModeRecord
        <5> QED
          BY <1>0, <5>1, <5>3 DEF StoreMode, CounterOK
      <4> QED
        BY <1>9, <4>1, <4>2, <4>3 DEF Store
    <3> QED
      BY <1>0, <1>1, <1>9, <3>1 DEF Store, CounterOK
  <2>2. SoundQueue(tasks')
    BY <1>9, <2>1, PredictedQueue DEF Store
  <2>3. overran' \in BOOLEAN
    BY <1>9 DEF Store, Overrun
  <2> QED
    BY <1>9, <2>1, <2>2, <2>3 DEF Store
<1>10. ASSUME EndBlock PROVE QueueInv'
  <2>1. PICK n \in Blocks : /\ elapsed + n <= ElapsedBound /\ elapsed' = elapsed + n
                            /\ tasks' = Advance(tasks, n)
    BY <1>10 DEF EndBlock
  <2>2. n \in Nat
    BY TimersAssumption
  <2>3. elapsed' \in 0 .. ElapsedBound
    BY <2>1, <2>2, Constants DEF CounterOK
  <2>4. SoundQueue(tasks')
    BY <2>1, <2>2, SoundAdvanced
  <2> QED
    BY <1>10, <2>3, <2>4 DEF EndBlock, CounterOK, syncVars
<1>11. CASE UNCHANGED vars
  BY <1>11 DEF vars, timerVars, syncVars, CounterOK
<1> QED
  BY <1>2, <1>3, <1>4, <1>5, <1>6, <1>7, <1>8, <1>9, <1>10, <1>11 DEF Next, Handle

LEMMA QueueImplied == QueueInv => QueueSound
<1> SUFFICES ASSUME QueueInv PROVE QueueSound
  OBVIOUS
<1>1. tasks \in Seq(TaskRecords) /\ Ordered(tasks) /\ DOMAIN tasks = 1 .. Len(tasks)
  BY DEF QueueInv, SoundQueue, Queues
<1>2. Len(tasks) <= MaxTasks
  BY <1>1, Room DEF Queues
<1>3. TypeOK
  BY <1>1 DEF QueueInv, CounterOK, TypeOK
<1> QED
  BY <1>1, <1>2, <1>3 DEF QueueSound, QueueInv, SoundQueue, Ordered, Holds

\* The queue stays sorted, holds every repeating event once and no event twice,
\* and never runs out of room, whatever is stored, however long a block takes.
THEOREM QueueStaysSound == Spec => []QueueSound
<1>1. QueueInv /\ [Next]_vars => QueueInv'
  BY StepKeepsQueue
<1> QED
  BY InitQueue, QueueImplied, <1>1, PTL DEF Spec

-----------------------------------------------------------------------------
(* An interrupt at the target comes on time.                               *)

\* A counter on the system clock that is running, or will be when a blanking
\* interval ends, and asks for one interrupt, at its target.
Armed ==
    /\ mode.irq_target /\ ~mode.irq_end /\ ~mode.irq_repeat /\ ClockSource = "Cpu"
    /\ SyncMode \in {"FreeRun", "StartOnNextLine", "StartOnNextFrame"}

\* x is t, some periods later or earlier.
Same(x, t, p) == \E k \in Int : x = t + k * p

\* The event is due, once, when a counter that is at x now reads t.
Prompt(q, event, x, t, p) ==
    \A i \in 1 .. Len(q) : q[i].event = event => q[i].repeat = OneShot /\ Same(x + q[i].due, t, p)

OnTime ==
    Armed /\ ~overran =>
        Prompt(tasks, TimerEvent, counter + elapsed, target, Period(mode, target))

\* Only t itself is below the period.
LEMMA Unique ==
  ASSUME NEW x \in Int, NEW p \in Nat, NEW t \in Nat, t < p, Same(x, t, p)
  PROVE  x % p = t
<1>1. PICK k \in Int : x = t + k * p
  BY DEF Same
<1> DEFINE d == x \div p
           r == x % p
<1>2. d \in Int /\ r \in 0 .. p - 1 /\ x = p * d + r
  OBVIOUS
<1> HIDE DEF d, r
<1>3. (k - d) * p = r - t
  BY <1>1, <1>2
<1>4. CASE k - d >= 1
  <2>1. (k - d) * p >= p
    BY <1>2, <1>4
  <2> QED
    BY <1>2, <1>3, <2>1
<1>5. CASE k - d <= -1
  <2>1. (k - d) * p <= -p
    BY <1>2, <1>5
  <2> QED
    BY <1>2, <1>3, <2>1
<1>6. CASE k = d
  BY <1>2, <1>3, <1>6 DEF r
<1> QED
  BY <1>2, <1>4, <1>5, <1>6

\* Taking whole periods off the counter changes nothing.
LEMMA Reduced ==
  ASSUME NEW x \in Int, NEW y \in Int, NEW t \in Int, NEW p \in Nat, p > 0, Same(x + y, t, p)
  PROVE  Same((x % p) + y, t, p)
<1>1. PICK k \in Int : x + y = t + k * p
  BY DEF Same
<1> DEFINE d == x \div p
           r == x % p
<1>2. d \in Int /\ r \in Int /\ x = p * d + r
  OBVIOUS
<1> HIDE DEF d, r
<1>3. r + y = t + (k - d) * p
  BY <1>1, <1>2
<1>4. Same(r + y, t, p)
  BY <1>2, <1>3 DEF Same
<1> QED
  BY <1>4 DEF r

LEMMA ReducedPrompt ==
  ASSUME NEW q \in Queues, NEW event, NEW x \in Int, NEW t \in Int, NEW p \in Nat, p > 0,
         Prompt(q, event, x, t, p)
  PROVE  Prompt(q, event, x % p, t, p)
<1> SUFFICES ASSUME NEW i \in 1 .. Len(q), q[i].event = event
             PROVE  q[i].repeat = OneShot /\ Same((x % p) + q[i].due, t, p)
  BY DEF Prompt
<1>1. q[i] \in TaskRecords
  BY DEF Queues
<1>2. q[i].due \in Int
  BY <1>1 DEF TaskRecords
<1>3. Same(x + q[i].due, t, p) /\ q[i].repeat = OneShot
  BY DEF Prompt
<1> QED
  BY <1>2, <1>3, Reduced

LEMMA TakenPrompt ==
  ASSUME NEW q \in Queues, Ordered(q), q # << >>, NEW event, NEW x, NEW t, NEW p,
         Prompt(q, event, x, t, p)
  PROVE  Prompt(AfterNext(q), event, x, t, p)
<1> DEFINE r == AfterNext(q)
<1>1. Turned(q, r)
  BY Taken
<1>2. 1 \in 1 .. Len(q)
  BY DEF Queues
<1> HIDE DEF r
<1>3. ASSUME NEW i \in 1 .. Len(r), r[i].event = event
      PROVE  r[i].repeat = OneShot /\ Same(x + r[i].due, t, p)
  <2>1. CASE q[1].repeat # OneShot /\ r[i] = Task(q[1].event, q[1].repeat, q[1].repeat)
    <3>1. q[1].event = event
      BY <2>1, <1>3 DEF Task
    <3> QED
      BY <1>2, <2>1, <3>1 DEF Prompt
  <2>2. CASE Queued(q, r[i])
    BY <2>2, <1>3 DEF Queued, Prompt
  <2> QED
    BY <1>1, <2>1, <2>2 DEF Turned
<1> QED
  BY <1>3 DEF Prompt, r

LEMMA AdvancedPrompt ==
  ASSUME NEW q \in Queues, Ordered(q), NEW event, NEW x \in Int, NEW t, NEW p, NEW n \in Int,
         Prompt(q, event, x, t, p)
  PROVE  Prompt(Advance(q, n), event, x + n, t, p)
<1> DEFINE r == Advance(q, n)
<1>1. /\ Len(r) = Len(q)
      /\ \A i \in 1 .. Len(q) : /\ r[i].event = q[i].event /\ r[i].repeat = q[i].repeat
                                /\ r[i].due = q[i].due - n
  BY Advanced
<1> HIDE DEF r
<1>2. ASSUME NEW i \in 1 .. Len(r), r[i].event = event
      PROVE  r[i].repeat = OneShot /\ Same(x + n + r[i].due, t, p)
  <2>1. q[i] \in TaskRecords
    BY <1>1 DEF Queues
  <2>2. q[i].due \in Int
    BY <2>1 DEF TaskRecords
  <2>3. x + n + r[i].due = x + q[i].due
    BY <1>1, <2>2
  <2> QED
    BY <1>1, <1>2, <2>3 DEF Prompt
<1> QED
  BY <1>2 DEF Prompt, r

LEMMA ScheduledPrompt ==
  ASSUME NEW q \in Queues, Ordered(q), NEW event \in Events, NEW due \in Int,
         NEW x, NEW t, NEW p, Same(x + due, t, p)
  PROVE  Prompt(Schedule(q, event, due, OneShot), event, x, t, p)
<1> DEFINE r == Schedule(q, event, due, OneShot)
<1>1. \A i \in 1 .. Len(r) : r[i] = Task(event, due, OneShot) \/ r[i].event # event
  BY Scheduled
<1> HIDE DEF r
<1>2. Prompt(r, event, x, t, p)
  BY <1>1 DEF Prompt, Task
<1> QED
  BY <1>2 DEF r

\* From the counter as it is, the prediction is right, unless it underflows.
LEMMA PredictedPrompt ==
  CounterOK /\ Armed /\ ~Overrun(counter, mode, target) =>
      /\ Prediction # {}
      /\ \A t \in Prediction : /\ t.event = TimerEvent /\ t.repeat = OneShot
                               /\ Same(counter + t.due, target, Period(mode, target))
<1> SUFFICES ASSUME CounterOK, Armed, ~Overrun(counter, mode, target)
             PROVE  /\ Prediction # {}
                    /\ \A t \in Prediction :
                          /\ t.event = TimerEvent /\ t.repeat = OneShot
                          /\ Same(counter + t.due, target, Period(mode, target))
  OBVIOUS
<1> DEFINE P == Period(mode, target)
<1>1. ~Stopped(SyncMode)
  BY DEF Armed, Stopped
<1>2. Prediction = {TimerTask(target)}
  BY <1>1 DEF Prediction, Armed
<1>3. /\ P \in 1 .. Top + 1 /\ target < P /\ counter \in Nat /\ target \in Nat
  BY PeriodType, Constants DEF CounterOK
<1>4. TicksToCycles(TicksTo(target)) = TicksTo(target)
  BY DEF TicksToCycles, Armed
<1>5. ~ (counter > P + target)
  BY DEF Overrun
<1>6. Same(counter + TicksTo(target), target, P)
  <2> HIDE DEF P
  <2>1. CASE counter < target
    <3>1. TicksTo(target) = target - counter
      BY <2>1, <1>3 DEF TicksTo
    <3>2. counter + TicksTo(target) = target + 0 * P
      BY <3>1, <1>3, Constants
    <3> QED
      BY <3>2 DEF Same
  <2>2. CASE counter = target
    <3>1. TicksTo(target) = P
      BY <2>2, <1>3 DEF TicksTo, P
    <3>2. counter + TicksTo(target) = target + 1 * P
      BY <2>2, <3>1, <1>3, Constants
    <3> QED
      BY <3>2 DEF Same
  <2>3. CASE counter > target
    <3> DEFINE back == P - counter + target
    <3>1. TicksTo(target) = back % Word
      BY <2>3, <1>3 DEF TicksTo, P
    <3>2. back \in Nat /\ back < Word
      BY <2>3, <1>3, <1>5, Constants
    <3>3. back % Word = back
      <4> HIDE DEF back
      <4> QED
        BY <3>2, Constants
    <3>4. counter + TicksTo(target) = target + 1 * P
      BY <3>1, <3>3, <1>3, Constants
    <3> QED
      BY <3>4 DEF Same
  <2> QED
    BY <2>1, <2>2, <2>3, <1>3
<1>7. /\ TimerTask(target).event = TimerEvent /\ TimerTask(target).repeat = OneShot
      /\ TimerTask(target).due = TicksTo(target)
  BY <1>4 DEF TimerTask, Task, Armed
<1> QED
  BY <1>2, <1>6, <1>7

\* So it is right in the queue it is put in.
LEMMA RescheduledPrompt ==
  ASSUME NEW q, SoundQueue(q), CounterOK', Reschedule(q, Prediction'), elapsed' = 0,
         Armed', ~Overrun(counter', mode', target')
  PROVE  Prompt(tasks', TimerEvent', counter' + elapsed', target', Period(mode', target'))
<1>1. /\ Prediction' # {}
      /\ \A t \in Prediction' : /\ t.event = TimerEvent' /\ t.repeat = OneShot
                                /\ Same(counter' + t.due, target', Period(mode', target'))
  <2>1. (CounterOK /\ Armed /\ ~Overrun(counter, mode, target) =>
            /\ Prediction # {}
            /\ \A t \in Prediction : /\ t.event = TimerEvent /\ t.repeat = OneShot
                                     /\ Same(counter + t.due, target, Period(mode, target)))'
    BY PredictedPrompt, PTL
  <2> QED
    BY <2>1
<1>2. \A t \in Prediction' : IsTimerTask(t)
  <2>1. (CounterOK => \A t \in Prediction : IsTimerTask(t))'
    BY PredictionType, PTL
  <2> QED
    BY <2>1
<1>3. PICK t \in Prediction' : tasks' = Schedule(q, t.event, t.due, t.repeat)
  BY <1>1 DEF Reschedule
<1>4. t.event \in Events /\ t.due \in Int
  BY <1>2 DEF IsTimerTask, Events
<1>5. counter' + elapsed' = counter'
  <2>1. counter' \in 0 .. (Word - 1) /\ elapsed' = 0
    BY DEF CounterOK
  <2>2. counter' \in Int
    BY <2>1, Constants
  <2>3. \A c \in Int : c + 0 = c
    OBVIOUS
  <2> QED
    BY <2>1, <2>2, <2>3, Zenon
<1>6. /\ q \in Queues /\ Ordered(q) /\ t.event = TimerEvent' /\ t.repeat = OneShot
      /\ Same(counter' + t.due, target', Period(mode', target'))
  BY <1>1 DEF SoundQueue
<1>7. Prompt(Schedule(q, t.event, t.due, OneShot), t.event, counter', target', Period(mode', target'))
  BY <1>4, <1>6, ScheduledPrompt
<1> QED
  BY <1>3, <1>5, <1>6, <1>7

LEMMA ArmedUpdated ==
  CounterOK /\ Armed => Updated.counter = (counter + elapsed) % Period(mode, target)
BY DEF Armed, Updated, Stopped, Delta

\* The end of a blanking interval may free the counter, and changes nothing else.
Freed(m, n) == n = m \/ n = [m EXCEPT !.sync_enabled = FALSE]

LEMMA FreedMode ==
  ASSUME NEW m \in ModeRecord, NEW n, Freed(m, n)
  PROVE  /\ n \in ModeRecord
         /\ n.irq_target = m.irq_target /\ n.irq_end = m.irq_end /\ n.irq_repeat = m.irq_repeat
         /\ n.irq_toggle = m.irq_toggle /\ n.clock_src = m.clock_src
         /\ n.reset_to_target = m.reset_to_target
BY DEF ModeRecord, Freed

LEMMA StepKeepsOnTime == QueueInv /\ OnTime /\ [Next]_vars /\ QueueInv' => OnTime'
<1> SUFFICES ASSUME QueueInv, OnTime, [Next]_vars, QueueInv', Armed', ~overran'
             PROVE  Prompt(tasks', TimerEvent', counter' + elapsed', target', Period(mode', target'))
  BY DEF OnTime
<1> DEFINE x == counter + elapsed
           P == Period(mode, target)
           Good(q, y) == Prompt(q, TimerEvent, y, target, P)
           Goal == Prompt(tasks', TimerEvent', counter' + elapsed', target', Period(mode', target'))
<1>1. /\ CounterOK /\ SoundQueue(tasks) /\ tasks \in Queues /\ Ordered(tasks)
      /\ x \in Int /\ P \in Nat /\ P > 0 /\ target \in Int /\ counter \in Int /\ elapsed \in Int
  BY PeriodType, Constants DEF QueueInv, SoundQueue, CounterOK
<1>2. CounterOK'
  BY DEF QueueInv
<1>3. Armed /\ ~overran => Good(tasks, x)
  BY DEF OnTime
<1>4. ASSUME NEW event, Take(event), Armed, ~overran
      PROVE  AfterNext(tasks) \in Queues /\ Good(AfterNext(tasks), x) /\ Good(AfterNext(tasks), x % P)
  <2>1. SoundQueue(AfterNext(tasks)) /\ tasks # << >>
    BY <1>4, HandledQueue
  <2>2. Good(AfterNext(tasks), x)
    BY <1>1, <1>3, <1>4, <2>1, TakenPrompt
  <2> HIDE DEF x, P
  <2>3. Good(AfterNext(tasks), x % P)
    BY <1>1, <2>1, <2>2, ReducedPrompt DEF SoundQueue
  <2> QED
    BY <2>1, <2>2, <2>3 DEF SoundQueue
\* Nothing but the counter and the time since its last update has changed.
<1>5. ASSUME mode' = mode, target' = target, overran' = overran PROVE
        /\ Armed /\ ~overran
        /\ (Good(tasks', counter' + elapsed') => Goal)
        /\ Updated.counter = x % P
  <2>1. Armed /\ ~overran
    BY <1>5 DEF Armed, ClockSource, SyncMode, SyncModeOf
  <2>2. TimerEvent' = TimerEvent
    BY <1>5 DEF TimerEvent
  <2> QED
    BY <1>1, <1>5, <2>1, <2>2, ArmedUpdated
<1>6. (x % P) + 0 = x % P
  <2>1. x % P \in Int
    <3> HIDE DEF x, P
    <3> QED
      BY <1>1
  <2> HIDE DEF x, P
  <2> QED
    BY <2>1
<1>7. ASSUME EnterVSync PROVE Goal
  <2>1. mode' = mode /\ target' = target /\ overran' = overran /\ Take("VBlankStart")
        /\ tasks' = AfterNext(tasks)
    BY <1>7 DEF EnterVSync
  <2>2. Armed /\ ~overran /\ Updated.counter = x % P
    BY <1>5, <2>1
  <2>3. CASE Which = 1
    <3>1. counter' = x % P /\ elapsed' = 0
      BY <1>7, <2>2, <2>3 DEF EnterVSync, Armed
    <3> HIDE DEF x, P, Goal
    <3>2. counter' + elapsed' = x % P
      BY <3>1, <1>6
    <3> QED
      BY <1>4, <1>5, <2>1, <2>2, <3>2
  <2>4. CASE Which # 1
    <3>1. counter' = counter /\ elapsed' = elapsed
      BY <1>7, <2>4 DEF EnterVSync
    <3> HIDE DEF Goal, P
    <3> QED
      BY <1>4, <1>5, <2>1, <2>2, <3>1
  <2> QED
    BY <2>3, <2>4
<1>8. ASSUME EnterHSync PROVE Goal
  <2>1. mode' = mode /\ target' = target /\ overran' = overran /\ Take("HBlankStart")
        /\ tasks' = AfterNext(tasks)
    BY <1>8 DEF EnterHSync
  <2>2. Armed /\ ~overran /\ Updated.counter = x % P
    BY <1>5, <2>1
  <2>3. CASE Which = 0
    <3>1. counter' = x % P /\ elapsed' = 0
      BY <1>8, <2>2, <2>3 DEF EnterHSync, Armed
    <3> HIDE DEF x, P, Goal
    <3>2. counter' + elapsed' = x % P
      BY <3>1, <1>6
    <3> QED
      BY <1>4, <1>5, <2>1, <2>2, <3>2
  <2>4. CASE Which # 0
    <3>1. counter' = counter /\ elapsed' = elapsed
      BY <1>8, <2>4 DEF EnterHSync
    <3> HIDE DEF Goal, P
    <3> QED
      BY <1>4, <1>5, <2>1, <2>2, <3>1
  <2> QED
    BY <2>3, <2>4
\* The mode is freed, and the counter goes on as it was.
<1>9. ASSUME NEW wait \in {"StartOnNextLine", "StartOnNextFrame"},
             mode' = IF SyncMode = wait THEN [mode EXCEPT !.sync_enabled = FALSE] ELSE mode,
             target' = target
      PROVE  Armed /\ TimerEvent' = TimerEvent /\ Period(mode', target') = P
  <2>1. mode \in ModeRecord /\ Freed(mode, mode')
    BY <1>1, <1>9 DEF CounterOK, Freed
  <2>2. /\ mode'.irq_target = mode.irq_target /\ mode'.irq_end = mode.irq_end
        /\ mode'.irq_repeat = mode.irq_repeat /\ mode'.irq_toggle = mode.irq_toggle
        /\ mode'.clock_src = mode.clock_src /\ mode'.reset_to_target = mode.reset_to_target
    BY <2>1, FreedMode
  <2>3. ClockSource' = ClockSource /\ TimerEvent' = TimerEvent /\ Period(mode', target') = P
    BY <1>9, <2>2 DEF ClockSource, TimerEvent, Period
  <2>4. SyncMode \in {"FreeRun", "StartOnNextLine", "StartOnNextFrame"}
    <3>1. CASE SyncMode = wait
      BY <3>1
    <3>2. CASE SyncMode # wait
      BY <1>9, <3>2 DEF Armed, SyncMode, SyncModeOf
    <3> QED
      BY <3>1, <3>2
  <2> QED
    BY <2>2, <2>3, <2>4 DEF Armed
<1>10. ASSUME ExitVSync PROVE Goal
  <2>1. /\ target' = target /\ overran' = overran /\ Take("VBlankEnd")
        /\ tasks' = AfterNext(tasks) /\ counter' = counter /\ elapsed' = elapsed
    BY <1>10 DEF ExitVSync
  <2>2. Armed /\ TimerEvent' = TimerEvent /\ Period(mode', target') = P
    BY <1>9, <1>10 DEF ExitVSync
  <2> HIDE DEF P
  <2> QED
    BY <1>4, <2>1, <2>2
<1>11. ASSUME ExitHSync PROVE Goal
  <2>1. target' = target /\ Take("HBlankEnd") /\ counter' = counter
    BY <1>11 DEF ExitHSync
  <2>2. Armed /\ TimerEvent' = TimerEvent /\ Period(mode', target') = P
    BY <1>9, <1>11 DEF ExitHSync
  <2>3. CASE Which = 0
    <3>1. /\ elapsed' = 0 /\ Reschedule(AfterNext(tasks), Prediction')
          /\ overran' = Overrun(counter', mode', target')
      BY <1>11, <2>1, <2>3 DEF ExitHSync
    <3>2. SoundQueue(AfterNext(tasks))
      BY <2>1, HandledQueue
    <3> QED
      BY <1>2, <3>1, <3>2, RescheduledPrompt
  <2>4. CASE Which # 0
    <3>1. elapsed' = elapsed /\ tasks' = AfterNext(tasks) /\ overran' = overran
      BY <1>11, <2>4 DEF ExitHSync
    <3> HIDE DEF P
    <3> QED
      BY <1>4, <2>1, <2>2, <3>1
  <2> QED
    BY <2>3, <2>4
<1>12. ASSUME ProcessInterrupt PROVE Goal
  <2>1. /\ target' = target /\ overran' = overran /\ (Take("TimerPulse") \/ Take("TimerToggle"))
        /\ tasks' = AfterNext(tasks) /\ counter' = counter /\ elapsed' = elapsed
    BY <1>12 DEF ProcessInterrupt
  <2>2. /\ mode'.irq_target = mode.irq_target /\ mode'.irq_end = mode.irq_end
        /\ mode'.irq_repeat = mode.irq_repeat /\ mode'.irq_toggle = mode.irq_toggle
        /\ mode'.clock_src = mode.clock_src /\ mode'.reset_to_target = mode.reset_to_target
        /\ mode'.sync_enabled = mode.sync_enabled /\ mode'.sync_mode = mode.sync_mode
    <3>1. mode \in ModeRecord
      BY <1>1 DEF CounterOK
    <3> QED
      BY <1>12, <3>1 DEF ProcessInterrupt, ModeRecord
  <2>3. Armed /\ TimerEvent' = TimerEvent /\ Period(mode', target') = P
    BY <2>1, <2>2 DEF Armed, ClockSource, SyncMode, SyncModeOf, TimerEvent, Period
  <2> HIDE DEF P
  <2> QED
    BY <1>4, <2>1, <2>3
<1>13. ASSUME NoEvent PROVE Goal
  BY <1>3, <1>5, <1>13 DEF NoEvent, timerVars, syncVars
<1>14. ASSUME Load PROVE Goal
  <2>1. /\ mode' = mode /\ target' = target /\ overran' = overran /\ tasks' = tasks
        /\ counter' = Updated.counter /\ elapsed' = 0
    BY <1>14 DEF Load
  <2>2. Armed /\ ~overran /\ Updated.counter = x % P
    BY <1>5, <2>1
  <2>3. Good(tasks, x)
    BY <1>3, <2>2
  <2> HIDE DEF x, P, Goal
  <2>4. Good(tasks, x % P)
    BY <1>1, <2>3, ReducedPrompt
  <2>5. counter' + elapsed' = x % P
    BY <2>1, <2>2, <1>6
  <2> QED
    BY <1>5, <2>1, <2>4, <2>5
<1>15. ASSUME Store PROVE Goal
  <2>1. /\ elapsed' = 0 /\ Reschedule(tasks, Prediction')
        /\ overran' = Overrun(counter', mode', target')
    BY <1>15 DEF Store
  <2> QED
    BY <1>1, <1>2, <2>1, RescheduledPrompt
<1>16. ASSUME EndBlock PROVE Goal
  <2>1. PICK n \in Blocks : elapsed' = elapsed + n /\ tasks' = Advance(tasks, n)
    BY <1>16 DEF EndBlock
  <2>2. n \in Int
    BY TimersAssumption
  <2>3. mode' = mode /\ target' = target /\ overran' = overran /\ counter' = counter
    BY <1>16 DEF EndBlock
  <2>4. Good(tasks, x)
    BY <1>3, <1>5, <2>3
  <2>5. counter' + elapsed' = x + n
    BY <1>1, <2>1, <2>2, <2>3
  <2> HIDE DEF x, P, Goal
  <2>6. Good(tasks', x + n)
    BY <1>1, <2>1, <2>2, <2>4, AdvancedPrompt
  <2> QED
    BY <1>5, <2>3, <2>5, <2>6
<1>17. CASE UNCHANGED vars
  BY <1>3, <1>5, <1>17 DEF vars, timerVars, syncVars
<1> QED
  BY <1>7, <1>8, <1>10, <1>11, <1>12, <1>13, <1>14, <1>15, <1>16, <1>17 DEF Next, Handle

LEMMA OnTimeImplied == QueueInv /\ OnTime => TargetOnTime
<1> SUFFICES ASSUME QueueInv, OnTime, FreeRunning, mode.irq_target, ~mode.irq_end,
                    ~mode.irq_repeat, ~overran,
                    NEW i \in DOMAIN tasks, tasks[i].event = TimerEvent
             PROVE  (counter + elapsed + tasks[i].due) % Period(mode, target) = target
  BY DEF TargetOnTime
<1>1. Armed
  BY DEF Armed, FreeRunning, SyncMode, SyncModeOf
<1>2. tasks \in Queues /\ CounterOK
  BY DEF QueueInv, SoundQueue
<1>3. i \in 1 .. Len(tasks) /\ tasks[i] \in TaskRecords
  BY <1>2 DEF Queues
<1>4. tasks[i].due \in Int /\ counter \in Int /\ elapsed \in Int /\ target \in Nat
  BY <1>2, <1>3, Constants DEF TaskRecords, CounterOK
<1>5. Period(mode, target) \in Nat /\ target < Period(mode, target)
  BY <1>2, PeriodType, Constants DEF CounterOK
<1>6. Same(counter + elapsed + tasks[i].due, target, Period(mode, target))
  BY <1>1, <1>3 DEF OnTime, Prompt
<1> DEFINE x == counter + elapsed + tasks[i].due
           p == Period(mode, target)
<1>7. x \in Int /\ p \in Nat /\ target \in Nat /\ target < p /\ Same(x, target, p)
  BY <1>4, <1>5, <1>6
<1> HIDE DEF x, p
<1>8. x % p = target
  BY <1>7, Unique
<1> QED
  BY <1>8 DEF x, p

\* However the counter is brought up to date, stored to, stopped and freed in
\* between, a one-shot interrupt at its target falls due when it reads the
\* target, for each of the three counters.
THEOREM TargetsAreOnTime == Spec => []TargetOnTime
<1> DEFINE Inv == QueueInv /\ OnTime
<1>1. Init => Inv
  <2> SUFFICES ASSUME Init PROVE Inv
    OBVIOUS
  <2>1. ~Armed
    BY DEF Init, NoMode, Armed
  <2> QED
    BY <2>1, InitQueue DEF OnTime
<1>2. Inv /\ [Next]_vars => Inv'
  BY StepKeepsQueue, StepKeepsOnTime
<1>3. Inv => TargetOnTime
  BY OnTimeImplied
<1> HIDE DEF Inv
<1> QED
  BY <1>1, <1>2, <1>3, PTL DEF Spec

=============================================================================
