--------------------------- MODULE SaveQueueProofs ---------------------------
(* Theorems about SaveQueue, for any number of shards and tasks, any batch     *)
(* size and any number of failed acquisitions.                                 *)
EXTENDS SaveQueue, FiniteSetTheorems, SequenceTheorems, TLAPS

-----------------------------------------------------------------------------
(* Type correctness *)

Entry == Tasks \cup {Pill}

\* What the steps do with a sequence.
LEMMA SeqTypes ==
  ASSUME NEW S, NEW q \in Seq(S)
  PROVE  /\ Len(q) \in Nat
         /\ \A t \in S : Append(q, t) \in Seq(S)
         /\ \A n \in 0 .. Len(q) : SubSeq(q, 1, n) \in Seq(S) /\ SubSeq(q, n + 1, Len(q)) \in Seq(S)
         /\ q # << >> => Head(q) \in S /\ Tail(q) \in Seq(S)
         /\ << >> \in Seq(S)
  OBVIOUS

\* The types of what each shard has.
ShardOK(s) ==
  /\ queue[s] \in Seq(Entry) /\ batch[s] \in Seq(Entry) /\ done[s] \in Seq(Tasks)
  /\ wpc[s] \in {"wait", "acquire", "run", "requeue", "stopped"}
  /\ pushed[s] \in 0 .. MaxTasks /\ promised[s] \in 0 .. MaxTasks

\* They are what TypeOK says of functions.
LEMMA ByShard ==
  ASSUME TypeOK, NEW s \in Shards
  PROVE  ShardOK(s)
  BY DEF TypeOK, ShardOK, Entry

\* Every step keeps the types.
LEMMA TypeStep == ASSUME TypeOK, [Next]_vars PROVE TypeOK'
  <1> DEFINE Q == Seq(Entry)
             D == Seq(Tasks)
  <1>0. /\ queue \in [Shards -> Q] /\ batch \in [Shards -> Q] /\ done \in [Shards -> D]
        /\ wpc \in [Shards -> {"wait", "acquire", "run", "requeue", "stopped"}]
        /\ pushed \in [Shards -> 0 .. MaxTasks] /\ promised \in [Shards -> 0 .. MaxTasks]
        /\ failures \in 0 .. MaxFailures /\ stopper \in -NumShards .. NumShards + 1
    BY DEF TypeOK, Entry
  <1> DEFINE Typed == /\ queue \in [Shards -> Q] /\ batch \in [Shards -> Q] /\ done \in [Shards -> D]
        /\ wpc \in [Shards -> {"wait", "acquire", "run", "requeue", "stopped"}]
        /\ pushed \in [Shards -> 0 .. MaxTasks] /\ promised \in [Shards -> 0 .. MaxTasks]
        /\ failures \in 0 .. MaxFailures /\ stopper \in -NumShards .. NumShards + 1
  <1> SUFFICES Typed'  BY DEF TypeOK, Entry
  <1>a. ASSUME NEW q \in Q
        PROVE  /\ \A t \in Entry : Append(q, t) \in Q
               /\ \A n \in 0 .. Len(q) : SubSeq(q, 1, n) \in Q /\ SubSeq(q, n + 1, Len(q)) \in Q
               /\ q # << >> => Head(q) \in Entry /\ Tail(q) \in Q
    BY SeqTypes
  <1>b. << >> \in Q /\ Pill \in Entry /\ \A q \in Q : Len(q) \in Nat  BY SeqTypes DEF Entry
  <1>c. \A d \in D : \A t \in Tasks : Append(d, t) \in D  BY SeqTypes
  <1>d. \A t \in Tasks : t \in Entry  BY DEF Entry
  <1>e. \A t \in Entry : t # Pill => t \in Tasks  BY DEF Entry
  <1>f. Tasks = 1 .. MaxTasks /\ Shards = 1 .. NumShards  BY DEF Tasks, Shards
  <1> HIDE DEF Q, D, Tasks, Shards
  <1> USE QueueAssumption, <1>0 DEF GoW, Put
  <1>1. CASE BeginStop  BY <1>1 DEF BeginStop
  <1>2. ASSUME NEW s \in Shards, Push(s) PROVE Typed'
    <2>1. pushed[s] + 1 \in Entry /\ pushed[s] + 1 \in 0 .. MaxTasks  BY <1>2, <1>d, <1>f DEF Push
    <2>2. Append(queue[s], pushed[s] + 1) \in Q  BY <2>1, <1>a
    <2>3. queue' = [queue EXCEPT ![s] = Append(@, pushed[s] + 1)]  BY <1>2 DEF Push
    <2> QED  BY <1>2, <2>1, <2>2, <2>3 DEF Push
  <1>3. ASSUME NEW s \in Shards, PopBatch(s) PROVE Typed'
    <2> DEFINE n == IF MaxBatch < Len(queue[s]) THEN MaxBatch ELSE Len(queue[s])
    <2>1. n \in 0 .. Len(queue[s])  BY <1>b
    <2>2. SubSeq(queue[s], 1, n) \in Q /\ SubSeq(queue[s], n + 1, Len(queue[s])) \in Q
      BY <2>1, <1>a
    <2> HIDE DEF n
    <2>3. /\ batch' = [batch EXCEPT ![s] = SubSeq(queue[s], 1, n)]
          /\ queue' = [queue EXCEPT ![s] = SubSeq(queue[s], n + 1, Len(queue[s]))]
      BY <1>3 DEF PopBatch, n
    <2>4. /\ GoW(s, "wait", "acquire")
          /\ UNCHANGED <<pushed, done, failures, stopper, promised>>
      BY <1>3 DEF PopBatch
    <2> QED  BY <2>2, <2>3, <2>4
  <1>4. ASSUME NEW s \in Shards, AcquireOk(s) PROVE Typed'  BY <1>4 DEF AcquireOk
  <1>5. ASSUME NEW s \in Shards, AcquireFails(s) PROVE Typed'  BY <1>5 DEF AcquireFails
  <1>6. ASSUME NEW s \in Shards, Requeue(s) PROVE Typed'
    <2>1. Head(batch[s]) \in Entry /\ Tail(batch[s]) \in Q  BY <1>6, <1>a DEF Requeue
    <2>2. Append(queue[s], Head(batch[s])) \in Q  BY <2>1, <1>a
    <2> QED  BY <1>6, <2>1, <2>2 DEF Requeue
  <1>7. ASSUME NEW s \in Shards, EndBatch(s) PROVE Typed'  BY <1>7 DEF EndBatch
  <1>8. ASSUME NEW s \in Shards, Execute(s) PROVE Typed'
    <2>1. Head(batch[s]) \in Tasks /\ Tail(batch[s]) \in Q  BY <1>8, <1>a, <1>e DEF Execute
    <2>2. Append(done[s], Head(batch[s])) \in D  BY <2>1, <1>c
    <2> QED  BY <1>8, <2>1, <2>2 DEF Execute
  <1>9. ASSUME NEW s \in Shards, TakePill(s) PROVE Typed'  BY <1>9, <1>b DEF TakePill
  <1>10. ASSUME NEW s \in Shards, PushPill(s) PROVE Typed'
    <2>1. Append(queue[s], Pill) \in Q  BY <1>a, <1>b
    <2>2. -s \in -NumShards .. NumShards + 1  BY <1>f
    <2> QED  BY <1>10, <2>1, <2>2 DEF PushPill
  <1>11. ASSUME NEW s \in Shards, Join(s) PROVE Typed'
    <2>1. s + 1 \in -NumShards .. NumShards + 1  BY <1>f
    <2> QED  BY <1>11, <2>1 DEF Join
  <1>12. CASE UNCHANGED vars  BY <1>12 DEF vars
  <1> QED  BY <1>1, <1>2, <1>3, <1>4, <1>5, <1>6, <1>7, <1>8, <1>9, <1>10, <1>11, <1>12 DEF Next, Stop, Worker

\* The variables keep their types.
THEOREM TypeCorrect == Spec => []TypeOK
  <1>1. ASSUME Init PROVE TypeOK
    <2>1. << >> \in Seq(Tasks \cup {Pill}) /\ << >> \in Seq(Tasks)  OBVIOUS
    <2>2. 0 \in -NumShards .. NumShards + 1 /\ 0 \in 0 .. MaxTasks /\ 0 \in 0 .. MaxFailures
      BY QueueAssumption
    <2> QED  BY <1>1, <2>1, <2>2 DEF Init, TypeOK
  <1> QED  BY <1>1, TypeStep, PTL DEF Spec

-----------------------------------------------------------------------------
(* Facts about the line of a shard: what its worker has executed, what it has   *)
(* in its batch and what is in its queue, one behind the other                  *)

\* t stands at exactly one place; the tasks stand in order; t stands before
\* every stop signal.
Once(E, t) == \E i \in DOMAIN E : E[i] = t /\ \A j \in DOMAIN E : E[j] = t => j = i
Ordered(E) == \A i, j \in DOMAIN E : i < j /\ E[i] # Pill /\ E[j] # Pill => E[i] < E[j]
Early(E, t) == \E i \in DOMAIN E : E[i] = t /\ \A j \in DOMAIN E : E[j] = Pill => i < j

\* Once is what NoTaskLost counts.
LEMMA OnceCounts ==
  ASSUME NEW E, NEW t, Once(E, t)
  PROVE  Cardinality({i \in DOMAIN E : E[i] = t}) = 1
  <1>1. PICK k \in DOMAIN E : E[k] = t /\ \A j \in DOMAIN E : E[j] = t => j = k  BY DEF Once
  <1>2. {i \in DOMAIN E : E[i] = t} = {k}  BY <1>1
  <1> QED  BY <1>2, FS_Singleton

\* The places of a line.
LEMMA TwoPlaces ==
  ASSUME NEW S, NEW c \in Seq(S), NEW q \in Seq(S)
  PROVE  /\ c \o q \in Seq(S) /\ Len(c \o q) = Len(c) + Len(q)
         /\ Len(c) \in Nat /\ Len(q) \in Nat
         /\ \A i \in 1 .. Len(c) : (c \o q)[i] = c[i]
         /\ \A i \in 1 .. Len(q) : (c \o q)[Len(c) + i] = q[i]
  OBVIOUS

LEMMA LinePlaces ==
  ASSUME NEW S, NEW d \in Seq(S), NEW b \in Seq(S), NEW q \in Seq(S)
  PROVE  /\ d \o b \o q \in Seq(S)
         /\ Len(d) \in Nat /\ Len(b) \in Nat /\ Len(q) \in Nat
         /\ Len(d \o b \o q) = Len(d) + Len(b) + Len(q)
         /\ \A i \in 1 .. Len(d) : (d \o b \o q)[i] = d[i]
         /\ \A i \in 1 .. Len(b) : (d \o b \o q)[Len(d) + i] = b[i]
         /\ \A i \in 1 .. Len(q) : (d \o b \o q)[Len(d) + Len(b) + i] = q[i]
  <1> DEFINE c == d \o b
             E == c \o q
  <1>1. /\ c \in Seq(S) /\ Len(c) = Len(d) + Len(b) /\ Len(d) \in Nat /\ Len(b) \in Nat
        /\ \A i \in 1 .. Len(d) : c[i] = d[i]
        /\ \A i \in 1 .. Len(b) : c[Len(d) + i] = b[i]
    BY TwoPlaces
  <1>a. c \in Seq(S)  BY <1>1
  <1> HIDE DEF c
  <1>2. /\ E \in Seq(S) /\ Len(E) = Len(c) + Len(q) /\ Len(q) \in Nat
        /\ \A i \in 1 .. Len(c) : E[i] = c[i]
        /\ \A i \in 1 .. Len(q) : E[Len(c) + i] = q[i]
    <2>1. E \in Seq(S) /\ Len(E) = Len(c) + Len(q) /\ Len(q) \in Nat  BY <1>a, TwoPlaces
    <2>2. \A i \in 1 .. Len(c) : E[i] = c[i]  BY <1>a, TwoPlaces
    <2>3. \A i \in 1 .. Len(q) : E[Len(c) + i] = q[i]  BY <1>a, TwoPlaces
    <2> QED  BY <2>1, <2>2, <2>3
  <1> HIDE DEF E
  <1>3. \A i \in 1 .. Len(d) : E[i] = d[i]  BY <1>1, <1>2
  <1>4. \A i \in 1 .. Len(b) : E[Len(d) + i] = b[i]  BY <1>1, <1>2
  <1>5. \A i \in 1 .. Len(q) : E[Len(d) + Len(b) + i] = q[i]  BY <1>1, <1>2
  <1>6. E \in Seq(S) /\ Len(E) = Len(d) + Len(b) + Len(q)  BY <1>1, <1>2
  <1> QED  BY <1>1, <1>2, <1>3, <1>4, <1>5, <1>6 DEF c, E

\* What is pushed joins the line at the end.
LEMMA LineJoin ==
  ASSUME NEW S, NEW d \in Seq(S), NEW b \in Seq(S), NEW q \in Seq(S), NEW x \in S
  PROVE  d \o b \o Append(q, x) = Append(d \o b \o q, x)
  OBVIOUS

\* A batch that is taken leaves the line as it is.
LEMMA LinePop ==
  ASSUME NEW S, NEW d \in Seq(S), NEW q \in Seq(S), NEW n \in 0 .. Len(q)
  PROVE  d \o SubSeq(q, 1, n) \o SubSeq(q, n + 1, Len(q)) = d \o << >> \o q
  <1>1. SubSeq(q, 1, n) \in Seq(S) /\ SubSeq(q, n + 1, Len(q)) \in Seq(S)  OBVIOUS
  <1>2. SubSeq(q, 1, n) \o SubSeq(q, n + 1, Len(q)) = SubSeq(q, 1, Len(q))
    <2>1. 1 \in 1 .. Len(q) + 1 /\ n \in 1 - 1 .. Len(q) /\ Len(q) \in n .. Len(q)  OBVIOUS
    <2> QED  BY <2>1, ConcatAdjacentSubSeq
  <1>3. SubSeq(q, 1, Len(q)) = q /\ d \o << >> = d  OBVIOUS
  <1> DEFINE u == SubSeq(q, 1, n)
             v == SubSeq(q, n + 1, Len(q))
  <1>0. u \in Seq(S) /\ v \in Seq(S)  BY <1>1
  <1> HIDE DEF u, v
  <1>4. (d \o u) \o v = d \o (u \o v)  BY <1>0, ConcatAssociative, SMTT(30)
  <1> QED  BY <1>2, <1>3, <1>4 DEF u, v

\* So does a task that is executed.
LEMMA LineExecute ==
  ASSUME NEW S, NEW d \in Seq(S), NEW b \in Seq(S), NEW q \in Seq(S), b # << >>
  PROVE  Append(d, Head(b)) \o Tail(b) \o q = d \o b \o q
  OBVIOUS

\* An entry that joins a line at its end.
LEMMA Joined ==
  ASSUME NEW E, NEW F, NEW n \in Nat, NEW x, DOMAIN E = 1 .. n, DOMAIN F = 1 .. n + 1,
         F[n + 1] = x, \A i \in 1 .. n : F[i] = E[i], \A i \in 1 .. n : E[i] \in Int
  PROVE  /\ \A t : t # x /\ Once(E, t) => Once(F, t)
         /\ (\A i \in 1 .. n : E[i] # x) => Once(F, x)
         /\ Ordered(E) /\ (x # Pill => \A i \in 1 .. n : E[i] < x) => Ordered(F)
         /\ \A t : Early(E, t) => Early(F, t)
         /\ \A t : x = Pill /\ (\A i \in 1 .. n : E[i] # Pill) /\ Once(E, t) => Early(F, t)
  <1>1. ASSUME NEW t, t # x, Once(E, t) PROVE Once(F, t)
    <2>1. PICK i \in 1 .. n : E[i] = t /\ \A j \in 1 .. n : E[j] = t => j = i  BY <1>1 DEF Once
    <2>2. i \in 1 .. n + 1 /\ F[i] = t /\ \A j \in 1 .. n + 1 : F[j] = t => j = i  BY <1>1, <2>1
    <2> QED  BY <2>2 DEF Once
  <1>2. ASSUME \A i \in 1 .. n : E[i] # x PROVE Once(F, x)
    <2>1. n + 1 \in 1 .. n + 1 /\ F[n + 1] = x /\ \A j \in 1 .. n + 1 : F[j] = x => j = n + 1  BY <1>2
    <2> QED  BY <2>1 DEF Once
  <1>3. ASSUME Ordered(E), x # Pill => \A i \in 1 .. n : E[i] < x PROVE Ordered(F)
    <2> SUFFICES ASSUME NEW i \in 1 .. n + 1, NEW j \in 1 .. n + 1, i < j, F[i] # Pill, F[j] # Pill
                 PROVE  F[i] < F[j]
      BY DEF Ordered
    <2>1. CASE j = n + 1  BY <1>3, <2>1
    <2>2. CASE j # n + 1
      <3>1. i \in 1 .. n /\ j \in 1 .. n  BY <2>2
      <3> QED  BY <1>3, <3>1 DEF Ordered
    <2> QED  BY <2>1, <2>2
  <1>4. ASSUME NEW t, Early(E, t) PROVE Early(F, t)
    <2>1. PICK i \in 1 .. n : E[i] = t /\ \A j \in 1 .. n : E[j] = Pill => i < j  BY <1>4 DEF Early
    <2>2. i \in 1 .. n + 1 /\ F[i] = t /\ \A j \in 1 .. n + 1 : F[j] = Pill => i < j  BY <2>1
    <2> QED  BY <2>2 DEF Early
  <1>5. ASSUME NEW t, x = Pill, \A i \in 1 .. n : E[i] # Pill, Once(E, t) PROVE Early(F, t)
    <2>1. PICK i \in 1 .. n : E[i] = t /\ \A j \in 1 .. n : E[j] = t => j = i  BY <1>5 DEF Once
    <2>2. i \in 1 .. n + 1 /\ F[i] = t /\ \A j \in 1 .. n + 1 : F[j] = Pill => i < j  BY <1>5, <2>1
    <2> QED  BY <2>2 DEF Early
  <1> QED  BY <1>1, <1>2, <1>3, <1>4, <1>5

\* An entry that goes from the place k to the end, or out of the line.
Shifted(E, F, n, m, k) ==
  /\ n \in Nat /\ k \in 1 .. n /\ m \in {n - 1, n} /\ DOMAIN E = 1 .. n /\ DOMAIN F = 1 .. m
  /\ m = n => F[n] = E[k]
  /\ \A i \in 1 .. k - 1 : F[i] = E[i]
  /\ \A i \in k .. n - 1 : F[i] = E[i + 1]

\* What stands in the line once still does, unless it has gone out of it.
LEMMA Moved ==
  ASSUME NEW E, NEW F, NEW n, NEW m, NEW k, Shifted(E, F, n, m, k),
         NEW t, Once(E, t), m = n \/ t # E[k]
  PROVE  Once(F, t)
  <1> USE DEF Shifted
  <1>1. PICK i \in 1 .. n : E[i] = t /\ \A j \in 1 .. n : E[j] = t => j = i  BY DEF Once
  <1>2. CASE i < k
    <2>1. i \in 1 .. m /\ F[i] = t /\ \A j \in 1 .. m : F[j] = t => j = i  BY <1>1, <1>2
    <2> QED  BY <2>1 DEF Once
  <1>3. CASE i = k
    <2>1. m = n  BY <1>1, <1>3
    <2>2. n \in 1 .. m /\ F[n] = t /\ \A j \in 1 .. m : F[j] = t => j = n  BY <1>1, <1>3, <2>1
    <2> QED  BY <2>2 DEF Once
  <1>4. CASE i > k
    <2>1. i - 1 \in 1 .. m /\ F[i - 1] = t /\ \A j \in 1 .. m : F[j] = t => j = i - 1
      <3>1. i - 1 \in 1 .. m /\ F[i - 1] = t  BY <1>1, <1>4
      <3>2. ASSUME NEW j \in 1 .. m PROVE F[j] = t => j = i - 1
        <4>1. CASE j < k  BY <1>1, <1>4, <4>1
        <4>2. CASE j >= k /\ j <= n - 1
          <5>1. F[j] = E[j + 1] /\ j + 1 \in 1 .. n  BY <4>2
          <5>2. F[j] = t => j + 1 = i  BY <1>1, <5>1
          <5> QED  BY <5>2
        <4>3. CASE j = n  BY <1>1, <1>4, <4>3
        <4> QED  BY <4>1, <4>2, <4>3
      <3> QED  BY <3>1, <3>2
    <2> QED  BY <2>1, SMTT(20) DEF Once
  <1> QED  BY <1>2, <1>3, <1>4

\* What is in the line afterwards was there before.
LEMMA MovedFrom ==
  ASSUME NEW E, NEW F, NEW n, NEW m, NEW k, Shifted(E, F, n, m, k),
         NEW i \in 1 .. m
  PROVE  \E j \in 1 .. n : F[i] = E[j]
  <1> USE DEF Shifted
  <1>1. CASE i < k  BY <1>1
  <1>2. CASE i >= k /\ i <= n - 1
    <2>1. F[i] = E[i + 1] /\ i + 1 \in 1 .. n  BY <1>2
    <2> QED  BY <2>1
  <1>3. CASE i = n  BY <1>3
  <1> QED  BY <1>1, <1>2, <1>3

\* The rest of a batch that is destroyed.
LEMMA Cut ==
  ASSUME NEW E, NEW F, NEW n \in Nat, NEW k \in Nat, NEW c \in Nat, k + c <= n,
         DOMAIN E = 1 .. n, DOMAIN F = 1 .. n - c,
         \A i \in 1 .. k : F[i] = E[i], \A i \in k + 1 .. n - c : F[i] = E[i + c]
  PROVE  /\ Ordered(E) => Ordered(F)
         /\ \A i \in 1 .. n - c : \E j \in 1 .. n : F[i] = E[j]
  <1> DEFINE g(i) == IF i <= k THEN i ELSE i + c
  <1>1. \A i \in 1 .. n - c : g(i) \in 1 .. n /\ F[i] = E[g(i)]  OBVIOUS
  <1>2. \A i, j \in 1 .. n - c : i < j => g(i) < g(j)  OBVIOUS
  <1>3. ASSUME Ordered(E) PROVE Ordered(F)
    <2> HIDE DEF g
    <2> QED  BY <1>1, <1>2, <1>3 DEF Ordered
  <1> QED  BY <1>1, <1>3

-----------------------------------------------------------------------------
(* The invariant of a shard *)

\* Stop has not sent the signal of s.
Unsent(s) == (stopper >= 0 /\ stopper <= s) \/ (stopper < 0 /\ -stopper < s)

\* What is in the line was pushed; before its signal is sent there is none in the
\* line, and the worker lives; while it lives every task is in the line once.
Below(s) == \A i \in DOMAIN Everywhere(s) : Everywhere(s)[i] <= pushed[s]
NoSignal(s) ==
  Unsent(s) => wpc[s] # "stopped" /\ \A i \in DOMAIN Everywhere(s) : Everywhere(s)[i] # Pill
Present(s) == wpc[s] # "stopped" => \A t \in 1 .. pushed[s] : Once(Everywhere(s), t)

\* As long as nothing has failed the line is in order, and what was pushed before
\* the signal stands before it, and is executed when the worker has taken it.
Calm(s) == failures = 0 =>
  /\ wpc[s] # "requeue" /\ Ordered(Everywhere(s))
  /\ wpc[s] = "stopped" => 1 .. promised[s] \subseteq Range(done[s])
  /\ wpc[s] # "stopped" => \A t \in 1 .. promised[s] : Early(Everywhere(s), t)

LineOK(s) == Below(s) /\ NoSignal(s) /\ Present(s) /\ Calm(s)
LineInv == \A s \in Shards : LineOK(s) /\ (wpc[s] = "wait" => batch[s] = << >>)

\* The line of a shard is a sequence, before and after a step.
LEMMA LineTyped ==
  ASSUME TypeOK, NEW s \in Shards
  PROVE  /\ Everywhere(s) \in Seq(Entry) /\ Len(Everywhere(s)) \in Nat
         /\ DOMAIN Everywhere(s) = 1 .. Len(Everywhere(s))
         /\ \A i \in 1 .. Len(Everywhere(s)) : Everywhere(s)[i] \in Int
  <1> DEFINE E == Everywhere(s)
  <1>1. queue[s] \in Seq(Entry) /\ batch[s] \in Seq(Entry) /\ done[s] \in Seq(Entry)
    <2>1. Tasks \subseteq Entry  BY DEF Entry
    <2>2. \A d \in Seq(Tasks) : d \in Seq(Entry)  BY <2>1
    <2> QED  BY <2>2, ByShard DEF ShardOK
  <1>2. E \in Seq(Entry)  BY <1>1, LinePlaces DEF Everywhere
  <1>3. \A x \in Entry : x \in Int  BY DEF Entry, Tasks, Pill
  <1> HIDE DEF E
  <1>4. Len(E) \in Nat /\ DOMAIN E = 1 .. Len(E) /\ \A i \in 1 .. Len(E) : E[i] \in Entry
    BY <1>2
  <1> QED  BY <1>2, <1>3, <1>4 DEF E

\* A step that leaves the line as it is.
LEMMA LineKept ==
  ASSUME NEW s \in Shards, LineOK(s), Everywhere(s)' = Everywhere(s),
         pushed'[s] = pushed[s], promised'[s] = promised[s],
         failures' = 0 => failures = 0 /\ wpc'[s] # "requeue",
         Unsent(s)' => Unsent(s), wpc'[s] = "stopped" <=> wpc[s] = "stopped",
         wpc[s] = "stopped" => done'[s] = done[s]
  PROVE  LineOK(s)'
  <1> DEFINE E == Everywhere(s)
             F == Everywhere(s)'
  <1>0. E = F  OBVIOUS
  <1>1. \A i \in DOMAIN E : E[i] <= pushed[s]  BY DEF LineOK, Below
  <1>2. Unsent(s) => wpc[s] # "stopped" /\ \A i \in DOMAIN E : E[i] # Pill
    BY DEF LineOK, NoSignal
  <1>3. wpc[s] # "stopped" => \A t \in 1 .. pushed[s] : Once(E, t)  BY DEF LineOK, Present
  <1>4. failures = 0 =>
          /\ Ordered(E)
          /\ wpc[s] = "stopped" => 1 .. promised[s] \subseteq Range(done[s])
          /\ wpc[s] # "stopped" => \A t \in 1 .. promised[s] : Early(E, t)
    BY DEF LineOK, Calm
  <1> HIDE DEF E, F
  <1>5. \A i \in DOMAIN F : F[i] <= pushed'[s]  BY <1>0, <1>1
  <1>6. Unsent(s)' => wpc'[s] # "stopped" /\ \A i \in DOMAIN F : F[i] # Pill  BY <1>0, <1>2
  <1>7. wpc'[s] # "stopped" => \A t \in 1 .. pushed'[s] : Once(F, t)  BY <1>0, <1>3
  <1>8. failures' = 0 =>
          /\ wpc'[s] # "requeue" /\ Ordered(F)
          /\ wpc'[s] = "stopped" => 1 .. promised'[s] \subseteq Range(done'[s])
          /\ wpc'[s] # "stopped" => \A t \in 1 .. promised'[s] : Early(F, t)
    BY <1>0, <1>4
  <1> QED  BY <1>5, <1>6, <1>7, <1>8 DEF LineOK, Below, NoSignal, Present, Calm, Once, Ordered, Early, F

\* A task is pushed.
LEMMA LinePushed ==
  ASSUME TypeOK, TypeOK', NEW s \in Shards, LineOK(s), Push(s)
  PROVE  LineOK(s)'
  <1> DEFINE E == Everywhere(s)
             F == Everywhere(s)'
             n == Len(E)
             x == pushed[s] + 1
  <1>1. /\ pushed'[s] = x /\ queue'[s] = Append(queue[s], x)
        /\ batch'[s] = batch[s] /\ done'[s] = done[s]
    <2>1. pushed'[s] = x  BY DEF Push, TypeOK
    <2> QED  BY <2>1 DEF Push, Put, TypeOK
  <1>2. /\ wpc' = wpc /\ failures' = failures /\ stopper' = stopper /\ promised' = promised
        /\ done' = done
    BY DEF Push
  <1>3. x \in Entry /\ x \in Nat /\ x > 0 /\ pushed[s] \in Nat /\ x > pushed[s]
    BY ByShard, QueueAssumption DEF Push, ShardOK, Entry, Tasks
  <1>4. F = Append(E, x)
    <2>1. queue[s] \in Seq(Entry) /\ batch[s] \in Seq(Entry) /\ done[s] \in Seq(Entry)
      <3>1. \A d \in Seq(Tasks) : d \in Seq(Entry)  BY DEF Entry
      <3> QED  BY <3>1, ByShard DEF ShardOK
    <2>2. done[s] \o batch[s] \o Append(queue[s], x) = Append(done[s] \o batch[s] \o queue[s], x)
      <3> DEFINE d == done[s]
                 b == batch[s]
                 q == queue[s]
      <3>1. d \in Seq(Entry) /\ b \in Seq(Entry) /\ q \in Seq(Entry) /\ x \in Entry
        BY <1>3, <2>1
      <3> HIDE DEF d, b, q, x
      <3>2. d \o b \o Append(q, x) = Append(d \o b \o q, x)  BY <3>1, LineJoin
      <3> QED  BY <3>2 DEF d, b, q
    <2> QED  BY <1>1, <2>2 DEF Everywhere
  <1>5. E \in Seq(Entry) /\ n \in Nat /\ DOMAIN E = 1 .. n /\ \A i \in 1 .. n : E[i] \in Int
    BY LineTyped
  <1>a. \A i \in DOMAIN E : E[i] <= pushed[s]  BY DEF LineOK, Below
  <1>b. Unsent(s) => wpc[s] # "stopped" /\ \A i \in DOMAIN E : E[i] # Pill
    BY DEF LineOK, NoSignal
  <1>c. wpc[s] # "stopped" => \A t \in 1 .. pushed[s] : Once(E, t)  BY DEF LineOK, Present
  <1>d. failures = 0 =>
          /\ wpc[s] # "requeue" /\ Ordered(E)
          /\ wpc[s] = "stopped" => 1 .. promised[s] \subseteq Range(done[s])
          /\ wpc[s] # "stopped" => \A t \in 1 .. promised[s] : Early(E, t)
    BY DEF LineOK, Calm
  <1> HIDE DEF E, F
  <1>6. DOMAIN F = 1 .. n + 1 /\ F[n + 1] = x /\ \A i \in 1 .. n : F[i] = E[i]
    BY <1>3, <1>4, <1>5
  <1>7. /\ \A t : t # x /\ Once(E, t) => Once(F, t)
        /\ (\A i \in 1 .. n : E[i] # x) => Once(F, x)
        /\ Ordered(E) /\ (x # Pill => \A i \in 1 .. n : E[i] < x) => Ordered(F)
        /\ \A t : Early(E, t) => Early(F, t)
    BY <1>5, <1>6, Joined, SMTT(30)
  <1>8. \A i \in 1 .. n : E[i] < x  BY <1>3, <1>5, <1>a
  <1> HIDE DEF n, x
  <1>9. \A i \in DOMAIN F : F[i] <= pushed'[s]
    <2> SUFFICES ASSUME NEW i \in 1 .. n + 1 PROVE F[i] <= x  BY <1>1, <1>6
    <2>1. CASE i = n + 1  BY <1>3, <1>6, <2>1
    <2>2. CASE i # n + 1
      <3>1. i \in 1 .. n  BY <1>5, <2>2
      <3> QED  BY <1>3, <1>5, <1>6, <1>8, <3>1
    <2> QED  BY <2>1, <2>2
  <1>10. Unsent(s)' => wpc'[s] # "stopped" /\ \A i \in DOMAIN F : F[i] # Pill
    BY <1>2, <1>3, <1>5, <1>6, <1>b DEF Unsent, Pill
  <1>11. wpc'[s] # "stopped" => \A t \in 1 .. pushed'[s] : Once(F, t)
    <2> SUFFICES ASSUME wpc[s] # "stopped", NEW t \in 1 .. x PROVE Once(F, t)  BY <1>1, <1>2
    <2>1. CASE t = x  BY <1>5, <1>7, <1>8, <2>1
    <2>2. CASE t # x
      <3>1. t \in 1 .. pushed[s]  BY <1>3, <2>2 DEF x
      <3> QED  BY <1>7, <1>c, <2>2, <3>1
    <2> QED  BY <2>1, <2>2
  <1>12. failures' = 0 =>
          /\ wpc'[s] # "requeue" /\ Ordered(F)
          /\ wpc'[s] = "stopped" => 1 .. promised'[s] \subseteq Range(done'[s])
          /\ wpc'[s] # "stopped" => \A t \in 1 .. promised'[s] : Early(F, t)
    BY <1>2, <1>7, <1>8, <1>d
  <1> QED  BY <1>9, <1>10, <1>11, <1>12
           DEF LineOK, Below, NoSignal, Present, Calm, Once, Ordered, Early, F

\* The signal is pushed: everything pushed before stands before it.
LEMMA LineSignalled ==
  ASSUME TypeOK, NEW s \in Shards, LineOK(s), PushPill(s)
  PROVE  LineOK(s)'
  <1> DEFINE E == Everywhere(s)
             F == Everywhere(s)'
             n == Len(E)
  <1>1. /\ queue'[s] = Append(queue[s], Pill) /\ promised'[s] = pushed[s]
        /\ batch' = batch /\ done' = done /\ wpc' = wpc /\ failures' = failures
        /\ pushed' = pushed /\ stopper = s /\ stopper' = -s
    BY DEF PushPill, Put, TypeOK
  <1>2. Unsent(s) /\ ~Unsent(s)'  BY <1>1, QueueAssumption DEF Unsent, Shards
  <1>3. F = Append(E, Pill)
    <2> DEFINE d == done[s]
               b == batch[s]
               q == queue[s]
    <2>1. d \in Seq(Entry) /\ b \in Seq(Entry) /\ q \in Seq(Entry) /\ Pill \in Entry
      <3>1. \A e \in Seq(Tasks) : e \in Seq(Entry)  BY DEF Entry
      <3> QED  BY <3>1, ByShard DEF ShardOK, Entry
    <2> HIDE DEF d, b, q
    <2>2. d \o b \o Append(q, Pill) = Append(d \o b \o q, Pill)  BY <2>1, LineJoin
    <2> QED  BY <1>1, <2>2 DEF Everywhere, d, b, q
  <1>4. E \in Seq(Entry) /\ n \in Nat /\ DOMAIN E = 1 .. n /\ \A i \in 1 .. n : E[i] \in Int
    BY LineTyped
  <1>5. pushed[s] \in Nat  BY ByShard, QueueAssumption DEF ShardOK
  <1>a. \A i \in DOMAIN E : E[i] <= pushed[s]  BY DEF LineOK, Below
  <1>b. wpc[s] # "stopped" /\ \A i \in DOMAIN E : E[i] # Pill
    BY <1>2 DEF LineOK, NoSignal
  <1>c. \A t \in 1 .. pushed[s] : Once(E, t)  BY <1>b DEF LineOK, Present
  <1>d. failures = 0 => wpc[s] # "requeue" /\ Ordered(E)  BY DEF LineOK, Calm
  <1> HIDE DEF E, F
  <1>6. DOMAIN F = 1 .. n + 1 /\ F[n + 1] = Pill /\ \A i \in 1 .. n : F[i] = E[i]
    <2>1. Pill \in Entry  BY DEF Entry
    <2> QED  BY <1>3, <1>4, <2>1
  <1>7. /\ \A t : t # Pill /\ Once(E, t) => Once(F, t)
        /\ Ordered(E) => Ordered(F)
        /\ \A t : (\A i \in 1 .. n : E[i] # Pill) /\ Once(E, t) => Early(F, t)
    BY <1>4, <1>6, Joined
  <1> HIDE DEF n
  <1>8. \A t \in 1 .. pushed[s] : t # Pill  BY <1>5 DEF Pill
  <1>9. \A i \in DOMAIN F : F[i] <= pushed'[s]
    <2> SUFFICES ASSUME NEW i \in 1 .. n + 1 PROVE F[i] <= pushed[s]  BY <1>1, <1>6
    <2>1. CASE i = n + 1  BY <1>5, <1>6, <2>1 DEF Pill
    <2>2. CASE i # n + 1
      <3>1. i \in 1 .. n  BY <1>4, <2>2
      <3> QED  BY <1>4, <1>6, <1>a, <3>1
    <2> QED  BY <2>1, <2>2
  <1>10. \A t \in 1 .. pushed'[s] : Once(F, t)  BY <1>1, <1>7, <1>8, <1>c
  <1>11. failures' = 0 =>
          /\ wpc'[s] # "requeue" /\ Ordered(F)
          /\ wpc'[s] # "stopped"
          /\ \A t \in 1 .. promised'[s] : Early(F, t)
    BY <1>1, <1>4, <1>7, <1>b, <1>c, <1>d
  <1> QED  BY <1>2, <1>9, <1>10, <1>11, <1>1, <1>b
           DEF LineOK, Below, NoSignal, Present, Calm, Once, Ordered, Early, F

\* The worker takes the signal: all that was promised is executed.
LEMMA LineEnded ==
  ASSUME TypeOK, NEW s \in Shards, LineOK(s), TakePill(s)
  PROVE  LineOK(s)'
  <1> DEFINE E == Everywhere(s)
             F == Everywhere(s)'
             d == done[s]
             b == batch[s]
             q == queue[s]
             k == Len(d)
             c == Len(b)
             n == k + c + Len(q)
  <1>1. /\ queue' = queue /\ promised' = promised /\ batch'[s] = << >> /\ done' = done
        /\ wpc'[s] = "stopped" /\ failures' = failures /\ pushed' = pushed /\ stopper' = stopper
        /\ b # << >> /\ Head(b) = Pill /\ wpc[s] = "run"
    BY DEF TakePill, GoW, TypeOK
  <1>2. d \in Seq(Entry) /\ b \in Seq(Entry) /\ q \in Seq(Entry) /\ << >> \in Seq(Entry)
    <2>1. \A e \in Seq(Tasks) : e \in Seq(Entry)  BY DEF Entry
    <2> QED  BY <2>1, ByShard DEF ShardOK
  <1>3. F = d \o << >> \o q  BY <1>1 DEF Everywhere
  <1>4. E = d \o b \o q  BY DEF Everywhere
  <1>5. pushed[s] \in Nat /\ d \in Seq(Tasks)  BY ByShard, QueueAssumption DEF ShardOK
  <1>a. \A i \in DOMAIN E : E[i] <= pushed[s]  BY DEF LineOK, Below
  <1>b. Unsent(s) => \A i \in DOMAIN E : E[i] # Pill  BY DEF LineOK, NoSignal
  <1>c. failures = 0 => Ordered(E) /\ \A t \in 1 .. promised[s] : Early(E, t)
    BY <1>1 DEF LineOK, Calm
  <1>6. E \in Seq(Entry) /\ DOMAIN E = 1 .. Len(E) /\ \A i \in 1 .. Len(E) : E[i] \in Int
    BY LineTyped
  <1> HIDE DEF E, F, d, b, q
  <1>7. /\ k \in Nat /\ c \in Nat /\ Len(q) \in Nat /\ Len(E) = n
        /\ \A i \in 1 .. k : E[i] = d[i]
        /\ \A i \in 1 .. c : E[k + i] = b[i]
        /\ \A i \in 1 .. Len(q) : E[k + c + i] = q[i]
    BY <1>2, <1>4, LinePlaces
  <1>8. /\ F \in Seq(Entry) /\ Len(F) = k + 0 + Len(q)
        /\ \A i \in 1 .. k : F[i] = d[i]
        /\ \A i \in 1 .. Len(q) : F[k + 0 + i] = q[i]
    <2>1. Len(<< >>) = 0  OBVIOUS
    <2> QED  BY <1>2, <1>3, <2>1, LinePlaces
  <1>9. c >= 1 /\ b[1] = Pill  BY <1>1, <1>2
  <1>10. DOMAIN d = 1 .. k /\ DOMAIN F = 1 .. Len(F) /\ \A i \in 1 .. k : d[i] \in Tasks
    BY <1>5, <1>8
  <1> DEFINE Z == Len(q)
  <1> HIDE DEF k, c, Z
  <1>11. DOMAIN F = 1 .. n - c /\ n \in Nat /\ k + c <= n /\ DOMAIN E = 1 .. n
    BY <1>6, <1>7, <1>8, <1>10
  <1>12. \A i \in 1 .. k : F[i] = E[i]  BY <1>7, <1>8
  <1>13. \A i \in k + 1 .. n - c : F[i] = E[i + c]
    <2> TAKE i \in k + 1 .. n - c
    <2>1. i - k \in 1 .. Len(q) /\ i = k + 0 + (i - k) /\ i + c = k + c + (i - k)  BY <1>7
    <2>2. F[i] = q[i - k]  BY <1>8, <2>1
    <2>3. E[i + c] = q[i - k]  BY <1>7, <2>1
    <2> QED  BY <2>2, <2>3
  <1> HIDE DEF n
  <1>14. (Ordered(E) => Ordered(F)) /\ \A i \in 1 .. n - c : \E j \in 1 .. n : F[i] = E[j]
    <2>1. k \in Nat /\ c \in Nat  BY <1>7
    <2>2. Ordered(E) => Ordered(F)  BY <2>1, <1>11, <1>12, <1>13, Cut
    <2>3. \A i \in 1 .. n - c : \E j \in 1 .. n : F[i] = E[j]
      BY <2>1, <1>11, <1>12, <1>13, Cut
    <2> QED  BY <2>2, <2>3
  <1>15. k + 1 \in 1 .. n /\ E[k + 1] = Pill  BY <1>7, <1>9, <1>11
  <1>16. ~Unsent(s)  BY <1>b, <1>11, <1>15
  <1>17. ASSUME NEW t, Early(E, t) PROVE t \in Range(d)
    <2>1. PICK i \in 1 .. n : E[i] = t /\ \A j \in 1 .. n : E[j] = Pill => i < j
      BY <1>11, <1>17 DEF Early
    <2>2. i \in 1 .. k  BY <1>7, <1>15, <2>1
    <2>3. d[i] = t /\ i \in DOMAIN d  BY <1>7, <1>10, <2>1, <2>2
    <2> QED  BY <2>3 DEF Range
  <1>18. \A i \in DOMAIN F : F[i] <= pushed'[s]  BY <1>1, <1>11, <1>14, <1>a
  <1>19. failures' = 0 =>
          /\ wpc'[s] # "requeue" /\ Ordered(F)
          /\ 1 .. promised'[s] \subseteq Range(done'[s])
    BY <1>1, <1>14, <1>17, <1>c DEF d
  <1>20. ~Unsent(s)'  BY <1>1, <1>16 DEF Unsent
  <1> QED  BY <1>1, <1>18, <1>19, <1>20
           DEF LineOK, Below, NoSignal, Present, Calm, Once, Ordered, Early, F

\* A task is put back: it goes from the head of the batch to the end of the line,
\* a signal goes out of it.
LEMMA LinePutBack ==
  ASSUME TypeOK, NEW s \in Shards, LineOK(s), Requeue(s)
  PROVE  LineOK(s)'
  <1> DEFINE E == Everywhere(s)
             F == Everywhere(s)'
             d == done[s]
             b == batch[s]
             q == queue[s]
             u == Tail(b)
             v == IF Head(b) = Pill THEN q ELSE Append(q, Head(b))
             k == Len(d) + 1
             n == Len(E)
             m == Len(F)
  <1>1. /\ queue'[s] = v /\ promised' = promised /\ batch'[s] = u /\ done' = done
        /\ wpc' = wpc /\ failures' = failures /\ pushed' = pushed /\ stopper' = stopper
        /\ b # << >> /\ wpc[s] = "requeue"
    BY DEF Requeue, Put, TypeOK
  <1>2. d \in Seq(Entry) /\ b \in Seq(Entry) /\ q \in Seq(Entry)
    <2>1. \A e \in Seq(Tasks) : e \in Seq(Entry)  BY DEF Entry
    <2> QED  BY <2>1, ByShard DEF ShardOK
  <1>3. F = d \o u \o v  BY <1>1 DEF Everywhere
  <1>4. E = d \o b \o q  BY DEF Everywhere
  <1>5. pushed[s] \in Nat  BY ByShard, QueueAssumption DEF ShardOK
  <1>a. \A i \in DOMAIN E : E[i] <= pushed[s]  BY DEF LineOK, Below
  <1>b. Unsent(s) => \A i \in DOMAIN E : E[i] # Pill  BY DEF LineOK, NoSignal
  <1>c. \A t \in 1 .. pushed[s] : Once(E, t)  BY <1>1 DEF LineOK, Present
  <1>d. failures # 0  BY <1>1 DEF LineOK, Calm
  <1>6. DOMAIN E = 1 .. n  BY LineTyped
  <1>7. /\ Head(b) \in Entry /\ Head(b) = b[1] /\ Len(b) > 0
        /\ u \in Seq(Entry) /\ Len(u) = Len(b) - 1
        /\ \A i \in 1 .. Len(b) - 1 : u[i] = b[i + 1]
    BY <1>1, <1>2
  <1> HIDE DEF u
  <1>8. /\ v \in Seq(Entry) /\ \A i \in 1 .. Len(q) : v[i] = q[i]
        /\ Len(v) = IF Head(b) = Pill THEN Len(q) ELSE Len(q) + 1
        /\ Head(b) # Pill => v[Len(q) + 1] = Head(b)
    <2>1. CASE Head(b) = Pill  BY <1>2, <2>1
    <2>2. CASE Head(b) # Pill
      <3>1. v = Append(q, Head(b))  BY <2>2
      <3> HIDE DEF v, b, q
      <3>2. Append(q, Head(b)) \in Seq(Entry) /\ Len(Append(q, Head(b))) = Len(q) + 1
            /\ \A i \in 1 .. Len(q) : Append(q, Head(b))[i] = q[i]
            /\ Append(q, Head(b))[Len(q) + 1] = Head(b)
        BY <1>2, <1>7, AppendProperties
      <3> QED  BY <2>2, <3>1, <3>2
    <2> QED  BY <2>1, <2>2
  <1> DEFINE h == Head(b)
  <1> HIDE DEF E, F, d, b, q, v, h
  <1>9. /\ Len(d) \in Nat /\ Len(b) \in Nat /\ Len(q) \in Nat /\ n = Len(d) + Len(b) + Len(q)
        /\ \A i \in 1 .. Len(d) : E[i] = d[i]
        /\ \A i \in 1 .. Len(b) : E[Len(d) + i] = b[i]
        /\ \A i \in 1 .. Len(q) : E[Len(d) + Len(b) + i] = q[i]
    BY <1>2, <1>4, LinePlaces
  <1>10. /\ F \in Seq(Entry) /\ m = Len(d) + Len(u) + Len(v)
         /\ \A i \in 1 .. Len(d) : F[i] = d[i]
         /\ \A i \in 1 .. Len(u) : F[Len(d) + i] = u[i]
         /\ \A i \in 1 .. Len(v) : F[Len(d) + Len(u) + i] = v[i]
    <2>1. u \in Seq(Entry) /\ v \in Seq(Entry)  BY <1>7, <1>8
    <2>2. d \in Seq(Entry)  BY <1>2
    <2>3. d \o u \o v \in Seq(Entry) /\ Len(d \o u \o v) = Len(d) + Len(u) + Len(v)
      BY <2>1, <2>2, LinePlaces
    <2>4. \A i \in 1 .. Len(d) : (d \o u \o v)[i] = d[i]  BY <2>1, <2>2, LinePlaces
    <2>5. \A i \in 1 .. Len(u) : (d \o u \o v)[Len(d) + i] = u[i]  BY <2>1, <2>2, LinePlaces
    <2>6. \A i \in 1 .. Len(v) : (d \o u \o v)[Len(d) + Len(u) + i] = v[i]
      BY <2>1, <2>2, LinePlaces
    <2> QED  BY <1>3, <2>3, <2>4, <2>5, <2>6
  <1>11. DOMAIN F = 1 .. m  BY <1>10
  <1>x. /\ Len(u) = Len(b) - 1 /\ Len(b) > 0 /\ h = b[1]
        /\ \A i \in 1 .. Len(b) - 1 : u[i] = b[i + 1]
        /\ Len(v) = IF h = Pill THEN Len(q) ELSE Len(q) + 1
        /\ h # Pill => v[Len(q) + 1] = h
        /\ \A i \in 1 .. Len(q) : v[i] = q[i]
    BY <1>7, <1>8 DEF h
  <1>12. n \in Nat /\ k \in 1 .. n /\ E[k] = h  BY <1>9, <1>x
  <1>13. m = IF h = Pill THEN n - 1 ELSE n
    <2>1. n = Len(d) + Len(b) + Len(q) /\ m = Len(d) + (Len(b) - 1) + Len(v)
          /\ Len(d) \in Nat /\ Len(b) \in Nat /\ Len(q) \in Nat
      BY <1>9, <1>10, <1>x
    <2>2. CASE h = Pill
      <3>1. Len(v) = Len(q)  BY <1>x, <2>2
      <3> QED  BY <2>1, <2>2, <3>1
    <2>3. CASE h # Pill
      <3>1. Len(v) = Len(q) + 1  BY <1>x, <2>3
      <3> QED  BY <2>1, <2>3, <3>1
    <2> QED  BY <2>2, <2>3
  <1>14. m \in {n - 1, n}  BY <1>13
  <1>15. ASSUME m = n PROVE F[n] = E[k]
    <2>1. h # Pill  BY <1>12, <1>13, <1>15
    <2>2. Len(v) = Len(q) + 1 /\ n = Len(d) + Len(u) + (Len(q) + 1)  BY <1>9, <1>x, <2>1
    <2>a. Len(q) + 1 \in 1 .. Len(v)  BY <1>9, <2>2
    <2>3. F[n] = v[Len(q) + 1]  BY <1>10, <2>2, <2>a
    <2> QED  BY <1>12, <1>x, <2>1, <2>3
  <1>16. \A i \in 1 .. k - 1 : F[i] = E[i]  BY <1>9, <1>10
  <1>17. \A i \in k .. n - 1 : F[i] = E[i + 1]
    <2> TAKE i \in k .. n - 1
    <2>1. CASE i - Len(d) <= Len(b) - 1
      <3>1. i - Len(d) \in 1 .. Len(b) - 1 /\ i = Len(d) + (i - Len(d))
            /\ i + 1 = Len(d) + (i - Len(d) + 1) /\ i - Len(d) + 1 \in 1 .. Len(b)
        BY <1>9, <2>1
      <3> DEFINE j == i - Len(d)
      <3>2. F[Len(d) + j] = u[j] /\ u[j] = b[j + 1] /\ E[Len(d) + (j + 1)] = b[j + 1]
        <4> HIDE DEF j
        <4>1. j \in 1 .. Len(b) - 1 /\ j + 1 \in 1 .. Len(b)  BY <3>1 DEF j
        <4> QED  BY <1>9, <1>10, <1>x, <4>1
      <3> QED  BY <3>1, <3>2
    <2>2. CASE i - Len(d) > Len(b) - 1
      <3> DEFINE j == i - Len(d) - Len(b) + 1
      <3>1. j \in 1 .. Len(q) /\ i = Len(d) + Len(u) + j /\ i + 1 = Len(d) + Len(b) + j
        BY <1>9, <1>x, <2>2
      <3> HIDE DEF j
      <3>2. j \in 1 .. Len(v)  BY <1>9, <1>x, <3>1
      <3>3. F[i] = v[j] /\ v[j] = q[j]  BY <1>10, <1>x, <3>1, <3>2
      <3>4. E[i + 1] = q[j]  BY <1>9, <3>1
      <3> QED  BY <3>3, <3>4
    <2> QED  BY <1>9, <2>1, <2>2
  <1> HIDE DEF n, m, k
  <1>e. Shifted(E, F, n, m, k)
    BY <1>6, <1>11, <1>12, <1>14, <1>15, <1>16, <1>17 DEF Shifted
  <1>18. ASSUME NEW t, Once(E, t), m = n \/ t # E[k] PROVE Once(F, t)
    BY <1>e, <1>18, Moved
  <1>19. \A i \in 1 .. m : \E j \in 1 .. n : F[i] = E[j]  BY <1>e, MovedFrom
  <1>20. \A i \in DOMAIN F : F[i] <= pushed'[s]  BY <1>1, <1>6, <1>11, <1>19, <1>a
  <1>21. Unsent(s)' => \A i \in DOMAIN F : F[i] # Pill
    BY <1>1, <1>6, <1>11, <1>19, <1>b DEF Unsent
  <1>22. \A t \in 1 .. pushed'[s] : Once(F, t)
    <2> TAKE t \in 1 .. pushed'[s]
    <2>1. t \in 1 .. pushed[s] /\ t # Pill  BY <1>1, <1>5 DEF Pill
    <2>2. m = n \/ t # E[k]  BY <1>12, <1>13, <2>1
    <2> QED  BY <1>18, <1>c, <2>1, <2>2
  <1> QED  BY <1>1, <1>20, <1>21, <1>22, <1>d
           DEF LineOK, Below, NoSignal, Present, Calm, Once, Ordered, Early, F

\* The steps of a worker that leave its line as it is.
LEMMA LineSame ==
  ASSUME TypeOK, NEW s \in Shards, wpc[s] = "wait" => batch[s] = << >>,
         PopBatch(s) \/ Execute(s)
  PROVE  Everywhere(s)' = Everywhere(s)
  <1> DEFINE d == done[s]
             b == batch[s]
             q == queue[s]
  <1>1. d \in Seq(Entry) /\ b \in Seq(Entry) /\ q \in Seq(Entry) /\ Len(q) \in Nat
    <2>1. \A e \in Seq(Tasks) : e \in Seq(Entry)  BY DEF Entry
    <2> QED  BY <2>1, ByShard DEF ShardOK
  <1>2. CASE PopBatch(s)
    <2> DEFINE n == IF MaxBatch < Len(q) THEN MaxBatch ELSE Len(q)
    <2>1. /\ queue'[s] = SubSeq(q, n + 1, Len(q)) /\ batch'[s] = SubSeq(q, 1, n) /\ done'[s] = d
          /\ wpc[s] = "wait"
      BY <1>2 DEF PopBatch, GoW, TypeOK
    <2>2. n \in 0 .. Len(q)  BY <1>1, QueueAssumption
    <2>3. b = << >>  BY <2>1
    <2> HIDE DEF n, d, b, q
    <2>4. d \o SubSeq(q, 1, n) \o SubSeq(q, n + 1, Len(q)) = d \o << >> \o q
      BY <1>1, <2>2, LinePop
    <2> QED  BY <2>1, <2>3, <2>4 DEF Everywhere, d, b, q
  <1>3. CASE Execute(s)
    <2>1. /\ queue'[s] = q /\ batch'[s] = Tail(b) /\ done'[s] = Append(d, Head(b))
          /\ b # << >>
      BY <1>3 DEF Execute, TypeOK
    <2> HIDE DEF d, b, q
    <2>2. Append(d, Head(b)) \o Tail(b) \o q = d \o b \o q  BY <1>1, <2>1, LineExecute, SMTT(30)
    <2> QED  BY <2>1, <2>2 DEF Everywhere, d, b, q
  <1> QED  BY <1>2, <1>3

\* A step of the shard s, and what it leaves of the other shards.
OneShard(s) == \A x \in Shards : x # s =>
  /\ queue'[x] = queue[x] /\ batch'[x] = batch[x] /\ done'[x] = done[x] /\ wpc'[x] = wpc[x]
  /\ pushed'[x] = pushed[x] /\ promised'[x] = promised[x]

\* Whoever acts, the other shards keep their lines.
LEMMA OtherShards ==
  ASSUME TypeOK, LineInv, NEW s \in Shards, OneShard(s), failures' = 0 => failures = 0,
         \A x \in Shards : x # s => (Unsent(x)' => Unsent(x)),
         NEW x \in Shards, x # s
  PROVE  LineOK(x)' /\ (wpc'[x] = "wait" => batch'[x] = << >>)
  <1>1. /\ queue'[x] = queue[x] /\ batch'[x] = batch[x] /\ done'[x] = done[x]
        /\ wpc'[x] = wpc[x] /\ pushed'[x] = pushed[x] /\ promised'[x] = promised[x]
    BY DEF OneShard
  <1>2. LineOK(x) /\ (wpc[x] = "wait" => batch[x] = << >>)  BY DEF LineInv
  <1>3. Everywhere(x)' = Everywhere(x)  BY <1>1 DEF Everywhere
  <1>4. failures = 0 => wpc[x] # "requeue"  BY <1>2 DEF LineOK, Calm
  <1> QED  BY <1>1, <1>2, <1>3, <1>4, LineKept

\* Every step keeps the invariant.
LEMMA LineStep == ASSUME TypeOK, TypeOK', LineInv, [Next]_vars PROVE LineInv'
  <1>1. CASE UNCHANGED vars
    <2>1. ASSUME NEW x \in Shards PROVE LineOK(x)'
      <3>1. LineOK(x)  BY DEF LineInv
      <3>2. Everywhere(x)' = Everywhere(x) /\ (failures = 0 => wpc[x] # "requeue")
        BY <1>1, <3>1 DEF vars, Everywhere, LineOK, Calm
      <3>3. Unsent(x)' => Unsent(x)  BY <1>1 DEF vars, Unsent
      <3> QED  BY <1>1, <3>1, <3>2, <3>3, LineKept DEF vars
    <2> QED  BY <1>1, <2>1 DEF LineInv, vars
  <1>2. CASE BeginStop
    <2>1. ASSUME NEW x \in Shards PROVE LineOK(x)'
      <3>1. LineOK(x)  BY DEF LineInv
      <3>2. Everywhere(x)' = Everywhere(x) /\ (failures = 0 => wpc[x] # "requeue")
        BY <1>2, <3>1 DEF BeginStop, Everywhere, LineOK, Calm
      <3>3. Unsent(x)' => Unsent(x)  BY <1>2 DEF BeginStop, Unsent, Shards
      <3> QED  BY <1>2, <3>1, <3>2, <3>3, LineKept DEF BeginStop
    <2> QED  BY <1>2, <2>1 DEF LineInv, BeginStop
  <1>3. ASSUME NEW s \in Shards, Push(s) \/ Worker(s) \/ PushPill(s) \/ Join(s)
        PROVE  LineInv'
    <2>1. OneShard(s)
      <3> USE DEF TypeOK, OneShard, GoW, Put
      <3>1. CASE Push(s)  BY <3>1 DEF Push
      <3>2. CASE PopBatch(s)  BY <3>2 DEF PopBatch
      <3>3. CASE AcquireOk(s)  BY <3>3 DEF AcquireOk
      <3>4. CASE AcquireFails(s)  BY <3>4 DEF AcquireFails
      <3>5. CASE Requeue(s)  BY <3>5 DEF Requeue
      <3>6. CASE EndBatch(s)  BY <3>6 DEF EndBatch
      <3>7. CASE Execute(s)  BY <3>7 DEF Execute
      <3>8. CASE TakePill(s)  BY <3>8 DEF TakePill
      <3>9. CASE PushPill(s)  BY <3>9 DEF PushPill
      <3>10. CASE Join(s)  BY <3>10 DEF Join
      <3> QED  BY <1>3, <3>1, <3>2, <3>3, <3>4, <3>5, <3>6, <3>7, <3>8, <3>9, <3>10 DEF Worker
    <2>2. failures' = 0 => failures = 0
      <3>1. failures' = failures \/ failures' = failures + 1
        BY <1>3 DEF Push, Worker, PopBatch, AcquireOk, AcquireFails, Requeue, EndBatch, Execute,
                    TakePill, PushPill, Join
      <3>2. failures \in Nat  BY QueueAssumption DEF TypeOK
      <3> QED  BY <3>1, <3>2
    <2>3. \A x \in Shards : (x # s => (Unsent(x)' => Unsent(x)))
      <3>1. CASE stopper' = stopper  BY <3>1 DEF Unsent
      <3>2. CASE stopper = s /\ stopper' = -s  BY <3>2 DEF Unsent, Shards
      <3>3. CASE stopper = -s /\ stopper' = s + 1  BY <3>3 DEF Unsent, Shards
      <3> QED  BY <1>3, <3>1, <3>2, <3>3
               DEF Push, Worker, PopBatch, AcquireOk, AcquireFails, Requeue, EndBatch, Execute,
                   TakePill, PushPill, Join
    <2>4. LineOK(s) /\ (wpc[s] = "wait" => batch[s] = << >>)  BY DEF LineInv
    <2>5. failures = 0 => wpc[s] # "requeue"  BY <2>4 DEF LineOK, Calm
    <2>6. LineOK(s)'
      <3>1. CASE Push(s)  BY <2>4, <3>1, LinePushed
      <3>2. CASE PushPill(s)  BY <2>4, <3>2, LineSignalled
      <3>3. CASE TakePill(s)  BY <2>4, <3>3, LineEnded
      <3>4. CASE Requeue(s)  BY <2>4, <3>4, LinePutBack
      <3>5. CASE PopBatch(s)
        <4>1. Everywhere(s)' = Everywhere(s)  BY <2>4, <3>5, LineSame
        <4>2. wpc[s] = "wait" /\ wpc'[s] = "acquire"  BY <3>5 DEF PopBatch, GoW, TypeOK
        <4>3. Unsent(s)' => Unsent(s)  BY <3>5 DEF PopBatch, Unsent
        <4> QED  BY <2>4, <2>5, <3>5, <4>1, <4>2, <4>3, LineKept DEF PopBatch
      <3>6. CASE Execute(s)
        <4>1. Everywhere(s)' = Everywhere(s)  BY <2>4, <3>6, LineSame
        <4>2. wpc[s] = "run" /\ wpc' = wpc  BY <3>6 DEF Execute
        <4>3. Unsent(s)' => Unsent(s)  BY <3>6 DEF Execute, Unsent
        <4> QED  BY <2>4, <2>5, <3>6, <4>1, <4>2, <4>3, LineKept DEF Execute
      <3>7. CASE AcquireOk(s) \/ AcquireFails(s) \/ EndBatch(s) \/ Join(s)
        <4>1. Everywhere(s)' = Everywhere(s)
          BY <3>7 DEF Everywhere, AcquireOk, AcquireFails, EndBatch, Join
        <4>2. /\ wpc'[s] = "stopped" <=> wpc[s] = "stopped"
              /\ failures' = 0 => wpc'[s] # "requeue"
          <5>1. CASE AcquireOk(s)  BY <5>1 DEF AcquireOk, GoW, TypeOK
          <5>2. CASE AcquireFails(s)
            <6>1. failures' # 0  BY <5>2, QueueAssumption DEF AcquireFails, TypeOK
            <6> QED  BY <5>2, <6>1 DEF AcquireFails, GoW, TypeOK
          <5>3. CASE EndBatch(s)  BY <5>3 DEF EndBatch, TypeOK
          <5>4. CASE Join(s)  BY <2>5, <5>4 DEF Join
          <5> QED  BY <3>7, <5>1, <5>2, <5>3, <5>4
        <4>3. Unsent(s)' => Unsent(s)
          <5>1. CASE stopper' = stopper  BY <5>1 DEF Unsent
          <5>2. CASE stopper' = s + 1  BY <5>2 DEF Unsent, Shards
          <5> QED  BY <3>7, <5>1, <5>2 DEF AcquireOk, AcquireFails, EndBatch, Join
        <4>4. pushed' = pushed /\ promised' = promised /\ done' = done
          BY <3>7 DEF AcquireOk, AcquireFails, EndBatch, Join
        <4> QED  BY <2>2, <2>4, <4>1, <4>2, <4>3, <4>4, LineKept
      <3> QED  BY <1>3, <3>1, <3>2, <3>3, <3>4, <3>5, <3>6, <3>7 DEF Worker
    <2>7. wpc'[s] = "wait" => batch'[s] = << >>
      <3> USE <2>4 DEF GoW, TypeOK
      <3>1. CASE Push(s) \/ PushPill(s) \/ Join(s)  BY <3>1 DEF Push, PushPill, Join
      <3>2. CASE PopBatch(s)  BY <3>2 DEF PopBatch
      <3>3. CASE AcquireOk(s)  BY <3>3 DEF AcquireOk
      <3>4. CASE AcquireFails(s)  BY <3>4 DEF AcquireFails
      <3>5. CASE Requeue(s)  BY <3>5 DEF Requeue
      <3>6. CASE EndBatch(s)  BY <3>6 DEF EndBatch
      <3>7. CASE Execute(s)  BY <3>7 DEF Execute
      <3>8. CASE TakePill(s)  BY <3>8 DEF TakePill
      <3> QED  BY <1>3, <3>1, <3>2, <3>3, <3>4, <3>5, <3>6, <3>7, <3>8 DEF Worker
    <2>8. ASSUME NEW x \in Shards, x # s PROVE LineOK(x)' /\ (wpc'[x] = "wait" => batch'[x] = << >>)
      BY <2>1, <2>2, <2>3, <2>8, OtherShards
    <2> QED  BY <2>6, <2>7, <2>8 DEF LineInv
  <1> QED  BY <1>1, <1>2, <1>3 DEF Next, Stop

LEMMA LineInit == Init => LineInv
  <1> SUFFICES ASSUME Init, NEW s \in Shards
               PROVE  LineOK(s) /\ (wpc[s] = "wait" => batch[s] = << >>)
    BY DEF LineInv
  <1>1. Everywhere(s) = << >>  BY DEF Init, Everywhere
  <1>2. DOMAIN << >> = {}  OBVIOUS
  <1>3. pushed[s] = 0 /\ promised[s] = 0 /\ wpc[s] = "wait" /\ batch[s] = << >>  BY DEF Init
  <1>4. 1 .. 0 = {}  OBVIOUS
  <1> QED  BY <1>1, <1>2, <1>3, <1>4 DEF LineOK, Below, NoSignal, Present, Calm, Ordered

LEMMA LineCorrect == Spec => [](TypeOK /\ LineInv)
  <1>1. Spec => []TypeOK  BY TypeCorrect
  <1>2. TypeOK /\ TypeOK' /\ LineInv /\ [Next]_vars => LineInv'  BY LineStep
  <1> QED  BY <1>1, <1>2, LineInit, PTL DEF Spec

-----------------------------------------------------------------------------
(* What follows *)

\* As long as its worker lives, a task that was pushed is in exactly one place,
\* however often batches are put back (DBWorker.cpp:68).
THEOREM NothingLost == Spec => []NoTaskLost
  <1>1. LineInv => NoTaskLost
    <2> SUFFICES ASSUME LineInv, NEW s \in Shards, wpc[s] # "stopped", NEW t \in 1 .. pushed[s]
                 PROVE  Cardinality({i \in DOMAIN Everywhere(s) : Everywhere(s)[i] = t}) = 1
      BY DEF NoTaskLost
    <2>1. Once(Everywhere(s), t)  BY DEF LineInv, LineOK, Present
    <2> QED  BY <2>1, OnceCounts
  <1> QED  BY <1>1, LineCorrect, PTL

\* As long as no batch was put back, tasks are executed in the order they were
\* pushed (DBWorker.cpp:81).
THEOREM ExecutedInOrder == Spec => []InOrder
  <1>1. TypeOK /\ LineInv => InOrder
    <2> SUFFICES ASSUME TypeOK, LineInv, failures = 0, NEW s \in Shards,
                        NEW i \in DOMAIN done[s], NEW j \in DOMAIN done[s], i < j
                 PROVE  done[s][i] < done[s][j]
      BY DEF InOrder
    <2> DEFINE d == done[s]
               E == Everywhere(s)
    <2>1. d \in Seq(Entry) /\ batch[s] \in Seq(Entry) /\ queue[s] \in Seq(Entry) /\ d \in Seq(Tasks)
      <3>1. \A e \in Seq(Tasks) : e \in Seq(Entry)  BY DEF Entry
      <3> QED  BY <3>1, ByShard DEF ShardOK
    <2>2. /\ \A k \in 1 .. Len(d) : E[k] = d[k]
          /\ Len(d) \in Nat /\ Len(d) <= Len(E) /\ Len(E) \in Nat
      <3> DEFINE b == batch[s]
                 q == queue[s]
      <3>1. E = d \o b \o q  BY DEF Everywhere
      <3> HIDE DEF d, b, q, E
      <3>2. d \in Seq(Entry) /\ b \in Seq(Entry) /\ q \in Seq(Entry)  BY <2>1 DEF b, q
      <3>3. /\ \A k \in 1 .. Len(d) : E[k] = d[k]
            /\ Len(d) \in Nat /\ Len(b) \in Nat /\ Len(q) \in Nat
            /\ Len(E) = Len(d) + Len(b) + Len(q)
        BY <3>1, <3>2, LinePlaces
      <3> QED  BY <3>3
    <2>3. Ordered(E)  BY DEF LineInv, LineOK, Calm
    <2>4. DOMAIN E = 1 .. Len(E)  BY LineTyped
    <2>5. i \in 1 .. Len(d) /\ j \in 1 .. Len(d) /\ d[i] \in Tasks /\ d[j] \in Tasks  BY <2>1
    <2> HIDE DEF d, E
    <2>6. i \in DOMAIN E /\ j \in DOMAIN E /\ E[i] = d[i] /\ E[j] = d[j]  BY <2>2, <2>4, <2>5
    <2>7. d[i] # Pill /\ d[j] # Pill  BY <2>5 DEF Tasks, Pill
    <2>8. d[i] < d[j]  BY <2>3, <2>6, <2>7 DEF Ordered
    <2> QED  BY <2>8 DEF d
  <1> QED  BY <1>1, LineCorrect, PTL

\* As long as no batch was put back, a worker that has ended has executed what
\* was pushed before its signal (DBWorkerPool.cpp:34).
THEOREM StopSavesAll == Spec => []SavedBeforeStop
  <1>1. LineInv => SavedBeforeStop  BY DEF LineInv, LineOK, Calm, SavedBeforeStop
  <1> QED  BY <1>1, LineCorrect, PTL

-----------------------------------------------------------------------------
(* Stop waits only for a worker that will meet its signal *)

\* The signal of s is in the worker's batch or in its queue.
In(x, q) == \E i \in DOMAIN q : q[i] = x
SignalWaits(s) == In(Pill, batch[s]) \/ In(Pill, queue[s])

\* As long as nothing has failed, a signal that was sent waits for its worker or
\* has ended it.
SignalAhead == failures = 0 =>
  \A s \in Shards : ~Unsent(s) /\ wpc[s] # "stopped" => SignalWaits(s)

\* An entry of a sequence stays in it, wherever the sequence is cut.
LEMMA InKept ==
  ASSUME NEW S, NEW q \in Seq(S), NEW x \in S
  PROVE  /\ In(x, Append(q, x))
         /\ \A y \in S : In(x, q) => In(x, Append(q, y))
         /\ q # << >> /\ Head(q) # x /\ In(x, q) => In(x, Tail(q))
         /\ \A n \in 0 .. Len(q) :
              In(x, q) => In(x, SubSeq(q, 1, n)) \/ In(x, SubSeq(q, n + 1, Len(q)))
  <1>1. In(x, Append(q, x))
    <2>1. Len(q) + 1 \in DOMAIN Append(q, x) /\ Append(q, x)[Len(q) + 1] = x  OBVIOUS
    <2> QED  BY <2>1 DEF In
  <1>2. ASSUME NEW y \in S, NEW i \in DOMAIN q, q[i] = x PROVE In(x, Append(q, y))
    <2>1. i \in DOMAIN Append(q, y) /\ Append(q, y)[i] = x  BY <1>2
    <2> QED  BY <2>1 DEF In
  <1>3. ASSUME q # << >>, Head(q) # x, NEW i \in DOMAIN q, q[i] = x PROVE In(x, Tail(q))
    <2>1. i \in 2 .. Len(q)  BY <1>3
    <2>2. i - 1 \in DOMAIN Tail(q) /\ Tail(q)[i - 1] = x  BY <1>3, <2>1
    <2> QED  BY <2>2 DEF In
  <1>4. ASSUME NEW n \in 0 .. Len(q), NEW i \in DOMAIN q, q[i] = x
        PROVE  In(x, SubSeq(q, 1, n)) \/ In(x, SubSeq(q, n + 1, Len(q)))
    <2>1. CASE i <= n
      <3>1. i \in DOMAIN SubSeq(q, 1, n) /\ SubSeq(q, 1, n)[i] = x  BY <1>4, <2>1
      <3> QED  BY <3>1 DEF In
    <2>2. CASE i > n
      <3>1. i - n \in DOMAIN SubSeq(q, n + 1, Len(q)) /\ SubSeq(q, n + 1, Len(q))[i - n] = x
        BY <1>4, <2>2
      <3> QED  BY <3>1 DEF In
    <2> QED  BY <2>1, <2>2
  <1> QED  BY <1>1, <1>2, <1>3, <1>4 DEF In

\* Every step keeps SignalAhead.
LEMMA SignalStep ==
  ASSUME TypeOK, LineInv, SignalAhead, [Next]_vars
  PROVE  SignalAhead'
  <1> SUFFICES ASSUME failures' = 0, NEW s \in Shards, ~Unsent(s)', wpc'[s] # "stopped"
               PROVE  SignalWaits(s)'
    BY DEF SignalAhead
  <1> DEFINE b == batch[s]
             q == queue[s]
  <1>0. /\ b \in Seq(Entry) /\ q \in Seq(Entry) /\ Pill \in Entry
        /\ pushed[s] \in Nat /\ failures \in Nat /\ stopper \in Int /\ Shards \subseteq Nat \ {0}
    <2>1. b \in Seq(Entry) /\ q \in Seq(Entry)  BY ByShard DEF ShardOK
    <2>2. Pill \in Entry  BY DEF Entry
    <2>3. pushed[s] \in Nat  BY ByShard, QueueAssumption DEF ShardOK
    <2>4. failures \in Nat /\ stopper \in Int  BY QueueAssumption DEF TypeOK
    <2>5. Shards \subseteq Nat \ {0}  BY QueueAssumption DEF Shards
    <2> QED  BY <2>1, <2>2, <2>3, <2>4, <2>5
  <1>1. CASE Unsent(s)
    \* Only its push changes that.
    <2>1. PushPill(s)
      <3>1. CASE BeginStop  BY <1>1, <3>1, <1>0 DEF BeginStop, Unsent, Shards
      <3>2. ASSUME NEW x \in Shards, PushPill(x), x # s PROVE FALSE
        BY <1>0, <1>1, <3>2 DEF PushPill, Unsent
      <3>3. ASSUME NEW x \in Shards, Join(x) PROVE FALSE
        BY <1>0, <1>1, <3>3 DEF Join, Unsent
      <3>4. ASSUME NEW x \in Shards, Push(x) \/ Worker(x) PROVE FALSE
        <4>1. stopper' = stopper
          BY <3>4 DEF Push, Worker, PopBatch, AcquireOk, AcquireFails, Requeue, EndBatch,
                      Execute, TakePill
        <4> QED  BY <1>1, <4>1 DEF Unsent
      <3>5. CASE UNCHANGED vars  BY <1>1, <3>5 DEF vars, Unsent
      <3> QED  BY <3>1, <3>2, <3>3, <3>4, <3>5 DEF Next, Stop
    <2>2. queue'[s] = Append(q, Pill)  BY <2>1 DEF PushPill, Put, TypeOK
    <2> QED  BY <1>0, <2>2, InKept DEF SignalWaits
  <1>2. CASE ~Unsent(s)
    <2>1. failures = 0  BY <1>0 DEF Next, vars, Stop, BeginStop, PushPill, Join, Push, Worker,
            PopBatch, AcquireOk, AcquireFails, Requeue, EndBatch, Execute, TakePill
    <2>2. wpc[s] # "requeue" /\ (wpc[s] = "wait" => b = << >>)
      BY <2>1 DEF LineInv, LineOK, Calm
    <2>3. CASE wpc[s] = "stopped"
      <3>1. wpc'[s] = "stopped"
        BY <2>3 DEF Next, vars, Stop, BeginStop, PushPill, Join, Push, Worker, PopBatch,
                    AcquireOk, AcquireFails, Requeue, EndBatch, Execute, TakePill, GoW, TypeOK
      <3> QED  BY <3>1
    <2>4. CASE wpc[s] # "stopped"
      <3>1. SignalWaits(s)  BY <1>2, <2>1, <2>4 DEF SignalAhead
      <3>2. CASE batch'[s] = b /\ queue'[s] = q  BY <3>1, <3>2 DEF SignalWaits
      <3>3. ASSUME NEW x \in Entry, batch'[s] = b, queue'[s] = Append(q, x)
            PROVE  SignalWaits(s)'
        BY <1>0, <3>1, <3>3, InKept DEF SignalWaits
      <3>4. CASE Push(s)
        <4>1. pushed[s] + 1 \in Entry  BY <1>0, <3>4, QueueAssumption DEF Push, Entry, Tasks
        <4>2. batch'[s] = b /\ queue'[s] = Append(q, pushed[s] + 1)
          BY <3>4 DEF Push, Put, TypeOK
        <4> QED  BY <3>3, <4>1, <4>2
      <3>5. CASE PushPill(s)
        <4>1. batch'[s] = b /\ queue'[s] = Append(q, Pill)  BY <3>5 DEF PushPill, Put, TypeOK
        <4> QED  BY <1>0, <3>3, <4>1
      <3>6. CASE PopBatch(s)
        <4> DEFINE n == IF MaxBatch < Len(q) THEN MaxBatch ELSE Len(q)
        <4>1. n \in 0 .. Len(q)  BY <1>0, QueueAssumption
        <4>2. /\ batch'[s] = SubSeq(q, 1, n) /\ queue'[s] = SubSeq(q, n + 1, Len(q))
              /\ wpc[s] = "wait"
          BY <3>6 DEF PopBatch, GoW, TypeOK
        <4> HIDE DEF n
        <4>3. In(Pill, q)  BY <2>2, <3>1, <4>2 DEF SignalWaits, In
        <4> QED  BY <1>0, <4>1, <4>2, <4>3, InKept DEF SignalWaits
      <3>7. CASE Execute(s)
        <4>1. batch'[s] = Tail(b) /\ queue' = queue /\ b # << >> /\ Head(b) # Pill
          BY <3>7 DEF Execute, TypeOK
        <4> QED  BY <1>0, <3>1, <4>1, InKept DEF SignalWaits
      <3>8. CASE Requeue(s)  BY <2>2, <3>8 DEF Requeue
      <3>9. CASE TakePill(s)  BY <3>9 DEF TakePill, GoW, TypeOK
      <3>10. CASE AcquireOk(s) \/ AcquireFails(s) \/ EndBatch(s) \/ Join(s) \/ BeginStop
        BY <3>2, <3>10 DEF AcquireOk, AcquireFails, EndBatch, Join, BeginStop
      <3>11. ASSUME NEW x \in Shards, x # s, Push(x) \/ Worker(x) \/ PushPill(x) \/ Join(x)
             PROVE  SignalWaits(s)'
        <4>1. batch'[s] = b /\ queue'[s] = q
          BY <3>11 DEF Push, Put, Worker, PushPill, Join, PopBatch, AcquireOk, AcquireFails,
                       Requeue, EndBatch, Execute, TakePill, TypeOK
        <4> QED  BY <3>2, <4>1
      <3>12. CASE UNCHANGED vars  BY <3>2, <3>12 DEF vars
      <3> QED  BY <3>4, <3>5, <3>6, <3>7, <3>8, <3>9, <3>10, <3>11, <3>12 DEF Next, Stop, Worker
    <2> QED  BY <2>3, <2>4
  <1> QED  BY <1>1, <1>2

\* While no acquisition has failed, the worker that Stop joins has ended or has its
\* signal still before it: Stop never waits for a worker that sleeps for ever
\* (DBWorkerPool.cpp:34).
THEOREM SignalsArrive == Spec => []SignalAhead
  <1>1. Init => SignalAhead
    <2> SUFFICES ASSUME Init, NEW s \in Shards PROVE Unsent(s)  BY DEF SignalAhead
    <2> QED  BY QueueAssumption DEF Init, Unsent, Shards
  <1>2. TypeOK /\ LineInv /\ SignalAhead /\ [Next]_vars => SignalAhead'  BY SignalStep
  <1> QED  BY <1>1, <1>2, LineCorrect, PTL DEF Spec
=============================================================================
