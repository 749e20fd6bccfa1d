------------------------ MODULE ActorSchedulerProofs ------------------------
(* Theorems about ActorScheduler, for any number of actors, network threads    *)
(* and workers, any bounds, and both kinds of store.                           *)
EXTENDS ActorScheduler, TLAPS, SequenceTheorems, FiniteSetTheorems, WellFoundedInduction

-----------------------------------------------------------------------------
(* Type correctness *)

\* The type invariant holds initially.
LEMMA InitType == Init => TypeOK
  BY SchedulerAssumption DEF Init, TypeOK, Owning

\* A request number is in range as long as the bound is not reached.
LEMMA RequestType ==
  ASSUME TypeOK, NEW p \in Producers, received[p] < MaxPosts
  PROVE  Request(p) \in Requests
  BY SchedulerAssumption DEF TypeOK, Request, Requests

\* Enlisting an actor, or dropping the request, leaves sequences of actors.
LEMMA EnlistType ==
  ASSUME ready \in [Workers -> Seq(Actors)], NEW a \in Actors, Enlist(a)
  PROVE  ready' \in [Workers -> Seq(Actors)]
  <1>1. Home[a] \in Workers  BY SchedulerAssumption
  <1>2. CASE UNCHANGED ready  BY <1>2
  <1>3. CASE ready' = [ready EXCEPT ![Home[a]] = Append(@, a)]
    <2>1. Append(ready[Home[a]], a) \in Seq(Actors)  BY <1>1
    <2> QED  BY <1>3, <2>1
  <1> QED  BY <1>2, <1>3 DEF Enlist

\* Taking an actor from a shard leaves sequences of actors.
LEMMA TakeFromType ==
  ASSUME ready \in [Workers -> Seq(Actors)], holds \in [Workers -> Actors \cup {None}],
         NEW w \in Workers, NEW v \in Workers, TakeFrom(w, v)
  PROVE  /\ ready' \in [Workers -> Seq(Actors)]
         /\ holds' \in [Workers -> Actors \cup {None}]
         /\ holds'[w] \in Actors
         /\ \A x \in Workers \ {w} : holds'[x] = holds[x]
  <1>1. ready[v] \in Seq(Actors) /\ ready[v] # << >>  BY DEF TakeFrom
  <1>2. Head(ready[v]) \in Actors /\ Tail(ready[v]) \in Seq(Actors)  BY <1>1
  <1> QED  BY <1>2 DEF TakeFrom

\* The type invariant is kept by every step of a network thread.
LEMMA ProducerType ==
  ASSUME TypeOK, NEW p \in Producers, StartRequest(p) \/ Post(p)
  PROVE  TypeOK'
  <1>1. CASE StartRequest(p)
    <2>1. PICK a \in Actors : RejectOverloaded(p, a) \/ Dispatch(p, a)  BY <1>1 DEF StartRequest
    <2>2. Request(p) \in Requests /\ received' \in [Producers -> 0 .. MaxPosts]
      <3>1. received[p] < MaxPosts /\ received' = [received EXCEPT ![p] = @ + 1]
        BY <2>1 DEF RejectOverloaded, Dispatch, Receive
      <3> QED  BY <3>1, RequestType, SchedulerAssumption, SMTT(30) DEF TypeOK
    <2>3. CASE RejectOverloaded(p, a)
      BY <2>2, <2>3 DEF TypeOK, RejectOverloaded, Receive, workerVars
    <2>4. CASE Dispatch(p, a)
      BY <2>2, <2>4 DEF TypeOK, Dispatch, Receive, workerVars
    <2> QED  BY <2>1, <2>3, <2>4
  <1>2. CASE PushRefused(p)  BY <1>2 DEF TypeOK, PushRefused, workerVars
  <1>3. CASE PushAdmitted(p)  BY <1>3 DEF TypeOK, PushAdmitted, GoP, workerVars
  <1>4. CASE Count(p)  BY <1>4 DEF TypeOK, Count, GoP, workerVars
  <1>5. CASE Enqueue(p)  BY <1>5 DEF TypeOK, Enqueue, GoP, workerVars
  <1>6. CASE WakeClaims(p)  BY <1>6 DEF TypeOK, WakeClaims, Claim, GoP, workerVars
  <1>7. CASE WakeTooLate(p)  BY <1>7 DEF TypeOK, WakeTooLate, GoP, workerVars
  <1>8. CASE Schedule(p)
    <2>1. target[p] \in Actors  BY <1>8 DEF TypeOK, Schedule, GoP
    <2>2. ready' \in [Workers -> Seq(Actors)]
      BY <1>8, <2>1, EnlistType DEF TypeOK, Schedule
    <2> QED  BY <1>8, <2>2 DEF TypeOK, Schedule, GoP, workerVars
  <1> QED  BY <1>1, <1>2, <1>3, <1>4, <1>5, <1>6, <1>7, <1>8 DEF Post

\* The type invariant is kept by every step of a worker.
LEMMA WorkerType ==
  ASSUME TypeOK, NEW w \in Workers, Worker(w) \/ Flush(w)
  PROVE  TypeOK'
  <1>1. CASE TakeLocal(w)
    <2>1. /\ ready' \in [Workers -> Seq(Actors)]
          /\ holds' \in [Workers -> Actors \cup {None}]
          /\ holds'[w] \in Actors
          /\ \A x \in Workers \ {w} : holds'[x] = holds[x]
      BY <1>1, TakeFromType DEF TypeOK, TakeLocal
    <2> QED  BY <1>1, <2>1 DEF TypeOK, Owning, TakeLocal, GoW, producerVars
  <1>2. CASE LocalEmpty(w)  BY <1>2 DEF TypeOK, Owning, LocalEmpty, GoW, producerVars
  <1>3. CASE TrySteal(w)
    <2>1. PICK v \in Workers : StealFrom(w, v) \/ StealMiss(w, v)  BY <1>3 DEF TrySteal
    <2>2. CASE StealFrom(w, v)
      <3>1. /\ ready' \in [Workers -> Seq(Actors)]
            /\ holds' \in [Workers -> Actors \cup {None}]
            /\ holds'[w] \in Actors
            /\ \A x \in Workers \ {w} : holds'[x] = holds[x]
        BY <2>2, TakeFromType DEF TypeOK, StealFrom
      <3> QED  BY <2>2, <3>1 DEF TypeOK, Owning, StealFrom, GoW, producerVars
    <2>3. CASE StealMiss(w, v)  BY <2>3 DEF TypeOK, Owning, StealMiss, GoW, producerVars
    <2> QED  BY <2>1, <2>2, <2>3
  <1>4. CASE WaitTimedOut(w)  BY <1>4 DEF TypeOK, Owning, WaitTimedOut, GoW, producerVars
  <1>5. CASE MeasureBacklog(w)
    <2>1. \A k \in Int : BudgetFor(k) \in Nat  BY SchedulerAssumption DEF BudgetFor
    <2>2. size[holds[w]] \in Int  BY <1>5 DEF TypeOK, MeasureBacklog, GoW
    <2>3. budget' \in [Workers -> Nat]  BY <1>5, <2>1, <2>2 DEF TypeOK, MeasureBacklog
    <2> QED  BY <1>5, <2>3 DEF TypeOK, Owning, MeasureBacklog, GoW, producerVars
  <1>6. CASE PopBatch(w)
    <2> DEFINE a == holds[w]
               n == IF budget[w] < Len(queue[a]) THEN budget[w] ELSE Len(queue[a])
    <2>1. a \in Actors  BY <1>6 DEF TypeOK, PopBatch, GoW
    <2>2. queue[a] \in Seq(Requests \cup {NoTask}) /\ budget[w] \in Nat  BY <2>1 DEF TypeOK
    <2>3. n \in 0 .. Len(queue[a])  BY <2>2
    <2>4. /\ SubSeq(queue[a], 1, n) \in Seq(Requests \cup {NoTask})
          /\ SubSeq(queue[a], n + 1, Len(queue[a])) \in Seq(Requests \cup {NoTask})
      BY <2>2, <2>3, SubSeqProperties
    <2>5. /\ batch' = [batch EXCEPT ![w] = SubSeq(queue[a], 1, n)]
          /\ queue' = [queue EXCEPT ![a] = SubSeq(queue[a], n + 1, Len(queue[a]))]
      BY <1>6, <2>1 DEF PopBatch, TypeOK
    <2>6. /\ batch' \in [Workers -> Seq(Requests \cup {NoTask})]
          /\ queue' \in [Actors -> Seq(Requests \cup {NoTask})]
      BY <2>1, <2>4, <2>5 DEF TypeOK
    <2> QED  BY <1>6, <2>6 DEF TypeOK, Owning, PopBatch, GoW, producerVars
  <1>7. CASE Settle(w)
    <2> wpc[w] = "settle"  BY <1>7 DEF Settle, GoW
    <2>1. holds[w] \in Actors /\ Len(batch[w]) \in Nat
      <3>1. holds[w] \in Actors  BY DEF TypeOK
      <3>2. batch[w] \in Seq(Requests \cup {NoTask})  BY DEF TypeOK
      <3> QED  BY <3>1, <3>2
    <2>2. size' \in [Actors -> Int]  BY <1>7, <2>1 DEF TypeOK, Settle
    <2> QED  BY <1>7, <2>2 DEF TypeOK, Owning, Settle, GoW, producerVars
  <1>8. CASE RunTask(w)
    <2>1. holds[w] \in Actors  BY <1>8 DEF TypeOK, RunTask
    <2>2. batch[w] \in Seq(Requests \cup {NoTask}) /\ batch[w] # << >>
      BY <1>8 DEF TypeOK, RunTask
    <2>3. /\ Head(batch[w]) \in Requests \cup {NoTask}
          /\ Tail(batch[w]) \in Seq(Requests \cup {NoTask})
      BY <2>2
    <2>4. executed' \in [Actors -> Seq(Requests)]
      <3>1. CASE Head(batch[w]) = NoTask  BY <1>8, <3>1 DEF TypeOK, RunTask
      <3>2. CASE Head(batch[w]) # NoTask
        <4>1. Append(executed[holds[w]], Head(batch[w])) \in Seq(Requests)
          BY <2>1, <2>3, <3>2 DEF TypeOK
        <4> QED  BY <1>8, <3>2, <4>1 DEF TypeOK, RunTask
      <3> QED  BY <3>1, <3>2
    <2>5. batch' \in [Workers -> Seq(Requests \cup {NoTask})]
      BY <1>8, <2>3 DEF TypeOK, RunTask
    <2> QED  BY <1>8, <2>4, <2>5 DEF TypeOK, Owning, RunTask, producerVars
  <1>9. CASE Release(w)  BY <1>9 DEF TypeOK, Owning, Release, GoW, producerVars
  <1>10. CASE Flush(w)  BY <1>10 DEF TypeOK, Owning, Flush, producerVars
  <1>11. CASE RecheckEmpty(w)  BY <1>11 DEF TypeOK, Owning, RecheckEmpty, GoW, producerVars
  <1>12. CASE RecheckMore(w)  BY <1>12 DEF TypeOK, Owning, RecheckMore, GoW, producerVars
  <1>13. CASE RearmClaims(w)  BY <1>13 DEF TypeOK, Owning, RearmClaims, Claim, GoW, producerVars
  <1>14. CASE RearmTooLate(w)  BY <1>14 DEF TypeOK, Owning, RearmTooLate, GoW, producerVars
  <1>15. CASE Reenlist(w)
    <2>1. holds[w] \in Actors  BY <1>15 DEF TypeOK, Reenlist, GoW
    <2>2. ready' \in [Workers -> Seq(Actors)]
      BY <1>15, <2>1, EnlistType DEF TypeOK, Reenlist
    <2> QED  BY <1>15, <2>2 DEF TypeOK, Owning, Reenlist, GoW, producerVars
  <1> QED  BY <1>1, <1>2, <1>3, <1>4, <1>5, <1>6, <1>7, <1>8, <1>9, <1>10, <1>11, <1>12,
              <1>13, <1>14, <1>15 DEF Worker, Process

\* The variables keep their types, whatever the threads do.
THEOREM TypeCorrect == Spec => []TypeOK
  <1>1. TypeOK /\ [Next]_vars => TypeOK'
    <2> SUFFICES ASSUME TypeOK, [Next]_vars PROVE TypeOK'  OBVIOUS
    <2>1. CASE Next  BY <2>1, ProducerType, WorkerType DEF Next
    <2>2. CASE UNCHANGED vars  BY <2>2 DEF TypeOK, vars, producerVars, workerVars
    <2> QED  BY <2>1, <2>2
  <1> QED  BY InitType, <1>1, PTL DEF Spec

-----------------------------------------------------------------------------
(* One claim on each actor: nobody runs an actor that another one runs *)

\* An actor that is enlisted, and was not, takes a place of its own.
LEMMA EnlistEffect ==
  ASSUME ready \in [Workers -> Seq(Actors)], NEW a \in Actors, Enlist(a), ~Enlisted(a),
         PlacesDistinct
  PROVE  PlacesDistinct' /\ \A b \in Actors \ {a} : Enlisted(b)' => Enlisted(b)
  <1>1. Home[a] \in Workers  BY SchedulerAssumption
  <1>2. CASE UNCHANGED ready  BY <1>2 DEF PlacesDistinct, Enlisted
  <1>3. CASE ready' = [ready EXCEPT ![Home[a]] = Append(@, a)]
    <2>1. \A w \in Workers : \A i \in DOMAIN ready'[w] :
            \/ i \in DOMAIN ready[w] /\ ready'[w][i] = ready[w][i]
            \/ w = Home[a] /\ i = Len(ready[w]) + 1 /\ ready'[w][i] = a
      BY <1>1, <1>3
    <2> QED  BY <2>1 DEF PlacesDistinct, Enlisted
  <1> QED  BY <1>2, <1>3 DEF Enlist

\* The actor that is taken leaves its only place, the others keep theirs.
LEMMA TakeFromEffect ==
  ASSUME ready \in [Workers -> Seq(Actors)], holds \in [Workers -> Actors \cup {None}],
         NEW w \in Workers, NEW v \in Workers, TakeFrom(w, v), PlacesDistinct
  PROVE  /\ PlacesDistinct'
         /\ \E a \in Actors : /\ holds' = [holds EXCEPT ![w] = a]
                             /\ Enlisted(a) /\ ~Enlisted(a)'
         /\ \A b \in Actors : Enlisted(b)' => Enlisted(b)
  <1>1. ready[v] \in Seq(Actors) /\ ready[v] # << >>  BY DEF TakeFrom
  <1>2. PICK a \in Actors : a = Head(ready[v]) /\ a = ready[v][1]  BY <1>1
  <1>3. \A x \in Workers : \A i \in DOMAIN ready'[x] : \E m \in DOMAIN ready[x] :
          /\ i \in Nat \ {0} /\ ready'[x][i] = ready[x][m]
          /\ x = v => m = i + 1
          /\ x # v => m = i
    <2> TAKE x \in Workers
    <2>1. CASE x = v
      <3>1. ready'[x] = Tail(ready[v])  BY <2>1 DEF TakeFrom
      <3>2. \A i \in DOMAIN Tail(ready[v]) :
              i \in Nat \ {0} /\ i + 1 \in DOMAIN ready[v] /\ Tail(ready[v])[i] = ready[v][i + 1]
        BY <1>1
      <3> QED  BY <2>1, <3>1, <3>2
    <2>2. CASE x # v
      <3>1. ready'[x] = ready[x] /\ ready[x] \in Seq(Actors)  BY <2>2 DEF TakeFrom
      <3> QED  BY <2>2, <3>1
    <2> QED  BY <2>1, <2>2
  <1>4. PlacesDistinct'
    <2> SUFFICES ASSUME NEW x \in Workers, NEW y \in Workers, NEW i \in DOMAIN ready'[x],
                        NEW j \in DOMAIN ready'[y], ready'[x][i] = ready'[y][j]
                 PROVE  x = y /\ i = j
      BY DEF PlacesDistinct
    <2>1. PICK m \in DOMAIN ready[x] : /\ i \in Nat \ {0} /\ ready'[x][i] = ready[x][m]
                                       /\ x = v => m = i + 1
                                       /\ x # v => m = i
      BY <1>3
    <2>2. PICK n \in DOMAIN ready[y] : /\ j \in Nat \ {0} /\ ready'[y][j] = ready[y][n]
                                       /\ y = v => n = j + 1
                                       /\ y # v => n = j
      BY <1>3
    <2>3. ready[x][m] = ready[y][n]  BY <2>1, <2>2
    <2>4. x = y /\ m = n  BY <2>3 DEF PlacesDistinct
    <2> QED  BY <2>1, <2>2, <2>4
  <1>5. ~Enlisted(a)'
    <2> SUFFICES ASSUME NEW x \in Workers, NEW i \in DOMAIN ready'[x], ready'[x][i] = a
                 PROVE  FALSE
      BY DEF Enlisted
    <2>1. PICK m \in DOMAIN ready[x] : /\ i \in Nat \ {0} /\ ready'[x][i] = ready[x][m]
                                       /\ x = v => m = i + 1
                                       /\ x # v => m = i
      BY <1>3
    <2>2. x = v /\ m = 1  BY <1>1, <1>2, <2>1 DEF PlacesDistinct
    <2> QED  BY <2>1, <2>2
  <1>6. ASSUME NEW b \in Actors, Enlisted(b)'  PROVE Enlisted(b)
    <2>1. PICK x \in Workers : \E i \in DOMAIN ready'[x] : ready'[x][i] = b
      BY <1>6 DEF Enlisted
    <2>2. PICK m \in DOMAIN ready[x] : ready[x][m] = b  BY <1>3, <2>1
    <2> QED  BY <2>2 DEF Enlisted
  <1>7. Enlisted(a)  BY <1>1, <1>2 DEF Enlisted
  <1>8. holds' = [holds EXCEPT ![w] = a]  BY <1>2 DEF TakeFrom
  <1> QED  BY <1>2, <1>4, <1>5, <1>6, <1>7, <1>8

\* A step that touches no flag, no ready queue, and no claim keeps OneClaim.
LEMMA FrameClaim ==
  ASSUME OneClaim, UNCHANGED <<scheduled, ready, buffered>>,
         \A w \in Workers : (buffered[w] # None /\ wpc[w] \in {"poll", "recheck", "rearm"})
                              => wpc'[w] \in {"poll", "recheck", "rearm"},
         \A w \in Workers, a \in Actors : Owns(w, a)' <=> Owns(w, a),
         \A p \in Producers, a \in Actors : WillEnlist(p, a)' <=> WillEnlist(p, a)
  PROVE  OneClaim'
  <1>1. \A a \in Actors : Enlisted(a)' <=> Enlisted(a)  BY DEF Enlisted
  <1>2. \A w \in Workers, a \in Actors : HasClaim(w, a)' <=> HasClaim(w, a)  BY DEF HasClaim
  <1>3. BufferDrains'  BY DEF OneClaim, BufferDrains
  <1>4. ClaimNeedsFlag'
    BY <1>1, <1>2 DEF OneClaim, ClaimNeedsFlag, InHand
  <1>5. ClaimIsUnique'
    BY <1>1, <1>2 DEF OneClaim, ClaimIsUnique
  <1>6. PlacesDistinct'  BY DEF OneClaim, PlacesDistinct
  <1> QED  BY <1>3, <1>4, <1>5, <1>6 DEF OneClaim

\* A network thread keeps the claims apart.
LEMMA ProducerClaim ==
  ASSUME TypeOK, OneClaim, NEW p \in Producers, StartRequest(p) \/ Post(p)
  PROVE  OneClaim'
  <1>1. CASE StartRequest(p) \/ PushRefused(p) \/ PushAdmitted(p) \/ Count(p) \/ Enqueue(p)
             \/ WakeTooLate(p)
    <2>1. UNCHANGED <<scheduled, ready, buffered, wpc, holds>>
      BY <1>1 DEF StartRequest, RejectOverloaded, Dispatch, PushRefused, PushAdmitted, Count,
                  Enqueue, WakeTooLate, workerVars
    <2>2. \A q \in Producers, a \in Actors : WillEnlist(q, a)' <=> WillEnlist(q, a)
      BY <1>1 DEF TypeOK, WillEnlist, StartRequest, RejectOverloaded, Dispatch, Receive,
                  PushRefused, PushAdmitted, Count, Enqueue, WakeTooLate, GoP
    <2>3. \A w \in Workers, a \in Actors : Owns(w, a)' <=> Owns(w, a)
      BY <2>1 DEF Owns
    <2> QED  BY <2>1, <2>2, <2>3, FrameClaim
  <1>2. CASE WakeClaims(p)
    <2>1. PICK a \in Actors : a = target[p]  BY <1>2 DEF TypeOK, WakeClaims, GoP
    <2>2. /\ UNCHANGED <<ready, buffered, wpc, holds>>
          /\ ~scheduled[a] /\ scheduled' = [scheduled EXCEPT ![a] = TRUE]
      BY <1>2, <2>1 DEF WakeClaims, Claim, workerVars
    <2>3. \A q \in Producers, b \in Actors :
            WillEnlist(q, b)' <=> WillEnlist(q, b) \/ (q = p /\ b = a)
      BY <1>2, <2>1 DEF TypeOK, WillEnlist, WakeClaims, GoP
    <2>4. \A w \in Workers, b \in Actors : HasClaim(w, b)' <=> HasClaim(w, b)
      BY <2>2 DEF HasClaim, Owns
    <2>5. \A b \in Actors : Enlisted(b)' <=> Enlisted(b)  BY <2>2 DEF Enlisted
    <2>6. \A w \in Workers, b \in Actors : Owns(w, b) => HasClaim(w, b)  BY DEF HasClaim
    <2>7. BufferDrains' /\ PlacesDistinct'
      BY <2>2 DEF OneClaim, BufferDrains, PlacesDistinct
    <2>8. /\ ~Enlisted(a)
          /\ \A w \in Workers : ~HasClaim(w, a)
          /\ \A q \in Producers : ~WillEnlist(q, a)
      BY <2>2 DEF OneClaim, ClaimNeedsFlag, InHand
    <2>9. ClaimIsUnique'  BY <2>3, <2>4, <2>5, <2>8 DEF OneClaim, ClaimIsUnique
    <2>10. ClaimNeedsFlag'
      <3>1. \A w \in Workers, b \in Actors : Owns(w, b)' <=> Owns(w, b)  BY <2>2 DEF Owns
      <3> QED  BY <2>2, <2>3, <2>4, <2>5, <3>1 DEF TypeOK, OneClaim, ClaimNeedsFlag, InHand
    <2> QED  BY <2>7, <2>9, <2>10 DEF OneClaim
  <1>3. CASE Schedule(p)
    <2>1. PICK a \in Actors : a = target[p] /\ WillEnlist(p, a)
      BY <1>3 DEF TypeOK, Schedule, GoP, WillEnlist
    <2>2. UNCHANGED <<scheduled, buffered, wpc, holds>> /\ Enlist(a)
      BY <1>3, <2>1 DEF Schedule, workerVars
    <2>3. /\ ~Enlisted(a) /\ scheduled[a]
          /\ \A w \in Workers : ~HasClaim(w, a)
          /\ \A q \in Producers \ {p} : ~WillEnlist(q, a)
      BY <2>1 DEF OneClaim, ClaimIsUnique, ClaimNeedsFlag, InHand
    <2>4. PlacesDistinct' /\ \A b \in Actors \ {a} : Enlisted(b)' => Enlisted(b)
      <3>1. ready \in [Workers -> Seq(Actors)] /\ PlacesDistinct  BY DEF TypeOK, OneClaim
      <3> QED  BY <2>2, <2>3, <3>1, EnlistEffect
    <2>5. \A q \in Producers, b \in Actors :
            WillEnlist(q, b)' <=> WillEnlist(q, b) /\ q # p
      BY <1>3, <2>1 DEF TypeOK, WillEnlist, Schedule, GoP
    <2>6. \A w \in Workers, b \in Actors :
            (HasClaim(w, b)' <=> HasClaim(w, b)) /\ (Owns(w, b)' <=> Owns(w, b))
      BY <2>2 DEF HasClaim, Owns
    <2>7. BufferDrains'  BY <2>2 DEF OneClaim, BufferDrains
    <2>8. ClaimIsUnique'  BY <2>3, <2>4, <2>5, <2>6 DEF OneClaim, ClaimIsUnique
    <2>9. ClaimNeedsFlag'
      BY <2>2, <2>3, <2>4, <2>5, <2>6 DEF OneClaim, ClaimNeedsFlag, InHand
    <2> QED  BY <2>4, <2>7, <2>8, <2>9 DEF OneClaim
  <1> QED  BY <1>1, <1>2, <1>3 DEF Post

\* A worker that takes an actor takes over the claim of its place in the queue.
LEMMA TakeClaim ==
  ASSUME TypeOK, OneClaim, NEW w \in Workers, NEW v \in Workers, TakeFrom(w, v),
         wpc[w] \in {"poll", "steal"}, buffered[w] = None,
         wpc' = [wpc EXCEPT ![w] = "measure"],
         UNCHANGED <<scheduled, buffered, ppc, target>>
  PROVE  OneClaim'
  <1>1. /\ PlacesDistinct'
        /\ \E a \in Actors : /\ holds' = [holds EXCEPT ![w] = a]
                            /\ Enlisted(a) /\ ~Enlisted(a)'
        /\ \A b \in Actors : Enlisted(b)' => Enlisted(b)
    <2>1. /\ ready \in [Workers -> Seq(Actors)] /\ holds \in [Workers -> Actors \cup {None}]
          /\ PlacesDistinct
      BY DEF TypeOK, OneClaim
    <2> QED  BY <2>1, TakeFromEffect
  <1>2. PICK a \in Actors : /\ holds' = [holds EXCEPT ![w] = a]
                            /\ Enlisted(a) /\ ~Enlisted(a)'
    BY <1>1
  <1>3. /\ scheduled[a]
        /\ \A x \in Workers : ~HasClaim(x, a)
        /\ \A q \in Producers : ~WillEnlist(q, a)
    BY <1>2 DEF OneClaim, ClaimIsUnique, ClaimNeedsFlag, InHand
  <1>4. \A x \in Workers, b \in Actors :
          Owns(x, b)' <=> (x # w /\ Owns(x, b)) \/ (x = w /\ b = a)
    BY <1>2 DEF TypeOK, Owns, Owning
  <1>5. \A x \in Workers, b \in Actors :
          HasClaim(x, b)' <=> (x # w /\ HasClaim(x, b)) \/ (x = w /\ b = a)
    BY <1>4, SchedulerAssumption DEF HasClaim
  <1>6. \A q \in Producers, b \in Actors : WillEnlist(q, b)' <=> WillEnlist(q, b)
    BY DEF WillEnlist
  <1>7. BufferDrains'  BY DEF TypeOK, OneClaim, BufferDrains
  <1>8. ClaimIsUnique'  BY <1>1, <1>2, <1>3, <1>5, <1>6 DEF OneClaim, ClaimIsUnique
  <1>9. ClaimNeedsFlag'
    BY <1>1, <1>3, <1>4, <1>5, <1>6 DEF OneClaim, ClaimNeedsFlag, InHand
  <1> QED  BY <1>1, <1>7, <1>8, <1>9 DEF OneClaim

\* A worker that lets go of an actor keeps the claim only in its store buffer.
LEMMA ReleaseClaim ==
  ASSUME TypeOK, OneClaim, NEW w \in Workers, Release(w)
  PROVE  OneClaim'
  <1>1. PICK a \in Actors : a = holds[w]  BY DEF TypeOK, Release, GoW
  <1>2. Owns(w, a) /\ HasClaim(w, a) /\ wpc[w] = "run" /\ wpc' = [wpc EXCEPT ![w] = "recheck"]
        /\ UNCHANGED <<ready, ppc, target, holds>>
    BY <1>1 DEF Owns, HasClaim, Owning, Release, GoW, producerVars
  <1>3. /\ ~Enlisted(a) /\ scheduled[a]
        /\ \A x \in Workers \ {w} : ~HasClaim(x, a)
        /\ \A q \in Producers : ~WillEnlist(q, a)
    BY <1>2 DEF OneClaim, ClaimIsUnique, ClaimNeedsFlag, InHand
  <1>4. \A x \in Workers, b \in Actors : Owns(x, b)' <=> (x # w /\ Owns(x, b))
    BY <1>2 DEF TypeOK, Owns, Owning
  <1>5. buffered[w] = None  BY <1>2 DEF TypeOK, OneClaim, BufferDrains
  <1>6. \A b \in Actors : /\ Enlisted(b)' <=> Enlisted(b)
                          /\ \A q \in Producers : WillEnlist(q, b)' <=> WillEnlist(q, b)
    BY <1>2 DEF Enlisted, WillEnlist
  <1>7. PlacesDistinct'  BY <1>2 DEF OneClaim, PlacesDistinct
  <1>8. CASE WeakStores
    <2>1. buffered' = [buffered EXCEPT ![w] = a] /\ UNCHANGED scheduled
      BY <1>1, <1>8 DEF Release
    <2>2. BufferDrains'  BY <1>2, <2>1 DEF TypeOK, OneClaim, BufferDrains
    <2>3. \A x \in Workers, b \in Actors : HasClaim(x, b)' => HasClaim(x, b)
      BY <1>2, <1>4, <2>1 DEF TypeOK, HasClaim
    <2>4. ClaimIsUnique'  BY <1>6, <2>3 DEF OneClaim, ClaimIsUnique
    <2>5. ClaimNeedsFlag'  BY <1>4, <1>6, <2>1, <2>3 DEF OneClaim, ClaimNeedsFlag, InHand
    <2> QED  BY <1>7, <2>2, <2>4, <2>5 DEF OneClaim
  <1>9. CASE ~WeakStores
    <2>1. scheduled' = [scheduled EXCEPT ![a] = FALSE] /\ UNCHANGED buffered
      BY <1>1, <1>9 DEF Release
    <2>2. BufferDrains'  BY <1>2, <2>1 DEF TypeOK, OneClaim, BufferDrains
    <2>3. \A x \in Workers, b \in Actors : HasClaim(x, b)' => HasClaim(x, b) /\ b # a
      BY <1>2, <1>3, <1>4, <1>5, <2>1, SchedulerAssumption DEF HasClaim
    <2>4. ClaimIsUnique'  BY <1>6, <2>3 DEF OneClaim, ClaimIsUnique
    <2>5. ClaimNeedsFlag'
      BY <1>3, <1>4, <1>6, <2>1, <2>3 DEF TypeOK, OneClaim, ClaimNeedsFlag, InHand, HasClaim
    <2> QED  BY <1>7, <2>2, <2>4, <2>5 DEF OneClaim
  <1> QED  BY <1>8, <1>9

\* When the store reaches memory, nobody has a claim on the actor any more.
LEMMA FlushClaim ==
  ASSUME TypeOK, OneClaim, NEW w \in Workers, Flush(w)
  PROVE  OneClaim'
  <1>1. PICK a \in Actors : a = buffered[w]  BY DEF TypeOK, Flush
  <1>2. /\ HasClaim(w, a) /\ wpc[w] \in {"poll", "recheck", "rearm"}
        /\ scheduled' = [scheduled EXCEPT ![a] = FALSE]
        /\ buffered' = [buffered EXCEPT ![w] = None]
        /\ UNCHANGED <<ready, ppc, target, wpc, holds>>
    BY <1>1 DEF OneClaim, BufferDrains, HasClaim, Flush, producerVars
  <1>3. /\ ~Enlisted(a)
        /\ \A x \in Workers \ {w} : ~HasClaim(x, a)
        /\ \A q \in Producers : ~WillEnlist(q, a)
    BY <1>2 DEF OneClaim, ClaimIsUnique
  <1>4. \A x \in Workers, b \in Actors : Owns(x, b)' <=> (x # w /\ Owns(x, b))
    BY <1>2 DEF Owns, Owning
  <1>5. \A x \in Workers, b \in Actors : HasClaim(x, b)' => HasClaim(x, b) /\ b # a
    BY <1>2, <1>3, <1>4, SchedulerAssumption DEF TypeOK, HasClaim
  <1>6. \A b \in Actors : /\ Enlisted(b)' <=> Enlisted(b)
                          /\ \A q \in Producers : WillEnlist(q, b)' <=> WillEnlist(q, b)
    BY <1>2 DEF Enlisted, WillEnlist
  <1>7. PlacesDistinct' /\ BufferDrains'
    <2>1. PlacesDistinct'  BY <1>2 DEF OneClaim, PlacesDistinct
    <2>2. \A x \in Workers : buffered'[x] # None => buffered[x] # None
      BY <1>2 DEF TypeOK
    <2>3. BufferDrains'  BY <1>2, <2>2 DEF OneClaim, BufferDrains
    <2> QED  BY <2>1, <2>3
  <1>8. ClaimIsUnique'  BY <1>5, <1>6 DEF OneClaim, ClaimIsUnique
  <1>9. ClaimNeedsFlag'
    BY <1>2, <1>3, <1>4, <1>5, <1>6 DEF TypeOK, OneClaim, ClaimNeedsFlag, InHand, HasClaim
  <1> QED  BY <1>7, <1>8, <1>9 DEF OneClaim

\* A worker that finds more tasks after its release may win the claim again.
LEMMA RearmClaim ==
  ASSUME TypeOK, OneClaim, NEW w \in Workers, RearmClaims(w)
  PROVE  OneClaim'
  <1>1. PICK a \in Actors : a = holds[w]  BY DEF TypeOK, RearmClaims, GoW
  <1>2. /\ wpc[w] = "rearm" /\ wpc' = [wpc EXCEPT ![w] = "reenlist"] /\ buffered[w] = None
        /\ ~scheduled[a] /\ scheduled' = [scheduled EXCEPT ![a] = TRUE]
        /\ UNCHANGED <<ready, ppc, target, holds, buffered>>
    BY <1>1 DEF RearmClaims, Claim, Drained, GoW, producerVars
  <1>3. /\ ~Enlisted(a)
        /\ \A x \in Workers : ~HasClaim(x, a)
        /\ \A q \in Producers : ~WillEnlist(q, a)
    BY <1>2 DEF OneClaim, ClaimNeedsFlag, InHand
  <1>4. \A x \in Workers, b \in Actors : Owns(x, b)' <=> Owns(x, b) \/ (x = w /\ b = a)
    BY <1>1, <1>2 DEF TypeOK, Owns, Owning
  <1>5. \A x \in Workers, b \in Actors : HasClaim(x, b)' <=> HasClaim(x, b) \/ (x = w /\ b = a)
    BY <1>2, <1>4 DEF HasClaim
  <1>6. \A b \in Actors : /\ Enlisted(b)' <=> Enlisted(b)
                          /\ \A q \in Producers : WillEnlist(q, b)' <=> WillEnlist(q, b)
    BY <1>2 DEF Enlisted, WillEnlist
  <1>7. PlacesDistinct'  BY <1>2 DEF OneClaim, PlacesDistinct
  <1>8. BufferDrains'  BY <1>2 DEF TypeOK, OneClaim, BufferDrains
  <1>9. ClaimIsUnique'
    <2>1. \A b \in Actors : b # a => \A x \in Workers : HasClaim(x, b)' <=> HasClaim(x, b)
      BY <1>5
    <2>2. \A x \in Workers : HasClaim(x, a)' <=> x = w  BY <1>3, <1>5
    <2> QED  BY <1>3, <1>6, <2>1, <2>2 DEF OneClaim, ClaimIsUnique
  <1>10. ClaimNeedsFlag'
    BY <1>2, <1>4, <1>5, <1>6 DEF TypeOK, OneClaim, ClaimNeedsFlag, InHand
  <1> QED  BY <1>7, <1>8, <1>9, <1>10 DEF OneClaim

\* Enlisting the actor again hands the claim over to its place in the queue.
LEMMA ReenlistClaim ==
  ASSUME TypeOK, OneClaim, NEW w \in Workers, Reenlist(w)
  PROVE  OneClaim'
  <1>1. PICK a \in Actors : a = holds[w]  BY DEF TypeOK, Reenlist, GoW
  <1>2. /\ wpc[w] = "reenlist" /\ wpc' = [wpc EXCEPT ![w] = "poll"]
        /\ holds' = [holds EXCEPT ![w] = None] /\ Owns(w, a) /\ HasClaim(w, a) /\ Enlist(a)
        /\ UNCHANGED <<scheduled, ppc, target, buffered>>
    BY <1>1 DEF Reenlist, GoW, Owns, Owning, HasClaim, producerVars
  <1>3. /\ ~Enlisted(a) /\ scheduled[a]
        /\ \A x \in Workers \ {w} : ~HasClaim(x, a)
        /\ \A q \in Producers : ~WillEnlist(q, a)
    BY <1>2 DEF OneClaim, ClaimIsUnique, ClaimNeedsFlag, InHand
  <1>4. PlacesDistinct' /\ \A b \in Actors \ {a} : Enlisted(b)' => Enlisted(b)
    <2>1. ready \in [Workers -> Seq(Actors)] /\ PlacesDistinct  BY DEF TypeOK, OneClaim
    <2> QED  BY <1>2, <1>3, <2>1, EnlistEffect
  <1>5. \A x \in Workers, b \in Actors : Owns(x, b)' <=> Owns(x, b) /\ x # w
    BY <1>2 DEF TypeOK, Owns, Owning
  <1>6. buffered[w] = None  BY <1>2 DEF TypeOK, OneClaim, BufferDrains
  <1>7. \A x \in Workers, b \in Actors : HasClaim(x, b)' <=> HasClaim(x, b) /\ x # w
    BY <1>2, <1>5, <1>6, SchedulerAssumption DEF HasClaim
  <1>8. \A q \in Producers, b \in Actors : WillEnlist(q, b)' <=> WillEnlist(q, b)
    BY <1>2 DEF WillEnlist
  <1>9. BufferDrains'  BY <1>2 DEF TypeOK, OneClaim, BufferDrains
  <1>10. ClaimIsUnique'  BY <1>3, <1>4, <1>7, <1>8 DEF OneClaim, ClaimIsUnique
  <1>11. ClaimNeedsFlag'
    BY <1>2, <1>3, <1>4, <1>5, <1>7, <1>8 DEF OneClaim, ClaimNeedsFlag, InHand
  <1> QED  BY <1>4, <1>9, <1>10, <1>11 DEF OneClaim

\* A worker keeps the claims apart.
LEMMA WorkerClaim ==
  ASSUME TypeOK, OneClaim, NEW w \in Workers, Worker(w) \/ Flush(w)
  PROVE  OneClaim'
  <1>1. CASE \/ TakeLocal(w) \/ \E v \in Workers : StealFrom(w, v)
    <2>1. PICK v \in Workers : /\ TakeFrom(w, v) /\ wpc[w] \in {"poll", "steal"}
                               /\ wpc[w] = "poll" => buffered[w] = None
                               /\ wpc' = [wpc EXCEPT ![w] = "measure"]
                               /\ UNCHANGED <<scheduled, buffered, ppc, target>>
      BY <1>1 DEF TakeLocal, StealFrom, GoW, Drained, producerVars
    <2>2. buffered[w] = None  BY <2>1 DEF OneClaim, BufferDrains
    <2> QED  BY <2>1, <2>2, TakeClaim
  <1>2. CASE \/ LocalEmpty(w) \/ (\E v \in Workers : StealMiss(w, v)) \/ WaitTimedOut(w)
             \/ MeasureBacklog(w) \/ PopBatch(w) \/ Settle(w) \/ RunTask(w)
             \/ RecheckEmpty(w) \/ RecheckMore(w) \/ RearmTooLate(w)
    <2>1. UNCHANGED <<scheduled, ready, buffered, ppc, target>>
      BY <1>2 DEF LocalEmpty, StealMiss, WaitTimedOut, MeasureBacklog, PopBatch, Settle, RunTask,
                  RecheckEmpty, RecheckMore, RearmTooLate, producerVars
    <2>2. \A x \in Workers : (buffered[x] # None /\ wpc[x] \in {"poll", "recheck", "rearm"})
                              => wpc'[x] \in {"poll", "recheck", "rearm"}
      BY <1>2 DEF TypeOK, LocalEmpty, StealMiss, WaitTimedOut, MeasureBacklog, PopBatch, Settle,
                  RunTask, RecheckEmpty, RecheckMore, RearmTooLate, GoW, Drained
    <2>3. \A x \in Workers, a \in Actors : Owns(x, a)' <=> Owns(x, a)
      BY <1>2, SMTT(30) DEF TypeOK, Owns, Owning, LocalEmpty, StealMiss, WaitTimedOut, MeasureBacklog,
                  PopBatch, Settle, RunTask, RecheckEmpty, RecheckMore, RearmTooLate, GoW
    <2>4. \A q \in Producers, a \in Actors : WillEnlist(q, a)' <=> WillEnlist(q, a)
      BY <2>1 DEF WillEnlist
    <2> QED  BY <2>1, <2>2, <2>3, <2>4, FrameClaim
  <1> QED  BY <1>1, <1>2, ReleaseClaim, FlushClaim, RearmClaim, ReenlistClaim
           DEF Worker, Process, TrySteal

\* At most one claim on each actor, and the flag is set while there is one.
THEOREM ClaimsCorrect == Spec => []OneClaim
  <1>1. Init => OneClaim
    <2> SUFFICES ASSUME Init PROVE OneClaim  OBVIOUS
    <2>1. \A w \in Workers : ready[w] = << >> /\ DOMAIN ready[w] = {}  BY DEF Init
    <2>2. /\ \A w \in Workers, a \in Actors : ~Owns(w, a) /\ ~HasClaim(w, a)
          /\ \A p \in Producers, a \in Actors : ~WillEnlist(p, a)
          /\ \A a \in Actors : ~Enlisted(a)
      BY <2>1, SchedulerAssumption DEF Init, Owns, Owning, HasClaim, WillEnlist, Enlisted
    <2>3. BufferDrains /\ PlacesDistinct  BY <2>1 DEF Init, BufferDrains, PlacesDistinct
    <2> QED  BY <2>2, <2>3 DEF OneClaim, ClaimNeedsFlag, ClaimIsUnique, InHand
  <1>2. TypeOK /\ OneClaim /\ [Next]_vars => OneClaim'
    <2> SUFFICES ASSUME TypeOK, OneClaim, [Next]_vars PROVE OneClaim'  OBVIOUS
    <2>1. CASE Next  BY <2>1, ProducerClaim, WorkerClaim DEF Next
    <2>2. CASE UNCHANGED vars
      BY <2>2, FrameClaim DEF vars, producerVars, workerVars, Owns, WillEnlist
    <2> QED  BY <2>1, <2>2
  <1> QED  BY <1>1, <1>2, TypeCorrect, PTL DEF Spec

\* The handlers of one player never overlap, whatever the interleaving of
\* threads, and although the release of the actor may reach memory late.
THEOREM HandlersDoNotOverlap == Spec => []OneRunner
  <1>1. OneClaim => OneRunner  BY DEF OneClaim, ClaimIsUnique, OneRunner, HasClaim
  <1> QED  BY <1>1, ClaimsCorrect, PTL

-----------------------------------------------------------------------------
(* The soft limit, and why the hard limit is never met *)

\* The network threads that are about to add to an actor's mailbox.
Adding(a) == Posting(a, {"push", "count"})

\* There are finitely many of them, no more than there are network threads.
LEMMA AddingFinite ==
  ASSUME NEW S \in SUBSET Producers
  PROVE  IsFiniteSet(S) /\ Cardinality(S) \in Nat /\ Cardinality(S) <= Cardinality(Producers)
         /\ Cardinality(Producers) \in Nat
  BY ThreadsAssumption, FS_Subset, FS_CardinalityType

\* A step that adds nobody and lets no mailbox grow keeps the bound.
LEMMA FrameBound ==
  ASSUME TypeOK, TypeOK', SoftLimitBound,
         \A a \in Actors : Adding(a)' \subseteq Adding(a) /\ size'[a] <= size[a]
  PROVE  SoftLimitBound'
  <1> SUFFICES ASSUME NEW a \in Actors
               PROVE  size'[a] + Cardinality(Adding(a)') <= SoftLimit + Cardinality(Producers) - 1
    BY DEF SoftLimitBound, Adding
  <1>1. Adding(a) \in SUBSET Producers /\ Adding(a)' \in SUBSET Adding(a)
    BY DEF Adding, Posting
  <1>2. IsFiniteSet(Adding(a)) /\ Cardinality(Adding(a)) \in Nat /\ Cardinality(Producers) \in Nat
    BY <1>1, AddingFinite
  <1>3. Cardinality(Adding(a)') \in Nat /\ Cardinality(Adding(a)') <= Cardinality(Adding(a))
    BY <1>1, <1>2, FS_Subset, FS_CardinalityType
  <1>4. size[a] + Cardinality(Adding(a)) <= SoftLimit + Cardinality(Producers) - 1
    BY DEF SoftLimitBound, Adding
  <1>5. size[a] \in Int /\ size'[a] \in Int /\ size'[a] <= size[a]  BY DEF TypeOK
  <1> QED  BY <1>2, <1>3, <1>4, <1>5, SchedulerAssumption

\* A request that passes the soft limit finds room for every network thread.
LEMMA DispatchBound ==
  ASSUME TypeOK, TypeOK', SoftLimitBound, NEW p \in Producers, NEW a \in Actors, Dispatch(p, a)
  PROVE  SoftLimitBound'
  <1> SUFFICES ASSUME NEW b \in Actors
               PROVE  size'[b] + Cardinality(Adding(b)') <= SoftLimit + Cardinality(Producers) - 1
    BY DEF SoftLimitBound, Adding
  <1>1. size' = size /\ size[b] \in Int  BY DEF TypeOK, Dispatch
  <1>2. CASE b = a
    <2>1. size[a] <= SoftLimit - 1  BY SchedulerAssumption DEF TypeOK, Dispatch
    <2>2. Adding(b)' \in SUBSET Producers  BY DEF Adding, Posting
    <2>3. Cardinality(Adding(b)') \in Nat /\ Cardinality(Adding(b)') <= Cardinality(Producers)
          /\ Cardinality(Producers) \in Nat
      BY <2>2, AddingFinite
    <2> QED  BY <1>1, <1>2, <2>1, <2>3, SchedulerAssumption
  <1>3. CASE b # a
    <2>1. Adding(b)' = Adding(b)
      BY <1>3 DEF TypeOK, Adding, Posting, Dispatch, Receive
    <2> QED  BY <1>1, <2>1 DEF SoftLimitBound, Adding
  <1> QED  BY <1>2, <1>3

\* Counting a task moves a unit from the threads to the mailbox.
LEMMA CountBound ==
  ASSUME TypeOK, TypeOK', SoftLimitBound, NEW p \in Producers, Count(p)
  PROVE  SoftLimitBound'
  <1> SUFFICES ASSUME NEW b \in Actors
               PROVE  size'[b] + Cardinality(Adding(b)') <= SoftLimit + Cardinality(Producers) - 1
    BY DEF SoftLimitBound, Adding
  <1>1. PICK a \in Actors : a = target[p]  BY DEF TypeOK, Count, GoP
  <1>2. size' = [size EXCEPT ![a] = @ + 1] /\ size[b] \in Int  BY <1>1 DEF TypeOK, Count
  <1>3. CASE b = a
    <2>1. p \in Adding(b) /\ Adding(b)' = Adding(b) \ {p}
      BY <1>1, <1>3 DEF TypeOK, Adding, Posting, Count, GoP
    <2>2. Adding(b) \in SUBSET Producers  BY DEF Adding, Posting
    <2>3. IsFiniteSet(Adding(b)) /\ Cardinality(Adding(b)) \in Nat  BY <2>2, AddingFinite
    <2>4. Cardinality(Adding(b)') = Cardinality(Adding(b)) - 1
      BY <2>1, <2>3, FS_RemoveElement
    <2>5. size'[b] = size[b] + 1  BY <1>2, <1>3 DEF TypeOK
    <2>6. size[b] + Cardinality(Adding(b)) <= SoftLimit + Cardinality(Producers) - 1
      BY DEF SoftLimitBound, Adding
    <2>7. Cardinality(Producers) \in Nat  BY <2>2, AddingFinite
    <2> QED  BY <1>2, <2>3, <2>4, <2>5, <2>6, <2>7, SchedulerAssumption
  <1>4. CASE b # a
    <2>1. Adding(b)' = Adding(b)  BY <1>1, <1>4 DEF TypeOK, Adding, Posting, Count, GoP
    <2>2. size'[b] = size[b]  BY <1>2, <1>4 DEF TypeOK
    <2> QED  BY <2>1, <2>2 DEF SoftLimitBound, Adding
  <1> QED  BY <1>3, <1>4

\* Every step keeps the bound.
LEMMA StepBound ==
  ASSUME TypeOK, TypeOK', SoftLimitBound, Next
  PROVE  SoftLimitBound'
  <1>1. ASSUME NEW p \in Producers, StartRequest(p) \/ Post(p)  PROVE SoftLimitBound'
    <2>1. CASE \E a \in Actors : Dispatch(p, a)  BY <2>1, DispatchBound
    <2>2. CASE Count(p)  BY <2>2, CountBound
    <2>3. CASE \/ (\E a \in Actors : RejectOverloaded(p, a)) \/ PushRefused(p) \/ PushAdmitted(p)
               \/ Enqueue(p) \/ WakeClaims(p) \/ WakeTooLate(p) \/ Schedule(p)
      <3>1. \A a \in Actors : Adding(a)' \subseteq Adding(a)
        BY <2>3, SMTT(30) DEF TypeOK, Adding, Posting, RejectOverloaded, Receive, PushRefused, PushAdmitted,
                    Enqueue, WakeClaims, WakeTooLate, Schedule, GoP
      <3>2. \A a \in Actors : size'[a] = size[a] /\ size[a] \in Int
        BY <2>3 DEF TypeOK, RejectOverloaded, PushRefused, PushAdmitted, Enqueue, WakeClaims,
                    WakeTooLate, Schedule
      <3>3. \A a \in Actors : Adding(a)' \subseteq Adding(a) /\ size'[a] <= size[a]
        BY <3>1, <3>2
      <3> QED  BY <3>3, FrameBound
    <2> QED  BY <1>1, <2>1, <2>2, <2>3 DEF StartRequest, Post
  <1>2. ASSUME NEW w \in Workers, Worker(w) \/ Flush(w)  PROVE SoftLimitBound'
    <2>1. UNCHANGED <<ppc, target>>
      BY <1>2 DEF Worker, Process, TrySteal, Flush, TakeLocal, LocalEmpty, StealFrom, StealMiss,
                  WaitTimedOut, MeasureBacklog, PopBatch, Settle, RunTask, Release, RecheckEmpty,
                  RecheckMore, RearmClaims, RearmTooLate, Reenlist, producerVars
    <2>2. \A a \in Actors : Adding(a)' = Adding(a)  BY <2>1 DEF Adding, Posting
    <2>3. \A a \in Actors : size'[a] <= size[a]
      <3>1. CASE Settle(w)
        <4>1. batch[w] \in Seq(Requests \cup {NoTask})  BY DEF TypeOK
        <4>2. Len(batch[w]) \in Nat  BY <4>1
        <4> QED  BY <3>1, <4>2 DEF TypeOK, Settle
      <3>2. CASE UNCHANGED size  BY <3>2 DEF TypeOK
      <3> QED
        BY <1>2, <3>1, <3>2 DEF Worker, Process, TrySteal, Flush, TakeLocal, LocalEmpty, StealFrom,
             StealMiss, WaitTimedOut, MeasureBacklog, PopBatch, RunTask, Release,
             RecheckEmpty, RecheckMore, RearmClaims, RearmTooLate, Reenlist
    <2>4. \A a \in Actors : Adding(a)' \subseteq Adding(a) /\ size'[a] <= size[a]
      BY <2>2, <2>3
    <2> QED  BY <2>4, FrameBound
  <1> QED  BY <1>1, <1>2 DEF Next

\* A mailbox passes the soft limit only by the other network threads' requests,
\* however many actors there are and however slow the workers.
THEOREM MailboxesBounded == Spec => []SoftLimitBound
  <1>1. Init => SoftLimitBound
    <2> SUFFICES ASSUME Init, NEW a \in Actors
                 PROVE  size[a] + Cardinality(Adding(a)) <= SoftLimit + Cardinality(Producers) - 1
      BY DEF SoftLimitBound, Adding
    <2>1. size[a] = 0 /\ Adding(a) = {}  BY DEF Init, Adding, Posting
    <2>2. {} \in SUBSET Producers  OBVIOUS
    <2>3. Cardinality(Producers) \in Nat  BY <2>2, AddingFinite
    <2>4. Cardinality(Adding(a)) = 0  BY <2>1, FS_EmptySet
    <2> QED  BY <2>1, <2>3, <2>4, SchedulerAssumption
  <1>2. TypeOK /\ TypeOK' /\ SoftLimitBound /\ [Next]_vars => SoftLimitBound'
    <2> SUFFICES ASSUME TypeOK, TypeOK', SoftLimitBound, [Next]_vars PROVE SoftLimitBound'
      OBVIOUS
    <2>1. CASE Next  BY <2>1, StepBound
    <2>2. CASE UNCHANGED vars
      BY <2>2 DEF vars, producerVars, SoftLimitBound, Posting
    <2> QED  BY <2>1, <2>2
  <1> QED  BY <1>1, <1>2, TypeCorrect, PTL DEF Spec

\* As long as the mailbox is larger than the soft limit by the number of network
\* threads (2048 and 256 in the code), no push is ever refused, so that the task
\* that a refused push loses is never lost.
THEOREM NoRequestLost ==
  ASSUME SoftLimit + Cardinality(Producers) <= MaxMailbox + 1
  PROVE  Spec => []NoSilentDrop
  <1>1. Init => NoSilentDrop  BY DEF Init, NoSilentDrop
  <1>2. TypeOK /\ SoftLimitBound /\ NoSilentDrop /\ [Next]_vars => NoSilentDrop'
    <2> SUFFICES ASSUME TypeOK, SoftLimitBound, NoSilentDrop, [Next]_vars PROVE NoSilentDrop'
      OBVIOUS
    <2>1. ASSUME NEW p \in Producers, PushRefused(p)  PROVE FALSE
      <3>1. PICK a \in Actors : a = target[p]  BY <2>1 DEF TypeOK, PushRefused
      <3>2. p \in Adding(a) /\ Adding(a) \in SUBSET Producers
        BY <2>1, <3>1 DEF PushRefused, Adding, Posting
      <3>3. IsFiniteSet(Adding(a)) /\ Cardinality(Adding(a)) \in Nat /\ Cardinality(Producers) \in Nat
        BY <3>2, AddingFinite
      <3>4. Cardinality(Adding(a)) # 0  BY <3>2, <3>3, FS_EmptySet
      <3>5. size[a] + Cardinality(Adding(a)) <= SoftLimit + Cardinality(Producers) - 1
        BY DEF SoftLimitBound, Adding
      <3>6. size[a] >= MaxMailbox /\ size[a] \in Int  BY <2>1, <3>1 DEF TypeOK, PushRefused
      <3> QED  BY <3>3, <3>4, <3>5, <3>6, SchedulerAssumption
    <2>2. UNCHANGED lost
      BY <2>1 DEF Next, vars, StartRequest, RejectOverloaded, Dispatch, Post, PushAdmitted, Count,
           Enqueue, WakeClaims, WakeTooLate, Schedule, Worker, Process, TrySteal, Flush, TakeLocal,
           LocalEmpty, StealFrom, StealMiss, WaitTimedOut, MeasureBacklog, PopBatch, Settle,
           RunTask, Release, RecheckEmpty, RecheckMore, RearmClaims, RearmTooLate, Reenlist,
           producerVars
    <2> QED  BY <2>2 DEF NoSilentDrop
  <1> QED  BY <1>1, <1>2, TypeCorrect, MailboxesBounded, PTL DEF Spec

-----------------------------------------------------------------------------
(* No actor is left with its flag set and nobody to act on it *)

\* There are not more actors than a ready queue can hold.
Roomy == IsFiniteSet(Actors) /\ Cardinality(Actors) <= MaxReady + 1

\* An actor that is not enlisted finds room: the places are distinct.
LEMMA RoomInQueue ==
  ASSUME Roomy, ready \in [Workers -> Seq(Actors)], PlacesDistinct, NEW a \in Actors, ~Enlisted(a)
  PROVE  \A w \in Workers : Len(ready[w]) <= MaxReady
  <1> SUFFICES ASSUME NEW w \in Workers, Len(ready[w]) > MaxReady PROVE FALSE
    BY SchedulerAssumption
  <1> DEFINE n == Len(ready[w])
             others == Actors \ {a}
  <1>1. n \in Nat /\ DOMAIN ready[w] = 1 .. n /\ MaxReady \in Nat  BY SchedulerAssumption
  <1>2. ready[w] \in [1 .. n -> others]
    <2>1. \A i \in 1 .. n : ready[w][i] \in Actors /\ ready[w][i] # a  BY <1>1 DEF Enlisted
    <2> QED  BY <1>1, <2>1
  <1>3. IsFiniteSet(1 .. n) /\ Cardinality(1 .. n) = n
    <2>1. 1 \in Int /\ n \in Int  BY <1>1
    <2>2. IsFiniteSet(1 .. n) /\ Cardinality(1 .. n) = IF 1 > n THEN 0 ELSE n - 1 + 1
      BY <2>1, FS_Interval
    <2> QED  BY <1>1, <2>2
  <1>4. /\ IsFiniteSet(others) /\ Cardinality(others) = Cardinality(Actors) - 1
        /\ Cardinality(Actors) \in Nat
    BY FS_RemoveElement, FS_CardinalityType DEF Roomy
  <1>5. Cardinality(others) < Cardinality(1 .. n)
    <2> HIDE DEF n, others
    <2> QED  BY <1>1, <1>3, <1>4 DEF Roomy, n
  <1>6. \E i, j \in 1 .. n : i # j /\ ready[w][i] = ready[w][j]
    <2> HIDE DEF n, others
    <2> QED  BY <1>2, <1>3, <1>4, <1>5, FS_PigeonHole, ZenonT(30)
  <1> QED  BY <1>1, <1>6 DEF PlacesDistinct

\* So the request to schedule it is not dropped.
LEMMA EnlistLands ==
  ASSUME Roomy, ready \in [Workers -> Seq(Actors)], PlacesDistinct, NEW a \in Actors, ~Enlisted(a),
         Enlist(a)
  PROVE  \A b \in Actors : Enlisted(b) \/ b = a => Enlisted(b)'
  <1>1. Home[a] \in Workers  BY SchedulerAssumption
  <1>2. Len(ready[Home[a]]) <= MaxReady /\ Len(ready[Home[a]]) \in Nat  BY <1>1, RoomInQueue
  <1>3. ready' = [ready EXCEPT ![Home[a]] = Append(@, a)]
    BY <1>2, SchedulerAssumption DEF Enlist
  <1>4. \A w \in Workers : \A i \in DOMAIN ready[w] :
          i \in DOMAIN ready'[w] /\ ready'[w][i] = ready[w][i]
    BY <1>1, <1>3
  <1>5. /\ Len(ready[Home[a]]) + 1 \in DOMAIN ready'[Home[a]]
        /\ ready'[Home[a]][Len(ready[Home[a]]) + 1] = a
    BY <1>1, <1>3
  <1> QED  BY <1>1, <1>4, <1>5 DEF Enlisted

\* Taking an actor leaves all others enlisted.
LEMMA TakeFromLeaves ==
  ASSUME ready \in [Workers -> Seq(Actors)], holds \in [Workers -> Actors \cup {None}],
         NEW w \in Workers, NEW v \in Workers, TakeFrom(w, v)
  PROVE  \E a \in Actors : /\ holds' = [holds EXCEPT ![w] = a]
                          /\ \A b \in Actors \ {a} : Enlisted(b) => Enlisted(b)'
  <1>1. ready[v] \in Seq(Actors) /\ ready[v] # << >>  BY DEF TakeFrom
  <1>2. PICK a \in Actors : a = Head(ready[v]) /\ a = ready[v][1]  BY <1>1
  <1>3. holds' = [holds EXCEPT ![w] = a]  BY <1>2 DEF TakeFrom
  <1>4. ASSUME NEW b \in Actors \ {a}, Enlisted(b)  PROVE Enlisted(b)'
    <2>1. PICK x \in Workers : \E i \in DOMAIN ready[x] : ready[x][i] = b  BY <1>4 DEF Enlisted
    <2>2. PICK i \in DOMAIN ready[x] : ready[x][i] = b  BY <2>1
    <2>3. CASE x # v
      <3>1. ready'[x] = ready[x]  BY <2>3 DEF TakeFrom
      <3> QED  BY <2>2, <3>1 DEF Enlisted
    <2>4. CASE x = v
      <3>1. ready'[x] = Tail(ready[v])  BY <2>4 DEF TakeFrom
      <3>2. i # 1  BY <1>2, <2>2, <2>4
      <3>3. i - 1 \in DOMAIN Tail(ready[v]) /\ Tail(ready[v])[i - 1] = ready[v][i]
        BY <1>1, <2>4, <3>2
      <3> QED  BY <2>2, <2>4, <3>1, <3>3 DEF Enlisted
    <2> QED  BY <2>3, <2>4
  <1> QED  BY <1>3, <1>4

\* Somebody has the claim on the actor.
Held(a) == \/ Enlisted(a)
           \/ \E w \in Workers : HasClaim(w, a)
           \/ \E p \in Producers : WillEnlist(p, a)

LEMMA OrphanHeld == NoOrphan <=> \A a \in Actors : scheduled[a] => Held(a)
  BY DEF NoOrphan, InHand, Held, HasClaim

\* A network thread leaves no orphan.
LEMMA ProducerOrphan ==
  ASSUME Roomy, TypeOK, OneClaim, NEW p \in Producers, StartRequest(p) \/ Post(p),
         \A a \in Actors : scheduled[a] => Held(a)
  PROVE  \A a \in Actors : scheduled'[a] => Held(a)'
  <1>1. UNCHANGED <<wpc, holds, buffered>>
    BY DEF StartRequest, RejectOverloaded, Dispatch, Post, PushRefused, PushAdmitted, Count,
           Enqueue, WakeClaims, WakeTooLate, Schedule, workerVars
  <1>2. \A w \in Workers, a \in Actors : HasClaim(w, a)' <=> HasClaim(w, a)
    BY <1>1 DEF HasClaim, Owns
  <1>3. CASE StartRequest(p) \/ PushRefused(p) \/ PushAdmitted(p) \/ Count(p) \/ Enqueue(p)
             \/ WakeTooLate(p)
    <2>1. UNCHANGED <<scheduled, ready>>
      BY <1>3 DEF StartRequest, RejectOverloaded, Dispatch, PushRefused, PushAdmitted, Count,
                  Enqueue, WakeTooLate
    <2>2. \A q \in Producers, a \in Actors : WillEnlist(q, a)' <=> WillEnlist(q, a)
      BY <1>3 DEF TypeOK, WillEnlist, StartRequest, RejectOverloaded, Dispatch, Receive,
                  PushRefused, PushAdmitted, Count, Enqueue, WakeTooLate, GoP
    <2> QED  BY <1>2, <2>1, <2>2 DEF Held, Enlisted
  <1>4. CASE WakeClaims(p)
    <2>1. PICK a \in Actors : a = target[p]  BY <1>4 DEF TypeOK, WakeClaims, GoP
    <2>2. UNCHANGED ready /\ scheduled' = [scheduled EXCEPT ![a] = TRUE]
      BY <1>4, <2>1 DEF WakeClaims, Claim
    <2>3. \A q \in Producers, b \in Actors :
            WillEnlist(q, b)' <=> WillEnlist(q, b) \/ (q = p /\ b = a)
      BY <1>4, <2>1 DEF TypeOK, WillEnlist, WakeClaims, GoP
    <2> QED  BY <1>2, <2>2, <2>3 DEF TypeOK, Held, Enlisted
  <1>5. CASE Schedule(p)
    <2>1. PICK a \in Actors : a = target[p] /\ WillEnlist(p, a)
      BY <1>5 DEF TypeOK, Schedule, GoP, WillEnlist
    <2>2. UNCHANGED scheduled /\ Enlist(a) /\ ~Enlisted(a)
      BY <1>5, <2>1 DEF Schedule, OneClaim, ClaimIsUnique
    <2>3. \A b \in Actors : Enlisted(b) \/ b = a => Enlisted(b)'
      <3>1. ready \in [Workers -> Seq(Actors)] /\ PlacesDistinct  BY DEF TypeOK, OneClaim
      <3> QED  BY <2>2, <3>1, EnlistLands
    <2>4. \A q \in Producers, b \in Actors : WillEnlist(q, b) => WillEnlist(q, b)' \/ b = a
      BY <1>5, <2>1 DEF TypeOK, WillEnlist, Schedule, GoP
    <2> QED  BY <1>2, <2>2, <2>3, <2>4 DEF Held
  <1> QED  BY <1>3, <1>4, <1>5 DEF Post

\* A worker leaves no orphan.
LEMMA WorkerOrphan ==
  ASSUME Roomy, TypeOK, OneClaim, NEW w \in Workers, Worker(w) \/ Flush(w),
         \A a \in Actors : scheduled[a] => Held(a)
  PROVE  \A a \in Actors : scheduled'[a] => Held(a)'
  <1>1. UNCHANGED <<ppc, target>>
    BY DEF Worker, Process, TrySteal, Flush, TakeLocal, LocalEmpty, StealFrom, StealMiss,
           WaitTimedOut, MeasureBacklog, PopBatch, Settle, RunTask, Release, RecheckEmpty,
           RecheckMore, RearmClaims, RearmTooLate, Reenlist, producerVars
  <1>2. \A p \in Producers, a \in Actors : WillEnlist(p, a)' <=> WillEnlist(p, a)
    BY <1>1 DEF WillEnlist
  <1>3. CASE TakeLocal(w) \/ \E v \in Workers : StealFrom(w, v)
    <2>1. PICK v \in Workers : /\ TakeFrom(w, v) /\ wpc[w] \in {"poll", "steal"}
                               /\ wpc[w] = "poll" => buffered[w] = None
                               /\ wpc' = [wpc EXCEPT ![w] = "measure"]
                               /\ UNCHANGED <<scheduled, buffered>>
      BY <1>3 DEF TakeLocal, StealFrom, GoW, Drained
    <2>2. PICK a \in Actors : /\ holds' = [holds EXCEPT ![w] = a]
                              /\ \A b \in Actors \ {a} : Enlisted(b) => Enlisted(b)'
      <3>1. ready \in [Workers -> Seq(Actors)] /\ holds \in [Workers -> Actors \cup {None}]
        BY DEF TypeOK
      <3> QED  BY <2>1, <3>1, TakeFromLeaves
    <2>3. buffered[w] = None  BY <2>1 DEF OneClaim, BufferDrains
    <2>4. \A x \in Workers, b \in Actors : HasClaim(x, b) \/ (x = w /\ b = a) => HasClaim(x, b)'
      BY <2>1, <2>2, <2>3, SchedulerAssumption DEF TypeOK, HasClaim, Owns, Owning
    <2> QED  BY <1>2, <2>1, <2>2, <2>4 DEF Held
  <1>4. CASE \/ LocalEmpty(w) \/ (\E v \in Workers : StealMiss(w, v)) \/ WaitTimedOut(w)
             \/ MeasureBacklog(w) \/ PopBatch(w) \/ Settle(w) \/ RunTask(w)
             \/ RecheckEmpty(w) \/ RecheckMore(w) \/ RearmTooLate(w)
    <2>1. UNCHANGED <<scheduled, ready, buffered>>
      BY <1>4 DEF LocalEmpty, StealMiss, WaitTimedOut, MeasureBacklog, PopBatch, Settle, RunTask,
                  RecheckEmpty, RecheckMore, RearmTooLate
    <2>2. \A x \in Workers, a \in Actors : Owns(x, a)' <=> Owns(x, a)
      BY <1>4, SMTT(30) DEF TypeOK, Owns, Owning, LocalEmpty, StealMiss, WaitTimedOut, MeasureBacklog,
                  PopBatch, Settle, RunTask, RecheckEmpty, RecheckMore, RearmTooLate, GoW
    <2> QED  BY <1>2, <2>1, <2>2 DEF Held, HasClaim, Enlisted
  <1>5. CASE Release(w)
    <2>1. PICK a \in Actors : a = holds[w]  BY <1>5 DEF TypeOK, Release, GoW
    <2>2. wpc[w] = "run" /\ wpc' = [wpc EXCEPT ![w] = "recheck"] /\ UNCHANGED <<ready, holds>>
      BY <1>5 DEF Release, GoW
    <2>3. buffered[w] = None  BY <2>2 DEF OneClaim, BufferDrains
    <2>4. \A x \in Workers, b \in Actors : HasClaim(x, b) => HasClaim(x, b)' \/ b = a
      BY <1>5, <2>1, <2>2, <2>3, SchedulerAssumption DEF TypeOK, Release, HasClaim, Owns
    <2>5. scheduled'[a] => HasClaim(w, a)'
      BY <1>5, <2>1 DEF TypeOK, Release, HasClaim
    <2>6. \A b \in Actors : scheduled'[b] => scheduled[b]
      BY <1>5, <2>1 DEF TypeOK, Release
    <2> QED  BY <1>2, <2>2, <2>4, <2>5, <2>6 DEF Held, Enlisted
  <1>6. CASE Flush(w)
    <2>1. PICK a \in Actors : a = buffered[w]  BY <1>6 DEF TypeOK, Flush
    <2>2. /\ scheduled' = [scheduled EXCEPT ![a] = FALSE]
          /\ buffered' = [buffered EXCEPT ![w] = None]
          /\ UNCHANGED <<ready, wpc, holds>>
      BY <1>6, <2>1 DEF Flush
    <2>3. \A x \in Workers, b \in Actors : HasClaim(x, b) => HasClaim(x, b)' \/ b = a
      BY <2>1, <2>2 DEF TypeOK, HasClaim, Owns
    <2> QED  BY <1>2, <2>2, <2>3 DEF TypeOK, Held, Enlisted
  <1>7. CASE RearmClaims(w)
    <2>1. PICK a \in Actors : a = holds[w]  BY <1>7 DEF TypeOK, RearmClaims, GoW
    <2>2. /\ wpc[w] = "rearm" /\ wpc' = [wpc EXCEPT ![w] = "reenlist"]
          /\ scheduled' = [scheduled EXCEPT ![a] = TRUE] /\ UNCHANGED <<ready, holds, buffered>>
      BY <1>7, <2>1 DEF RearmClaims, Claim, GoW
    <2>3. \A x \in Workers, b \in Actors : HasClaim(x, b) \/ (x = w /\ b = a) => HasClaim(x, b)'
      BY <2>1, <2>2 DEF TypeOK, HasClaim, Owns, Owning
    <2> QED  BY <1>2, <2>2, <2>3 DEF TypeOK, Held, Enlisted
  <1>8. CASE Reenlist(w)
    <2>1. PICK a \in Actors : a = holds[w] /\ HasClaim(w, a)
      BY <1>8 DEF TypeOK, Reenlist, GoW, HasClaim, Owns, Owning
    <2>2. /\ UNCHANGED <<scheduled, buffered>> /\ Enlist(a) /\ ~Enlisted(a)
          /\ wpc' = [wpc EXCEPT ![w] = "poll"] /\ holds' = [holds EXCEPT ![w] = None]
      BY <1>8, <2>1 DEF Reenlist, GoW, OneClaim, ClaimIsUnique
    <2>3. \A b \in Actors : Enlisted(b) \/ b = a => Enlisted(b)'
      <3>1. ready \in [Workers -> Seq(Actors)] /\ PlacesDistinct  BY DEF TypeOK, OneClaim
      <3> QED  BY <2>2, <3>1, EnlistLands
    <2>4. \A x \in Workers, b \in Actors : HasClaim(x, b) => HasClaim(x, b)' \/ b = a
      BY <2>1, <2>2 DEF TypeOK, HasClaim, Owns
    <2> QED  BY <1>2, <2>2, <2>3, <2>4 DEF Held
  <1> QED  BY <1>3, <1>4, <1>5, <1>6, <1>7, <1>8 DEF Worker, Process, TrySteal

\* When the ready queues have room for all actors, an actor whose flag is set
\* is enlisted, being run, about to be enlisted, or just being let go.
THEOREM NoActorOrphaned ==
  ASSUME Roomy
  PROVE  Spec => []NoOrphan
  <1>1. Init => NoOrphan  BY DEF Init, NoOrphan
  <1>2. TypeOK /\ OneClaim /\ NoOrphan /\ [Next]_vars => NoOrphan'
    <2> SUFFICES ASSUME TypeOK, OneClaim, NoOrphan, [Next]_vars PROVE NoOrphan'  OBVIOUS
    <2>1. \A a \in Actors : scheduled[a] => Held(a)  BY OrphanHeld
    <2>2. CASE Next
      <3>1. \A a \in Actors : scheduled'[a] => Held(a)'
        BY <2>1, <2>2, ProducerOrphan, WorkerOrphan DEF Next
      <3> QED  BY <3>1 DEF NoOrphan, InHand, Held, HasClaim
    <2>3. CASE UNCHANGED vars
      BY <2>3 DEF NoOrphan, InHand, Enlisted, Owns, WillEnlist, vars, producerVars, workerVars
    <2> QED  BY <2>2, <2>3
  <1> QED  BY <1>1, <1>2, TypeCorrect, ClaimsCorrect, PTL DEF Spec

-----------------------------------------------------------------------------
(* No wake-up is lost, when the release of an actor is seen at once *)

\* No store waits in a buffer.
Unbuffered == \A w \in Workers : buffered[w] = None

LEMMA StoresSeenAtOnce ==
  ASSUME ~WeakStores
  PROVE  Spec => []Unbuffered
  <1>1. Init => Unbuffered  BY DEF Init, Unbuffered
  <1>2. TypeOK /\ Unbuffered /\ [Next]_vars => Unbuffered'
    <2> SUFFICES ASSUME TypeOK, Unbuffered, [Next]_vars PROVE Unbuffered'  OBVIOUS
    <2>1. ASSUME NEW w \in Workers, Worker(w) \/ Flush(w)  PROVE UNCHANGED buffered
      BY <2>1 DEF Worker, Process, TrySteal, Flush, TakeLocal, LocalEmpty, StealFrom, StealMiss,
           WaitTimedOut, MeasureBacklog, PopBatch, Settle, RunTask, Release, RecheckEmpty,
           RecheckMore, RearmClaims, RearmTooLate, Reenlist, Unbuffered
    <2>2. ASSUME NEW p \in Producers, StartRequest(p) \/ Post(p)  PROVE UNCHANGED buffered
      BY <2>2 DEF StartRequest, RejectOverloaded, Dispatch, Post, PushRefused, PushAdmitted, Count,
           Enqueue, WakeClaims, WakeTooLate, Schedule, workerVars
    <2> QED  BY <2>1, <2>2 DEF Next, Unbuffered, vars, workerVars
  <1> QED  BY <1>1, <1>2, TypeCorrect, PTL DEF Spec

\* Who has still to look at the flag of an actor because its mailbox is not empty.
Wakes(p, a) == target[p] = a /\ ((ppc[p] = "enqueue" /\ wasEmpty[p]) \/ ppc[p] = "wake")
Rechecks(w, a) == holds[w] = a /\ wpc[w] \in {"recheck", "rearm"}

\* They go on to look at it, and give up only when the flag is set or the
\* mailbox is empty.
LEMMA WakePersists ==
  ASSUME TypeOK, Next, NEW a \in Actors, WillWake(a), ~scheduled[a], ~scheduled'[a], size[a] > 0
  PROVE  WillWake(a)'
  <1>1. ASSUME NEW p \in Producers, StartRequest(p) \/ Post(p), NEW q \in Producers, Wakes(q, a)
        PROVE  Wakes(q, a)'
    <2>1. CASE StartRequest(p)
      BY <1>1, <2>1 DEF TypeOK, StartRequest, RejectOverloaded, Dispatch, Receive, Wakes
    <2>2. CASE PushRefused(p) \/ PushAdmitted(p) \/ Count(p) \/ Schedule(p)
      BY <1>1, <2>2 DEF TypeOK, PushRefused, PushAdmitted, Count, Schedule, GoP, Wakes
    <2>3. CASE Enqueue(p)  BY <1>1, <2>3 DEF TypeOK, Enqueue, GoP, Wakes
    <2>4. CASE WakeClaims(p)  BY <1>1, <2>4 DEF TypeOK, WakeClaims, Claim, GoP, Wakes
    <2>5. CASE WakeTooLate(p)  BY <1>1, <2>5 DEF TypeOK, WakeTooLate, GoP, Wakes
    <2> QED  BY <1>1, <2>1, <2>2, <2>3, <2>4, <2>5 DEF Post
  <1>2. ASSUME NEW p \in Producers, StartRequest(p) \/ Post(p), NEW w \in Workers, Rechecks(w, a)
        PROVE  Rechecks(w, a)'
    BY <1>2 DEF StartRequest, RejectOverloaded, Dispatch, Post, PushRefused, PushAdmitted, Count,
         Enqueue, WakeClaims, WakeTooLate, Schedule, workerVars, Rechecks
  <1>3. ASSUME NEW w \in Workers, Worker(w) \/ Flush(w), NEW p \in Producers, Wakes(p, a)
        PROVE  Wakes(p, a)'
    BY <1>3 DEF Worker, Process, TrySteal, Flush, TakeLocal, LocalEmpty, StealFrom, StealMiss,
         WaitTimedOut, MeasureBacklog, PopBatch, Settle, RunTask, Release, RecheckEmpty,
         RecheckMore, RearmClaims, RearmTooLate, Reenlist, producerVars, Wakes
  <1>4. ASSUME NEW w \in Workers, Worker(w) \/ Flush(w), NEW x \in Workers, Rechecks(x, a)
        PROVE  Rechecks(x, a)'
    <2>1. CASE TakeLocal(w) \/ \E v \in Workers : StealFrom(w, v)
      BY <1>4, <2>1, SMTT(30) DEF TypeOK, TakeLocal, StealFrom, TakeFrom, GoW, Rechecks
    <2>2. CASE \/ LocalEmpty(w) \/ (\E v \in Workers : StealMiss(w, v)) \/ WaitTimedOut(w)
               \/ MeasureBacklog(w) \/ PopBatch(w) \/ Settle(w) \/ RunTask(w) \/ Release(w)
               \/ Flush(w)
      BY <1>4, <2>2 DEF TypeOK, LocalEmpty, StealMiss, WaitTimedOut, MeasureBacklog, PopBatch,
           Settle, RunTask, Release, Flush, GoW, Rechecks
    <2>3. CASE RecheckEmpty(w)
      <3>1. size[a] \in Int  BY DEF TypeOK
      <3> QED  BY <1>4, <2>3, <3>1 DEF TypeOK, RecheckEmpty, GoW, Rechecks
    <2>4. CASE RecheckMore(w)  BY <1>4, <2>4 DEF TypeOK, RecheckMore, GoW, Rechecks
    <2>5. CASE RearmClaims(w)  BY <1>4, <2>5 DEF TypeOK, RearmClaims, Claim, GoW, Rechecks
    <2>6. CASE RearmTooLate(w) \/ Reenlist(w)
      BY <1>4, <2>6 DEF TypeOK, RearmTooLate, Reenlist, GoW, Rechecks
    <2> QED  BY <1>4, <2>1, <2>2, <2>3, <2>4, <2>5, <2>6 DEF Worker, Process, TrySteal
  <1>5. (\E p \in Producers : Wakes(p, a)) \/ (\E w \in Workers : Rechecks(w, a))
    BY DEF WillWake, Wakes, Rechecks
  <1>6. (\E p \in Producers : Wakes(p, a)') \/ (\E w \in Workers : Rechecks(w, a)')
    BY <1>1, <1>2, <1>3, <1>4, <1>5 DEF Next
  <1> QED  BY <1>6 DEF WillWake, Wakes, Rechecks

\* The post that makes a mailbox non-empty is the one that must wake its actor.
LEMMA FirstPostWakes ==
  ASSUME TypeOK, TypeOK', Next, NEW a \in Actors, ~(size[a] > 0), size'[a] > 0
  PROVE  WillWake(a)'
  <1>1. size[a] \in Int /\ size'[a] \in Int  BY DEF TypeOK
  <1>2. ASSUME NEW w \in Workers, Worker(w) \/ Flush(w)  PROVE FALSE
    <2>1. CASE Settle(w)
      <3>1. batch[w] \in Seq(Requests \cup {NoTask})  BY DEF TypeOK
      <3>2. Len(batch[w]) \in Nat  BY <3>1
      <3> QED  BY <1>1, <2>1, <3>2 DEF TypeOK, Settle
    <2>2. CASE UNCHANGED size  BY <2>2
    <2> QED
      BY <1>2, <2>1, <2>2 DEF Worker, Process, TrySteal, Flush, TakeLocal, LocalEmpty, StealFrom,
           StealMiss, WaitTimedOut, MeasureBacklog, PopBatch, RunTask, Release, RecheckEmpty,
           RecheckMore, RearmClaims, RearmTooLate, Reenlist
  <1>3. ASSUME NEW p \in Producers, StartRequest(p) \/ Post(p)  PROVE Count(p)
    <2>1. size' # size  OBVIOUS
    <2> QED
      BY <1>3, <2>1 DEF StartRequest, RejectOverloaded, Dispatch, Post, PushRefused, PushAdmitted,
           Enqueue, WakeClaims, WakeTooLate, Schedule
  <1>4. PICK p \in Producers : Count(p)  BY <1>2, <1>3 DEF Next
  <1>5. target[p] = a /\ size[a] = 0  BY <1>1, <1>4 DEF TypeOK, Count, GoP
  <1>6. target'[p] = a /\ ppc'[p] = "enqueue" /\ wasEmpty'[p]
    <2>1. target' = target /\ ppc' = [ppc EXCEPT ![p] = "enqueue"]
          /\ wasEmpty' = [wasEmpty EXCEPT ![p] = size[target[p]] = 0]
      BY <1>4 DEF Count, GoP
    <2>3. p \in DOMAIN ppc /\ p \in DOMAIN wasEmpty  BY DEF TypeOK
    <2>4. target'[p] = a /\ ppc'[p] = "enqueue"  BY <1>5, <2>1, <2>3
    <2>5. wasEmpty'[p]  BY <1>5, <2>1, <2>3, Zenon
    <2> QED  BY <2>4, <2>5
  <1> QED  BY <1>6 DEF WillWake

\* A flag is cleared only by the release of a worker that goes on to look again.
LEMMA ReleaseRechecks ==
  ASSUME TypeOK, Unbuffered, Next, NEW a \in Actors, scheduled[a], ~scheduled'[a]
  PROVE  WillWake(a)'
  <1>1. ASSUME NEW p \in Producers, StartRequest(p) \/ Post(p)  PROVE FALSE
    <2>1. CASE UNCHANGED scheduled  BY <2>1
    <2>2. CASE WakeClaims(p)  BY <2>2 DEF TypeOK, WakeClaims, Claim
    <2> QED
      BY <1>1, <2>1, <2>2 DEF StartRequest, RejectOverloaded, Dispatch, Post, PushRefused,
           PushAdmitted, Count, Enqueue, WakeTooLate, Schedule
  <1>2. ASSUME NEW w \in Workers, Worker(w) \/ Flush(w)  PROVE Release(w)
    <2>1. CASE UNCHANGED scheduled  BY <2>1
    <2>2. CASE RearmClaims(w)  BY <2>2 DEF TypeOK, RearmClaims, Claim
    <2>3. CASE Flush(w)  BY <2>3 DEF Flush, Unbuffered
    <2> QED
      BY <1>2, <2>1, <2>2, <2>3 DEF Worker, Process, TrySteal, TakeLocal, LocalEmpty, StealFrom,
           StealMiss, WaitTimedOut, MeasureBacklog, PopBatch, Settle, RunTask, RecheckEmpty,
           RecheckMore, RearmTooLate, Reenlist
  <1>3. PICK w \in Workers : Release(w)  BY <1>1, <1>2 DEF Next
  <1>4. holds[w] = a  BY <1>3 DEF TypeOK, Release
  <1>5. holds'[w] = a /\ wpc'[w] = "recheck"  BY <1>3, <1>4 DEF TypeOK, Release, GoW
  <1> QED  BY <1>5 DEF WillWake

\* A mailbox with tasks in it always has somebody who will bring its actor to a
\* worker, when stores are seen at once and the ready queues have room.
THEOREM NoWakeupLost ==
  ASSUME Roomy, ~WeakStores
  PROVE  Spec => []NoLostWakeup
  <1>1. Init => NoLostWakeup  BY DEF Init, NoLostWakeup
  <1>2. /\ TypeOK /\ OneClaim /\ NoLostWakeup /\ Unbuffered /\ [Next]_vars
        /\ TypeOK' /\ NoOrphan' /\ Unbuffered'
        => NoLostWakeup'
    <2> SUFFICES ASSUME TypeOK, OneClaim, NoLostWakeup, Unbuffered, [Next]_vars, NoOrphan',
                        Unbuffered', TypeOK', NEW a \in Actors, size'[a] > 0, ~InHand(a)'
                 PROVE  WillWake(a)'
      BY DEF NoLostWakeup
    <2>1. ~scheduled'[a]  BY SchedulerAssumption DEF NoOrphan, Unbuffered
    <2>2. CASE UNCHANGED vars
      BY <2>2 DEF NoLostWakeup, InHand, WillWake, Enlisted, Owns, WillEnlist, vars, producerVars,
                  workerVars
    <2>3. CASE Next /\ ~(size[a] > 0)  BY <2>3, FirstPostWakes
    <2>4. CASE Next /\ size[a] > 0 /\ ~scheduled[a]
      <3>1. WillWake(a)  BY <2>4 DEF NoLostWakeup, OneClaim, ClaimNeedsFlag
      <3> QED  BY <2>1, <2>4, <3>1, WakePersists
    <2>5. CASE Next /\ scheduled[a]  BY <2>1, <2>5, ReleaseRechecks
    <2> QED  BY <2>2, <2>3, <2>4, <2>5
  <1> QED  BY <1>1, <1>2, TypeCorrect, ClaimsCorrect, NoActorOrphaned, StoresSeenAtOnce, PTL DEF Spec

-----------------------------------------------------------------------------
(* What a sequence keeps without its empty functions *)

Entries == Requests \cup {NoTask}
Kept(s) == Keep(s)[Len(s)]

\* What the steps do with sequences: put one element behind two of them, cut one in
\* two, and take the first element off.
LEMMA ConcatAppend ==
  ASSUME NEW S, NEW f \in Seq(S), NEW k \in Seq(S), NEW x \in S
  PROVE  f \o Append(k, x) = Append(f \o k, x)
  <1>1. f \o k \in Seq(S) /\ <<x>> \in Seq(S)  OBVIOUS
  <1>2. Append(k, x) = k \o <<x>> /\ Append(f \o k, x) = (f \o k) \o <<x>>
    BY <1>1, AppendIsConcat
  <1> QED  BY <1>1, <1>2, ConcatAssociative

LEMMA CutAndJoin ==
  ASSUME NEW S, NEW q \in Seq(S), NEW n \in 0 .. Len(q)
  PROVE  SubSeq(q, 1, n) \o SubSeq(q, n + 1, Len(q)) = q
  <1>1. Len(q) \in Nat  OBVIOUS
  <1>2. 1 \in 1 .. Len(q) + 1 /\ n \in 1 - 1 .. Len(q) /\ Len(q) \in n .. Len(q)  BY <1>1
  <1>3. SubSeq(q, 1, n) \o SubSeq(q, n + 1, Len(q)) = SubSeq(q, 1, Len(q))
    BY <1>2, ConcatAdjacentSubSeq
  <1> QED  BY <1>3, SubSeqFull

LEMMA FirstOfConcat ==
  ASSUME NEW S, NEW f \in Seq(S), f # << >>, NEW q \in Seq(S)
  PROVE  /\ f \o q \in Seq(S) /\ f \o q # << >>
         /\ Head(f \o q) = Head(f) /\ Tail(f \o q) = Tail(f) \o q
  OBVIOUS

LEMMA ConsFacts ==
  ASSUME NEW S, NEW x \in S, NEW q \in Seq(S)
  PROVE  <<x>> \o q # << >> /\ Head(<<x>> \o q) = x /\ Tail(<<x>> \o q) = q
  OBVIOUS

\* Induction over the natural numbers, for a set.
LEMMA Induction ==
  ASSUME NEW S, 0 \in S, \A n \in Nat : n \in S => n + 1 \in S
  PROVE  Nat \subseteq S
  <1> SUFFICES ASSUME Nat \ S # {} PROVE FALSE  OBVIOUS
  <1>1. PICK x \in Nat \ S : \A y \in Nat \ S : ~(<<y, x>> \in OpToRel(<, Nat))
    BY WFMin, NatLessThanWellFounded, Zenon
  <1>2. \A y \in Nat \ S : ~(y < x)
    BY <1>1 DEF OpToRel
  <1>3. x - 1 \in Nat /\ x - 1 \in S  BY <1>2
  <1> QED  BY <1>3

\* The recursion that defines Keep has a solution, up to every place.
LEMMA KeepExists ==
  ASSUME NEW s, NEW n \in Nat
  PROVE  \E f : f = [i \in 0 .. n |-> IF i = 0 THEN << >>
                     ELSE IF s[i] = NoTask THEN f[i - 1] ELSE Append(f[i - 1], s[i])]
  <1> DEFINE Rec(f, k) == f = [i \in 0 .. k |-> IF i = 0 THEN << >>
                     ELSE IF s[i] = NoTask THEN f[i - 1] ELSE Append(f[i - 1], s[i])]
             S == {k \in Nat : \E f : Rec(f, k)}
  <1>1. 0 \in S
    <2>1. Rec([i \in 0 .. 0 |-> << >>], 0)  OBVIOUS
    <2> QED  BY <2>1
  <1>2. ASSUME NEW k \in Nat, k \in S PROVE k + 1 \in S
    <2>1. PICK f : Rec(f, k)  BY <1>2
    <2> DEFINE last == IF s[k + 1] = NoTask THEN f[k] ELSE Append(f[k], s[k + 1])
               g == [i \in 0 .. k + 1 |-> IF i = k + 1 THEN last ELSE f[i]]
    <2>2. DOMAIN g = 0 .. k + 1 /\ g[k + 1] = last /\ \A i \in 0 .. k : g[i] = f[i]  OBVIOUS
    <2>3. f[0] = << >> /\ \A i \in 1 .. k :
            f[i] = IF s[i] = NoTask THEN f[i - 1] ELSE Append(f[i - 1], s[i])
      <3>1. ASSUME NEW h, f = [i \in 0 .. k |-> IF i = 0 THEN << >>
                     ELSE IF s[i] = NoTask THEN h[i - 1] ELSE Append(h[i - 1], s[i])]
            PROVE  f[0] = << >> /\ \A i \in 1 .. k :
                     f[i] = IF s[i] = NoTask THEN h[i - 1] ELSE Append(h[i - 1], s[i])
        BY <3>1
      <3> QED  BY <2>1, <3>1
    <2>4. \A i \in 0 .. k + 1 : g[i] = IF i = 0 THEN << >>
            ELSE IF s[i] = NoTask THEN g[i - 1] ELSE Append(g[i - 1], s[i])
      <3> HIDE DEF g
      <3> TAKE i \in 0 .. k + 1
      <3>1. CASE i = k + 1  BY <2>2, <3>1
      <3>2. CASE i = 0  BY <2>2, <2>3, <3>2
      <3>3. CASE i \in 1 .. k
        <4>1. g[i] = f[i] /\ g[i - 1] = f[i - 1] /\ i # 0  BY <2>2, <3>3
        <4> QED  BY <4>1, <2>3, <3>3
      <3> QED  BY <3>1, <3>2, <3>3
    <2>5. Rec(g, k + 1)
      <3>1. g = [i \in 0 .. k + 1 |-> g[i]]  OBVIOUS
      <3> HIDE DEF g
      <3> QED  BY <2>4, <3>1
    <2> HIDE DEF g, Rec
    <2> QED  BY <2>5
  <1>3. Nat \subseteq S
    <2> HIDE DEF S
    <2> QED  BY <1>1, <1>2, Induction
  <1> QED  BY <1>3

\* So Keep is the solution.
LEMMA KeepDef ==
  ASSUME NEW s \in Seq(Entries)
  PROVE  Keep(s) = [i \in 0 .. Len(s) |-> IF i = 0 THEN << >>
           ELSE IF s[i] = NoTask THEN Keep(s)[i - 1] ELSE Append(Keep(s)[i - 1], s[i])]
  <1> DEFINE Rec(f) == f = [i \in 0 .. Len(s) |-> IF i = 0 THEN << >>
                     ELSE IF s[i] = NoTask THEN f[i - 1] ELSE Append(f[i - 1], s[i])]
  <1>1. \E f : Rec(f)  BY KeepExists, Len(s) \in Nat
  <1>2. Keep(s) = CHOOSE f : Rec(f)  BY DEF Keep
  <1>3. Rec(Keep(s))
    <2> HIDE DEF Rec
    <2> QED  BY <1>1, <1>2, Zenon
  <1> QED  BY <1>3

\* What is kept up to a place.
LEMMA KeepFacts ==
  ASSUME NEW s \in Seq(Entries)
  PROVE  /\ Keep(s)[0] = << >>
         /\ \A i \in 1 .. Len(s) :
              Keep(s)[i] = IF s[i] = NoTask THEN Keep(s)[i - 1] ELSE Append(Keep(s)[i - 1], s[i])
         /\ Len(s) \in Nat /\ \A i \in 1 .. Len(s) : s[i] \in Entries
  <1>1. Len(s) \in Nat /\ \A i \in 1 .. Len(s) : s[i] \in Entries  OBVIOUS
  <1>2. ASSUME NEW h, NEW f, f = [i \in 0 .. Len(s) |-> IF i = 0 THEN << >>
                 ELSE IF s[i] = NoTask THEN h[i - 1] ELSE Append(h[i - 1], s[i])]
        PROVE  f[0] = << >> /\ \A i \in 1 .. Len(s) :
                 f[i] = IF s[i] = NoTask THEN h[i - 1] ELSE Append(h[i - 1], s[i])
    BY <1>1, <1>2
  <1>3. Keep(s) = [i \in 0 .. Len(s) |-> IF i = 0 THEN << >>
           ELSE IF s[i] = NoTask THEN Keep(s)[i - 1] ELSE Append(Keep(s)[i - 1], s[i])]
    BY KeepDef
  <1>4. /\ Keep(s)[0] = << >>
        /\ \A i \in 1 .. Len(s) :
             Keep(s)[i] = IF s[i] = NoTask THEN Keep(s)[i - 1] ELSE Append(Keep(s)[i - 1], s[i])
    BY <1>2, <1>3
  <1> QED  BY <1>1, <1>4

\* No empty function is kept.
LEMMA KeptType ==
  ASSUME NEW s \in Seq(Entries)
  PROVE  \A i \in 0 .. Len(s) : Keep(s)[i] \in Seq(Requests)
  <1> DEFINE S == {i \in Nat : i <= Len(s) => Keep(s)[i] \in Seq(Requests)}
  <1>1. 0 \in S
    <2>1. Keep(s)[0] = << >>  BY KeepFacts
    <2>2. Keep(s)[0] \in Seq(Requests)
      <3>1. << >> \in Seq(Requests)  OBVIOUS
      <3> QED  BY <2>1, <3>1, Zenon
    <2> QED  BY <2>2
  <1>2. ASSUME NEW n \in Nat, n \in S PROVE n + 1 \in S
    <2> SUFFICES ASSUME n + 1 <= Len(s) PROVE Keep(s)[n + 1] \in Seq(Requests)  OBVIOUS
    <2>1. Len(s) \in Nat /\ n + 1 \in 1 .. Len(s) /\ (n + 1) - 1 = n  BY KeepFacts
    <2>2. Keep(s)[n] \in Seq(Requests)  BY <1>2, <2>1
    <2>3. s[n + 1] \in Requests \cup {NoTask}
          /\ Keep(s)[n + 1] = IF s[n + 1] = NoTask THEN Keep(s)[n] ELSE Append(Keep(s)[n], s[n + 1])
      BY <2>1, KeepFacts DEF Entries
    <2> QED  BY <2>2, <2>3
  <1>3. Nat \subseteq S
    <2> HIDE DEF S
    <2> QED  BY <1>1, <1>2, Induction
  <1> QED  BY <1>3, KeepFacts

\* An empty sequence keeps nothing; an element at the end, or the first one, is kept
\* there unless it is an empty function.
LEMMA KeptEmpty == Kept(<< >>) = << >>
  <1>1. << >> \in Seq(Entries) /\ Len(<< >>) = 0  OBVIOUS
  <1> QED  BY <1>1, KeepFacts DEF Kept

LEMMA KeptAppend ==
  ASSUME NEW s \in Seq(Entries), NEW x \in Entries
  PROVE  Kept(Append(s, x)) = IF x = NoTask THEN Kept(s) ELSE Append(Kept(s), x)
  <1> DEFINE t == Append(s, x)
             S == {i \in Nat : i <= Len(s) => Keep(t)[i] = Keep(s)[i]}
  <1>1. /\ t \in Seq(Entries) /\ Len(s) \in Nat /\ Len(t) = Len(s) + 1
        /\ t[Len(s) + 1] = x /\ \A i \in 1 .. Len(s) : t[i] = s[i]
    OBVIOUS
  <1> HIDE DEF t
  <1>2. 0 \in S  BY <1>1, KeepFacts
  <1>3. ASSUME NEW n \in Nat, n \in S PROVE n + 1 \in S
    <2> SUFFICES ASSUME n + 1 <= Len(s) PROVE Keep(t)[n + 1] = Keep(s)[n + 1]  OBVIOUS
    <2>1. n + 1 \in 1 .. Len(s) /\ n + 1 \in 1 .. Len(t) /\ (n + 1) - 1 = n  BY <1>1
    <2>2. Keep(t)[n] = Keep(s)[n]  BY <1>1, <1>3, <2>1
    <2>3. Keep(s)[n + 1] = IF s[n + 1] = NoTask THEN Keep(s)[n] ELSE Append(Keep(s)[n], s[n + 1])
      BY <2>1, KeepFacts
    <2>4. Keep(t)[n + 1] = IF t[n + 1] = NoTask THEN Keep(t)[n] ELSE Append(Keep(t)[n], t[n + 1])
      BY <1>1, <2>1, KeepFacts
    <2> QED  BY <1>1, <2>1, <2>2, <2>3, <2>4
  <1>4. Nat \subseteq S
    <2> HIDE DEF S
    <2> QED  BY <1>2, <1>3, Induction
  <1>5. Keep(t)[Len(s)] = Keep(s)[Len(s)]  BY <1>1, <1>4
  <1>6. Len(s) + 1 \in 1 .. Len(t) /\ (Len(s) + 1) - 1 = Len(s)  BY <1>1
  <1>7. Keep(t)[Len(s) + 1] = IF x = NoTask THEN Keep(t)[Len(s)] ELSE Append(Keep(t)[Len(s)], x)
    BY <1>1, <1>6, KeepFacts
  <1>8. Kept(t) = IF x = NoTask THEN Kept(s) ELSE Append(Kept(s), x)
    BY <1>1, <1>5, <1>7 DEF Kept
  <1> QED  BY <1>8 DEF t

LEMMA KeptTail ==
  ASSUME NEW s \in Seq(Entries), s # << >>
  PROVE  Kept(s) = IF Head(s) = NoTask THEN Kept(Tail(s)) ELSE <<Head(s)>> \o Kept(Tail(s))
  <1> DEFINE t == Tail(s)
             first == IF Head(s) = NoTask THEN << >> ELSE <<Head(s)>>
             S == {i \in Nat : i <= Len(t) => Keep(s)[i + 1] = first \o Keep(t)[i]}
  <1>1. /\ t \in Seq(Entries) /\ Len(t) \in Nat /\ Len(s) = Len(t) + 1
        /\ Head(s) = s[1] /\ Head(s) \in Entries /\ \A i \in 1 .. Len(t) : t[i] = s[i + 1]
    OBVIOUS
  <1>2. first \in Seq(Requests)  BY <1>1 DEF Entries
  <1> HIDE DEF t
  <1>3. 0 \in S
    <2>1. 1 \in 1 .. Len(s) /\ 0 \in 0 .. Len(t)  BY <1>1
    <2>2. Keep(s)[1] = IF s[1] = NoTask THEN Keep(s)[1 - 1] ELSE Append(Keep(s)[1 - 1], s[1])
      BY <2>1, KeepFacts
    <2>3. 1 - 1 = 0 /\ 0 + 1 = 1 /\ Keep(s)[0] = << >> /\ Keep(t)[0] = << >>  BY <1>1, KeepFacts
    <2>4. Keep(s)[1] = IF s[1] = NoTask THEN << >> ELSE Append(<< >>, s[1])  BY <2>2, <2>3
    <2>5. Keep(s)[1] = first  BY <1>1, <2>4
    <2>6. first \o << >> = first  BY <1>2
    <2> QED  BY <2>3, <2>5, <2>6
  <1>4. ASSUME NEW n \in Nat, n \in S PROVE n + 1 \in S
    <2> HIDE DEF first
    <2> SUFFICES ASSUME n + 1 <= Len(t) PROVE Keep(s)[(n + 1) + 1] = first \o Keep(t)[n + 1]  OBVIOUS
    <2>1. /\ n + 1 \in 1 .. Len(t) /\ n + 2 \in 1 .. Len(s) /\ n \in 0 .. Len(t)
          /\ (n + 1) - 1 = n /\ (n + 2) - 1 = n + 1 /\ (n + 1) + 1 = n + 2
      BY <1>1
    <2>2. Keep(s)[n + 1] = first \o Keep(t)[n]  BY <1>1, <1>4, <2>1
    <2>3. Keep(t)[n + 1] = IF t[n + 1] = NoTask THEN Keep(t)[n] ELSE Append(Keep(t)[n], t[n + 1])
      BY <1>1, <2>1, KeepFacts
    <2>4. Keep(s)[n + 2] = IF s[n + 2] = NoTask THEN Keep(s)[n + 1] ELSE Append(Keep(s)[n + 1], s[n + 2])
      BY <2>1, KeepFacts
    <2>5. t[n + 1] = s[n + 2] /\ t[n + 1] \in Requests \cup {NoTask}  BY <1>1, <2>1, KeepFacts DEF Entries
    <2>6. Keep(t)[n] \in Seq(Requests)  BY <1>1, <2>1, KeptType
    <2>7. CASE t[n + 1] = NoTask  BY <2>1, <2>2, <2>3, <2>4, <2>5, <2>7
    <2>8. CASE t[n + 1] # NoTask
      <3>1. first \o Append(Keep(t)[n], t[n + 1]) = Append(first \o Keep(t)[n], t[n + 1])
        <4>1. t[n + 1] \in Requests  BY <2>5, <2>8
        <4>2. \A f, k \in Seq(Requests), x \in Requests : f \o Append(k, x) = Append(f \o k, x)
          BY ConcatAppend
        <4> QED  BY <1>2, <2>6, <4>1, <4>2
      <3> QED  BY <2>1, <2>2, <2>3, <2>4, <2>5, <2>8, <3>1
    <2> QED  BY <2>7, <2>8
  <1>5. Nat \subseteq S
    <2> HIDE DEF S
    <2> QED  BY <1>3, <1>4, Induction
  <1>6. Kept(s) = first \o Kept(t)
    <2> HIDE DEF first
    <2>1. Len(t) \in S  BY <1>1, <1>5
    <2>2. Keep(s)[Len(t) + 1] = first \o Keep(t)[Len(t)]  BY <1>1, <2>1
    <2> QED  BY <1>1, <2>2 DEF Kept
  <1>7. Kept(t) \in Seq(Requests)  BY <1>1, KeptType DEF Kept
  <1>8. << >> \o Kept(t) = Kept(t)  BY <1>7
  <1> QED  BY <1>6, <1>8 DEF t

-----------------------------------------------------------------------------
(* The scheduler implements FifoInbox *)

\* A worker has tasks in its batch only between PopBatch and the last of them.
BatchInUse == \A w \in Workers : wpc[w] \notin {"settle", "run"} => batch[w] = << >>

\* Every step keeps that.
LEMMA BatchStep ==
  ASSUME TypeOK, BatchInUse, [Next]_vars
  PROVE  BatchInUse'
  <1> USE DEF BatchInUse, TypeOK, GoW
  <1>1. CASE \E p \in Producers : StartRequest(p) \/ Post(p)
    <2>1. UNCHANGED <<wpc, batch>>
      BY <1>1 DEF StartRequest, Post, RejectOverloaded, Dispatch, PushRefused, PushAdmitted, Count,
                  Enqueue, WakeClaims, WakeTooLate, Schedule, workerVars
    <2> QED  BY <2>1
  <1>2. ASSUME NEW w \in Workers, Worker(w) \/ Flush(w) PROVE BatchInUse'
    <2>1. CASE TakeLocal(w)  BY <2>1 DEF TakeLocal
    <2>2. CASE LocalEmpty(w)  BY <2>2 DEF LocalEmpty
    <2>3. CASE TrySteal(w)  BY <2>3 DEF TrySteal, StealFrom, StealMiss
    <2>4. CASE WaitTimedOut(w)  BY <2>4 DEF WaitTimedOut
    <2>5. CASE MeasureBacklog(w)  BY <2>5 DEF MeasureBacklog
    <2>6. CASE PopBatch(w)  BY <2>6 DEF PopBatch
    <2>7. CASE Settle(w)  BY <2>7 DEF Settle
    <2>8. CASE RunTask(w)  BY <2>8 DEF RunTask
    <2>9. CASE Release(w)  BY <2>9 DEF Release
    <2>10. CASE Flush(w)  BY <2>10 DEF Flush
    <2>11. CASE RecheckEmpty(w) \/ RecheckMore(w)  BY <2>11 DEF RecheckEmpty, RecheckMore
    <2>12. CASE RearmClaims(w) \/ RearmTooLate(w)  BY <2>12 DEF RearmClaims, RearmTooLate
    <2>13. CASE Reenlist(w)  BY <2>13 DEF Reenlist
    <2> QED  BY <1>2, <2>1, <2>2, <2>3, <2>4, <2>5, <2>6, <2>7, <2>8, <2>9, <2>10, <2>11, <2>12,
                <2>13 DEF Worker, Process
  <1>3. CASE UNCHANGED vars  BY <1>3 DEF vars, workerVars
  <1> QED  BY <1>1, <1>2, <1>3 DEF Next

FifoInv == TypeOK /\ OneClaim /\ BatchInUse

\* What waits for an actor, with and without a worker that runs it.
WaitingFits(a) ==
  /\ Waiting(a) \in Seq(Entries) /\ queue[a] \in Seq(Entries)
  /\ \A w \in Workers : Owns(w, a) => Waiting(a) = batch[w] \o queue[a]
  /\ (\A w \in Workers : Owns(w, a) => batch[w] = << >>) => Waiting(a) = queue[a]

LEMMA WaitingIs == FifoInv => \A a \in Actors : WaitingFits(a)
  <1> SUFFICES ASSUME FifoInv, NEW a \in Actors PROVE WaitingFits(a)  OBVIOUS
  <1> USE DEF WaitingFits
  <1> DEFINE owners == {w \in Workers : Owns(w, a)}
  <1>1. queue[a] \in Seq(Entries) /\ \A w \in Workers : batch[w] \in Seq(Entries)
    BY DEF FifoInv, TypeOK, Entries
  <1>2. << >> \o queue[a] = queue[a]  BY <1>1
  <1>3. CASE owners = {}
    <2>1. Waiting(a) = << >> \o queue[a]  BY <1>3 DEF Waiting
    <2> QED  BY <1>1, <1>2, <1>3, <2>1
  <1>4. CASE owners # {}
    <2>1. PICK w \in Workers : w = CHOOSE x \in owners : TRUE  BY <1>4
    <2>2. Owns(w, a)  BY <1>4, <2>1
    <2>3. \A x \in Workers : Owns(x, a) => x = w
      BY <2>2 DEF FifoInv, OneClaim, ClaimIsUnique, HasClaim
    <2>4. Waiting(a) = batch[w] \o queue[a]  BY <1>4, <2>1 DEF Waiting
    <2>5. batch[w] \o queue[a] \in Seq(Entries)  BY <1>1
    <2> QED  BY <1>1, <1>2, <2>2, <2>3, <2>4, <2>5
  <1> QED  BY <1>3, <1>4

\* The same after a step.
LEMMA WaitingIsNext == FifoInv' => (\A a \in Actors : WaitingFits(a))'
  BY WaitingIs, PTL

\* A step that leaves batches and mailboxes alone, and every worker that has a batch
\* with its actor, leaves what waits as it is.
LEMMA WaitingStays ==
  ASSUME FifoInv, FifoInv', UNCHANGED <<batch, queue>>,
         \A w \in Workers, a \in Actors : batch[w] # << >> => (Owns(w, a)' <=> Owns(w, a)),
         NEW a \in Actors
  PROVE  Waiting(a)' = Waiting(a)
  <1>1. CASE \E w \in Workers : Owns(w, a) /\ batch[w] # << >>
    <2>1. PICK w \in Workers : Owns(w, a) /\ Owns(w, a)'  BY <1>1
    <2>2. Waiting(a) = batch[w] \o queue[a]  BY <2>1, WaitingIs DEF WaitingFits
    <2>3. Waiting(a)' = (batch[w] \o queue[a])'  BY <2>1, WaitingIsNext DEF WaitingFits
    <2> QED  BY <2>2, <2>3
  <1>2. CASE \A w \in Workers : Owns(w, a) => batch[w] = << >>
    <2>1. Waiting(a) = queue[a]  BY <1>2, WaitingIs DEF WaitingFits
    <2>2. \A w \in Workers : Owns(w, a)' => batch'[w] = << >>  BY <1>2
    <2>3. Waiting(a)' = queue'[a]  BY <2>2, WaitingIsNext DEF WaitingFits
    <2> QED  BY <2>1, <2>3
  <1> QED  BY <1>1, <1>2

\* What does not change what waits, does not change the abstract state.
LEMMA SameInbox ==
  ASSUME UNCHANGED executed, \A a \in Actors : Waiting(a)' = Waiting(a)
  PROVE  UNCHANGED Fifo!vars
  <1>1. \A a \in Actors : Pending(a)' = Pending(a)  BY DEF Pending
  <1> QED  BY <1>1 DEF Fifo!vars

\* A task that enters the mailbox arrives; an empty function does nothing.
LEMMA EnqueueArrives ==
  ASSUME FifoInv, FifoInv', NEW p \in Producers, Enqueue(p)
  PROVE  Fifo!Next \/ UNCHANGED Fifo!vars
  <1>1. PICK a \in Actors, x \in Entries :
          /\ queue' = [queue EXCEPT ![a] = Append(queue[a], x)]
          /\ UNCHANGED <<wpc, holds, batch, executed>>
    <2>1. target[p] \in Actors /\ ptask[p] \in Entries
      BY DEF FifoInv, TypeOK, Enqueue, GoP, Entries
    <2>2. /\ queue' = [queue EXCEPT ![target[p]] = Append(queue[target[p]], ptask[p])]
          /\ UNCHANGED <<wpc, holds, batch, executed>>
      BY <2>1 DEF Enqueue, workerVars, FifoInv, TypeOK
    <2> QED  BY <2>1, <2>2
  <1>2. UNCHANGED <<wpc, holds, batch, executed>>  BY <1>1
  <1>3. \A w \in Workers, b \in Actors : Owns(w, b)' <=> Owns(w, b)  BY <1>2 DEF Owns
  <1>4. \A w \in Workers : batch[w] \in Seq(Entries)  BY DEF FifoInv, TypeOK, Entries
  <1>5. /\ queue'[a] = Append(queue[a], x)
        /\ \A b \in Actors : queue[b] \in Seq(Entries) /\ (b # a => queue'[b] = queue[b])
    BY <1>1, <1>2 DEF FifoInv, TypeOK, Entries
  <1>6. ASSUME NEW b \in Actors, b # a PROVE Waiting(b)' = Waiting(b)
    <2>1. CASE \E w \in Workers : Owns(w, b)
      <3>1. PICK w \in Workers : Owns(w, b) /\ Owns(w, b)'  BY <1>3, <2>1
      <3>2. Waiting(b) = batch[w] \o queue[b] /\ Waiting(b)' = batch'[w] \o queue'[b]
        BY <3>1, WaitingIs, WaitingIsNext DEF WaitingFits
      <3> QED  BY <1>2, <1>5, <1>6, <3>2
    <2>2. CASE \A w \in Workers : ~Owns(w, b)
      BY <1>3, <1>5, <1>6, <2>2, WaitingIs, WaitingIsNext DEF WaitingFits
    <2> QED  BY <2>1, <2>2
  <1>7. Waiting(a)' = Append(Waiting(a), x)
    <2>1. CASE \E w \in Workers : Owns(w, a)
      <3>1. PICK w \in Workers : Owns(w, a) /\ Owns(w, a)'  BY <1>3, <2>1
      <3>2. Waiting(a) = batch[w] \o queue[a] /\ Waiting(a)' = batch[w] \o queue'[a]
        BY <1>1, <1>2, <3>1, WaitingIs, WaitingIsNext DEF WaitingFits
      <3>3. batch[w] \o Append(queue[a], x) = Append(batch[w] \o queue[a], x)
        <4>1. \A f, k \in Seq(Entries), y \in Entries : f \o Append(k, y) = Append(f \o k, y)
          BY ConcatAppend
        <4> QED  BY <1>1, <1>4, <1>5, <4>1
      <3> QED  BY <1>5, <3>2, <3>3
    <2>2. CASE \A w \in Workers : ~Owns(w, a)
      BY <1>1, <1>3, <1>5, <2>2, WaitingIs, WaitingIsNext DEF WaitingFits
    <2> QED  BY <2>1, <2>2
  <1>8. Waiting(a) \in Seq(Entries)  BY <1>1, WaitingIs DEF WaitingFits
  <1>9. \A b \in Actors : Pending(b)' = IF b = a /\ x # NoTask THEN Append(Pending(b), x) ELSE Pending(b)
    <2>1. \A b \in Actors : Pending(b) = Kept(Waiting(b)) /\ Pending(b)' = Kept(Waiting(b)')
      BY DEF Pending, Kept
    <2>2. Kept(Append(Waiting(a), x)) = IF x = NoTask THEN Kept(Waiting(a)) ELSE Append(Kept(Waiting(a)), x)
      BY <1>1, <1>8, KeptAppend
    <2> HIDE DEF Kept, Pending
    <2> QED  BY <1>6, <1>7, <2>1, <2>2
  <1>10. CASE x = NoTask  BY <1>2, <1>9, <1>10 DEF Fifo!vars
  <1>11. CASE x # NoTask
    <2>1. x \in Requests  BY <1>1, <1>11 DEF Entries
    <2>2. Fifo!Arrive(a, x)  BY <1>1, <1>2, <1>9, <1>11 DEF Fifo!Arrive
    <2> QED  BY <1>1, <2>1, <2>2 DEF Fifo!Next
  <1> QED  BY <1>10, <1>11

\* PopBatch moves what waits from the mailbox to the batch.
LEMMA PopKeepsWaiting ==
  ASSUME FifoInv, FifoInv', NEW w \in Workers, PopBatch(w), NEW b \in Actors
  PROVE  Waiting(b)' = Waiting(b)
  <1>1. PICK a \in Actors : a = holds[w] /\ Owns(w, a) /\ Owns(w, a)' /\ batch[w] = << >>
    <2>1. wpc[w] = "pop" /\ wpc' = [wpc EXCEPT ![w] = "settle"] /\ UNCHANGED holds
      BY DEF PopBatch, GoW
    <2>2. wpc'[w] = "settle" /\ holds[w] \in Actors /\ batch[w] = << >>
      BY <2>1 DEF FifoInv, TypeOK, BatchInUse
    <2> QED  BY <2>1, <2>2 DEF Owns, Owning
  <1>2. \A x \in Workers : x # w => \A c \in Actors : Owns(x, c)' <=> Owns(x, c)
    BY DEF FifoInv, TypeOK, PopBatch, GoW, Owns, Owning
  <1>3. \A x \in Workers : x # w => batch'[x] = batch[x]  BY DEF FifoInv, TypeOK, PopBatch
  <1>4. \A c \in Actors : c # a => queue'[c] = queue[c] /\ ~Owns(w, c) /\ ~Owns(w, c)'
    BY <1>1 DEF FifoInv, TypeOK, PopBatch, Owns
  <1>5. /\ queue[a] \in Seq(Entries)
        /\ \E n \in 0 .. Len(queue[a]) :
             batch'[w] = SubSeq(queue[a], 1, n) /\ queue'[a] = SubSeq(queue[a], n + 1, Len(queue[a]))
    <2>1. queue[a] \in Seq(Entries) /\ budget[w] \in Nat /\ Len(queue[a]) \in Nat
      <3>1. queue[a] \in Seq(Entries) /\ budget[w] \in Nat  BY DEF FifoInv, TypeOK, Entries
      <3> QED  BY <3>1
    <2> DEFINE n == IF budget[w] < Len(queue[a]) THEN budget[w] ELSE Len(queue[a])
    <2>2. n \in 0 .. Len(queue[a])  BY <2>1
    <2>3. batch'[w] = SubSeq(queue[a], 1, n) /\ queue'[a] = SubSeq(queue[a], n + 1, Len(queue[a]))
      BY <1>1 DEF FifoInv, TypeOK, PopBatch
    <2> QED  BY <2>1, <2>2, <2>3
  <1>6. CASE b = a
    <2>1. Waiting(a)' = batch'[w] \o queue'[a]  BY <1>1, WaitingIsNext DEF WaitingFits
    <2>2. Waiting(a) = << >> \o queue[a]  BY <1>1, WaitingIs DEF WaitingFits
    <2>3. << >> \o queue[a] = queue[a]  BY <1>5
    <2>4. batch'[w] \o queue'[a] = queue[a]  BY <1>5, CutAndJoin
    <2> QED  BY <1>6, <2>1, <2>2, <2>3, <2>4
  <1>7. CASE b # a
    <2>1. \A x \in Workers : Owns(x, b)' <=> Owns(x, b)  BY <1>2, <1>4, <1>7
    <2>2. CASE \E x \in Workers : Owns(x, b)
      <3>1. PICK x \in Workers : x # w /\ Owns(x, b) /\ Owns(x, b)'  BY <1>4, <1>7, <2>1, <2>2
      <3>2. Waiting(b) = batch[x] \o queue[b] /\ Waiting(b)' = batch'[x] \o queue'[b]
        BY <3>1, WaitingIs, WaitingIsNext DEF WaitingFits
      <3> QED  BY <1>3, <1>4, <1>7, <3>1, <3>2
    <2>3. CASE \A x \in Workers : ~Owns(x, b)
      BY <1>4, <1>7, <2>1, <2>3, WaitingIs, WaitingIsNext DEF WaitingFits
    <2> QED  BY <2>2, <2>3
  <1> QED  BY <1>6, <1>7

\* The first task of a batch is the oldest that waits.
LEMMA RunExecutes ==
  ASSUME FifoInv, FifoInv', NEW w \in Workers, RunTask(w)
  PROVE  Fifo!Next \/ UNCHANGED Fifo!vars
  <1>1. PICK a \in Actors, x \in {Head(batch[w])} :
        /\ a = holds[w] /\ Owns(w, a) /\ UNCHANGED <<wpc, holds, queue>>
        /\ batch[w] # << >> /\ batch' = [batch EXCEPT ![w] = Tail(batch[w])]
        /\ executed' = IF x = NoTask THEN executed
                       ELSE [executed EXCEPT ![a] = Append(executed[a], x)]
    BY DEF FifoInv, TypeOK, RunTask, Owns, Owning
  <1>2. batch[w] \in Seq(Entries) /\ queue[a] \in Seq(Entries) /\ x \in Entries
    <2>1. batch[w] \in Seq(Entries) /\ queue[a] \in Seq(Entries)
      BY DEF FifoInv, TypeOK, Entries
    <2> QED  BY <1>1, <2>1
  <1>3. batch'[w] = Tail(batch[w]) /\ \A y \in Workers : y # w => batch'[y] = batch[y]
    BY <1>1 DEF FifoInv, TypeOK
  <1>4. \A y \in Workers, b \in Actors : Owns(y, b)' <=> Owns(y, b)  BY <1>1 DEF Owns
  <1>5. /\ Waiting(a) \in Seq(Entries) /\ Waiting(a) # << >> /\ Head(Waiting(a)) = x
        /\ Waiting(a)' = Tail(Waiting(a))
    <2>1. Waiting(a) = batch[w] \o queue[a] /\ Waiting(a)' = Tail(batch[w]) \o queue[a]
      BY <1>1, <1>3, <1>4, WaitingIs, WaitingIsNext DEF WaitingFits
    <2>2. /\ batch[w] \o queue[a] \in Seq(Entries) /\ batch[w] \o queue[a] # << >>
          /\ Head(batch[w] \o queue[a]) = x /\ Tail(batch[w] \o queue[a]) = Tail(batch[w]) \o queue[a]
      <3>1. \A f, q \in Seq(Entries) : f # << >> =>
              /\ f \o q \in Seq(Entries) /\ f \o q # << >>
              /\ Head(f \o q) = Head(f) /\ Tail(f \o q) = Tail(f) \o q
        BY FirstOfConcat
      <3> QED  BY <1>1, <1>2, <3>1
    <2> QED  BY <2>1, <2>2
  <1>6. ASSUME NEW b \in Actors, b # a PROVE Waiting(b)' = Waiting(b)
    <2>1. ~Owns(w, b)  BY <1>1, <1>6 DEF Owns
    <2>2. CASE \E y \in Workers : Owns(y, b)
      <3>1. PICK y \in Workers : y # w /\ Owns(y, b) /\ Owns(y, b)'  BY <1>4, <2>1, <2>2
      <3>2. Waiting(b) = batch[y] \o queue[b] /\ Waiting(b)' = batch'[y] \o queue'[b]
        BY <3>1, WaitingIs, WaitingIsNext DEF WaitingFits
      <3> QED  BY <1>1, <1>3, <3>1, <3>2
    <2>3. CASE \A y \in Workers : ~Owns(y, b)
      BY <1>1, <1>4, <2>3, WaitingIs, WaitingIsNext DEF WaitingFits
    <2> QED  BY <2>2, <2>3
  <1>7. \A b \in Actors : Pending(b) = Kept(Waiting(b)) /\ Pending(b)' = Kept(Waiting(b)')
    BY DEF Pending, Kept
  <1>8. Pending(a) = IF x = NoTask THEN Kept(Tail(Waiting(a))) ELSE <<x>> \o Kept(Tail(Waiting(a)))
    BY <1>1, <1>5, <1>7, KeptTail
  <1>9. Pending(a)' = Kept(Tail(Waiting(a)))  BY <1>1, <1>5, <1>7
  <1>10. \A b \in Actors : b # a => Pending(b)' = Pending(b)
    <2> HIDE DEF Kept, Pending
    <2> QED  BY <1>6, <1>7
  <1> HIDE DEF Pending, Kept
  <1>11. CASE x = NoTask
    <2>1. \A b \in Actors : Pending(b)' = Pending(b)  BY <1>8, <1>9, <1>10, <1>11
    <2> QED  BY <1>1, <1>11, <2>1 DEF Fifo!vars
  <1>12. CASE x # NoTask
    <2>1. Pending(a)' \in Seq(Requests)
      <3>1. Tail(Waiting(a)) \in Seq(Entries) /\ Len(Tail(Waiting(a))) \in 0 .. Len(Tail(Waiting(a)))
        BY <1>5
      <3> QED  BY <1>9, <3>1, KeptType DEF Kept
    <2>2. Pending(a) = <<x>> \o Pending(a)'  BY <1>8, <1>9, <1>12
    <2>3. x \in Requests  BY <1>2, <1>12 DEF Entries
    <2>4. Pending(a) # << >> /\ Head(Pending(a)) = x /\ Tail(Pending(a)) = Pending(a)'
      BY <2>1, <2>2, <2>3, ConsFacts
    <2>5. Fifo!Execute(a)  BY <1>1, <1>10, <1>12, <2>4 DEF Fifo!Execute
    <2> QED  BY <1>1, <2>5 DEF Fifo!Next
  <1> QED  BY <1>11, <1>12

\* Every step of the scheduler is a step of the inboxes, or none.
LEMMA FifoStep ==
  ASSUME FifoInv, FifoInv', [Next]_vars
  PROVE  Fifo!Next \/ UNCHANGED Fifo!vars
  <1>1. ASSUME NEW p \in Producers, StartRequest(p) \/ Post(p)
        PROVE  Fifo!Next \/ UNCHANGED Fifo!vars
    <2>1. CASE Enqueue(p)  BY <2>1, EnqueueArrives
    <2>2. CASE ~Enqueue(p)
      <3>1. UNCHANGED <<queue, batch, wpc, holds, executed>>
        BY <1>1, <2>2 DEF StartRequest, Post, RejectOverloaded, Dispatch, PushRefused, PushAdmitted,
           Count, WakeClaims, WakeTooLate, Schedule, workerVars
      <3>2. \A w \in Workers, a \in Actors : Owns(w, a)' <=> Owns(w, a)  BY <3>1 DEF Owns
      <3> QED  BY <3>1, <3>2, WaitingStays, SameInbox
    <2> QED  BY <2>1, <2>2
  <1>2. ASSUME NEW w \in Workers, Worker(w) \/ Flush(w)
        PROVE  Fifo!Next \/ UNCHANGED Fifo!vars
    <2>1. CASE RunTask(w)  BY <2>1, RunExecutes
    <2>2. CASE PopBatch(w)
      <3>1. UNCHANGED executed  BY <2>2 DEF PopBatch
      <3> QED  BY <2>2, <3>1, PopKeepsWaiting, SameInbox
    <2>3. CASE ~RunTask(w) /\ ~PopBatch(w)
      <3>1. UNCHANGED <<queue, batch, executed>>
        BY <1>2, <2>3 DEF Worker, Process, TrySteal, TakeLocal, LocalEmpty, StealFrom, StealMiss,
           WaitTimedOut, MeasureBacklog, Settle, Release, Flush, RecheckEmpty, RecheckMore,
           RearmClaims, RearmTooLate, Reenlist
      <3>2. \A x \in Workers, a \in Actors : batch[x] # << >> => (Owns(x, a)' <=> Owns(x, a))
        <4> USE DEF FifoInv, TypeOK, BatchInUse, Owns, Owning, GoW
        <4>1. CASE TakeLocal(w)  BY <4>1 DEF TakeLocal, TakeFrom
        <4>2. CASE LocalEmpty(w)  BY <4>2 DEF LocalEmpty
        <4>3. CASE TrySteal(w)
          <5>1. PICK v \in Workers : StealFrom(w, v) \/ StealMiss(w, v)  BY <4>3 DEF TrySteal
          <5>2. CASE StealFrom(w, v)
            <6>1. batch[w] = << >> /\ \A x \in Workers : x # w => wpc'[x] = wpc[x] /\ holds'[x] = holds[x]
              BY <5>2 DEF StealFrom, TakeFrom
            <6> QED  BY <6>1
          <5>3. CASE StealMiss(w, v)  BY <5>3 DEF StealMiss
          <5> QED  BY <5>1, <5>2, <5>3
        <4>4. CASE WaitTimedOut(w)  BY <4>4 DEF WaitTimedOut
        <4>5. CASE MeasureBacklog(w)  BY <4>5 DEF MeasureBacklog
        <4>6. CASE Settle(w)  BY <4>6 DEF Settle
        <4>7. CASE Release(w)  BY <4>7 DEF Release
        <4>8. CASE Flush(w)  BY <4>8 DEF Flush
        <4>9. CASE RecheckEmpty(w) \/ RecheckMore(w)  BY <4>9 DEF RecheckEmpty, RecheckMore
        <4>10. CASE RearmClaims(w) \/ RearmTooLate(w)
          <5>1. \A x \in Workers : x # w => wpc'[x] = wpc[x] /\ holds'[x] = holds[x]
            <6>1. CASE RearmClaims(w)  BY <6>1 DEF RearmClaims
            <6>2. CASE RearmTooLate(w)  BY <6>2 DEF RearmTooLate
            <6> QED  BY <4>10, <6>1, <6>2
          <5>2. batch[w] = << >>
            <6>1. wpc[w] = "rearm"  BY <4>10 DEF RearmClaims, RearmTooLate
            <6> QED  BY <6>1
          <5> QED  BY <5>1, <5>2
        <4>11. CASE Reenlist(w)  BY <4>11 DEF Reenlist
        <4> QED  BY <1>2, <2>3, <4>1, <4>2, <4>3, <4>4, <4>5, <4>6, <4>7, <4>8, <4>9, <4>10, <4>11
                 DEF Worker, Process
      <3> QED  BY <3>1, <3>2, WaitingStays, SameInbox
    <2> QED  BY <2>1, <2>2, <2>3
  <1>3. CASE UNCHANGED vars
    <2>1. UNCHANGED <<queue, batch, wpc, holds, executed>>  BY <1>3 DEF vars, workerVars
    <2>2. \A w \in Workers, a \in Actors : Owns(w, a)' <=> Owns(w, a)  BY <2>1 DEF Owns
    <2> QED  BY <2>1, <2>2, WaitingStays, SameInbox
  <1> QED  BY <1>1, <1>2, <1>3 DEF Next

\* The scheduler implements FifoInbox: whichever workers run an actor, and however
\* late their releases are seen, its tasks are executed once each and in the order
\* in which they entered its mailbox.
THEOREM TasksRunInOrder == Spec => ImplementsFifo
  <1>1. Init => BatchInUse  BY DEF Init, BatchInUse
  <1>2. Init /\ FifoInv => Fifo!Init
    <2> SUFFICES ASSUME Init, FifoInv PROVE Fifo!Init  OBVIOUS
    <2>1. \A a \in Actors : Waiting(a) = << >>
      <3>1. \A a \in Actors : queue[a] = << >> /\ \A w \in Workers : batch[w] = << >>  BY DEF Init
      <3> QED  BY <3>1, WaitingIs DEF WaitingFits
    <2>2. \A a \in Actors : Pending(a) = << >>  BY <2>1, KeptEmpty DEF Pending, Kept
    <2> QED  BY <2>2 DEF Init, Fifo!Init
  <1>3. TypeOK /\ BatchInUse /\ [Next]_vars => BatchInUse'  BY BatchStep
  <1>4. FifoInv /\ FifoInv' /\ [Next]_vars => [Fifo!Next]_(Fifo!vars)
    BY FifoStep
  <1>5. TypeOK /\ OneClaim /\ BatchInUse => FifoInv  BY DEF FifoInv
  <1> QED
    BY <1>1, <1>2, <1>3, <1>4, <1>5, TypeCorrect, ClaimsCorrect, PTL DEF Spec, ImplementsFifo, Fifo!Spec
=============================================================================
