--------------------------- MODULE ActorScheduler ---------------------------
(* How a request becomes a task of its player's actor and gets executed:      *)
(* MessageDispatcher::Dispatch, Actor::Post, Actor::Process, and the sharded   *)
(* worker pool ActorSystem.  The mailbox is a sequence here; module Mailbox    *)
(* shows that the linked list behaves like it.                                *)
(*                                                                            *)
(* All accesses are sequentially consistent but one: with WeakStores the       *)
(* release store is_scheduled_ = false may wait in the worker's store buffer  *)
(* until the worker's next locked instruction, as on every x86 processor.     *)
EXTENDS Integers, Sequences, FiniteSets

CONSTANTS
  Actors, Producers,   \* the players' actors, the network threads
  Workers,             \* the worker threads; worker w owns shard w
  Home,                \* the shard of each actor: routing key % shards
  SoftLimit,           \* kMailboxSoftLimit (256)
  MaxMailbox,          \* Mailbox::MAX_MAILBOX (2048)
  MaxReady,            \* MAX_QUEUE_SIZE (10000)
  BudgetUnit,          \* 64, the smallest budget of a worker
  WeakStores,          \* is the release store buffered?
  MaxPosts,            \* bound: requests per producer
  None, NoTask         \* null pointer, empty std::function

ASSUME SchedulerAssumption ==
  /\ Home \in [Actors -> Workers]
  /\ SoftLimit \in Nat \ {0} /\ MaxMailbox \in Nat \ {0} /\ MaxReady \in Nat
  /\ BudgetUnit \in Nat \ {0} /\ MaxPosts \in Nat
  /\ WeakStores \in BOOLEAN
  /\ None \notin Actors
  /\ NoTask \notin Producers \X (1 .. MaxPosts)

ASSUME ThreadsAssumption == IsFiniteSet(Producers)

\* The n-th request that producer p receives.
Requests == Producers \X (1 .. MaxPosts)

VARIABLES
  scheduled, size, queue,          \* each actor: is_scheduled_, approx_size_, its tasks
  ready,                           \* each shard: ready_queue
  ppc, target, ptask, wasEmpty,    \* each producer: where it is, and its locals
  wpc, holds, budget, batch,       \* each worker: where it is, and its locals
  victims,                         \* each worker: shards it has still to try in TrySteal
  buffered,                        \* each worker: actor whose release is in the store buffer
  received,                        \* each producer: requests received so far
  executed, busy, lost             \* history: executed, refused with an answer, dropped

producerVars == <<ppc, target, ptask, wasEmpty, received, busy, lost>>
workerVars == <<wpc, holds, budget, batch, victims, buffered, executed>>
vars == <<scheduled, size, queue, ready, producerVars, workerVars>>

Init ==
  /\ scheduled = [a \in Actors |-> FALSE]
  /\ size = [a \in Actors |-> 0]
  /\ queue = [a \in Actors |-> << >>]
  /\ ready = [w \in Workers |-> << >>]
  /\ ppc = [p \in Producers |-> "idle"]
  /\ target = [p \in Producers |-> None]
  /\ ptask = [p \in Producers |-> NoTask]
  /\ wasEmpty = [p \in Producers |-> FALSE]
  /\ wpc = [w \in Workers |-> "poll"]
  /\ holds = [w \in Workers |-> None]
  /\ budget = [w \in Workers |-> 0]
  /\ batch = [w \in Workers |-> << >>]
  /\ victims = [w \in Workers |-> {}]
  /\ buffered = [w \in Workers |-> None]
  /\ received = [p \in Producers |-> 0]
  /\ executed = [a \in Actors |-> << >>]
  /\ busy = {} /\ lost = {}

\* Mutant: the flag is set whatever it was.
Claim_Always(a) == scheduled' = [scheduled EXCEPT ![a] = TRUE]

\* TrySchedule: the compare-and-exchange of is_scheduled_ succeeds.
Claim(a) == ~scheduled[a] /\ scheduled' = [scheduled EXCEPT ![a] = TRUE]

\* Schedule: the actor joins its shard's ready queue, unless the queue is too
\* long; then the request to schedule is dropped and the flag stays set.
Enlist(a) ==
  LET shard == Home[a]
  IN  \/ Len(ready[shard]) > MaxReady /\ UNCHANGED ready
      \/ /\ Len(ready[shard]) <= MaxReady
         /\ ready' = [ready EXCEPT ![shard] = Append(@, a)]

-----------------------------------------------------------------------------
(* A network thread: Dispatch and Post *)

GoP(p, from, to) == ppc[p] = from /\ ppc' = [ppc EXCEPT ![p] = to]

\* The next request received by p.
Request(p) == <<p, received[p] + 1>>

Receive(p) == /\ ppc[p] = "idle" /\ received[p] < MaxPosts
              /\ received' = [received EXCEPT ![p] = @ + 1]

\* The mailbox is over the soft limit: the client is answered "Server busy".
RejectOverloaded(p, a) ==
  /\ Receive(p) /\ size[a] >= SoftLimit
  /\ busy' = busy \cup {Request(p)}
  /\ UNCHANGED <<scheduled, size, queue, ready, ppc, target, ptask, wasEmpty, lost, workerVars>>

\* Mutant: no soft limit.
Dispatch_NoLimit(p, a) ==
  /\ Receive(p)
  /\ ppc' = [ppc EXCEPT ![p] = "push"]
  /\ target' = [target EXCEPT ![p] = a]
  /\ ptask' = [ptask EXCEPT ![p] = Request(p)]
  /\ UNCHANGED <<scheduled, size, queue, ready, wasEmpty, busy, lost, workerVars>>

\* The handler of the request becomes a task to post.
Dispatch(p, a) ==
  /\ Receive(p) /\ size[a] < SoftLimit
  /\ ppc' = [ppc EXCEPT ![p] = "push"]
  /\ target' = [target EXCEPT ![p] = a]
  /\ ptask' = [ptask EXCEPT ![p] = Request(p)]
  /\ UNCHANGED <<scheduled, size, queue, ready, wasEmpty, busy, lost, workerVars>>

\* The push is refused and will be tried again; but the task was moved into
\* the call's argument, and what is tried again is an empty function.
PushRefused(p) ==
  /\ ppc[p] = "push" /\ size[target[p]] >= MaxMailbox
  /\ ptask' = [ptask EXCEPT ![p] = NoTask]
  /\ lost' = lost \cup ({ptask[p]} \ {NoTask})
  /\ UNCHANGED <<scheduled, size, queue, ready, ppc, target, wasEmpty, received, busy, workerVars>>

PushAdmitted(p) ==
  /\ GoP(p, "push", "count") /\ size[target[p]] < MaxMailbox
  /\ UNCHANGED <<scheduled, size, queue, ready, target, ptask, wasEmpty, received, busy, lost,
                 workerVars>>

\* The fetch_add of approx_size_, whose old value says who wakes the actor.
Count(p) ==
  /\ GoP(p, "count", "enqueue")
  /\ size' = [size EXCEPT ![target[p]] = @ + 1]
  /\ wasEmpty' = [wasEmpty EXCEPT ![p] = size[target[p]] = 0]
  /\ UNCHANGED <<scheduled, queue, ready, target, ptask, received, busy, lost, workerVars>>

\* Mutant: the task goes to the front of the queue.
Enqueue_AtFront(p) ==
  /\ GoP(p, "enqueue", IF wasEmpty[p] THEN "wake" ELSE "idle")
  /\ queue' = [queue EXCEPT ![target[p]] = <<ptask[p]>> \o @]
  /\ ptask' = [ptask EXCEPT ![p] = NoTask]
  /\ UNCHANGED <<scheduled, size, ready, target, wasEmpty, received, busy, lost, workerVars>>

Enqueue(p) ==
  /\ GoP(p, "enqueue", IF wasEmpty[p] THEN "wake" ELSE "idle")
  /\ queue' = [queue EXCEPT ![target[p]] = Append(@, ptask[p])]
  /\ ptask' = [ptask EXCEPT ![p] = NoTask]
  /\ UNCHANGED <<scheduled, size, ready, target, wasEmpty, received, busy, lost, workerVars>>

\* Only the post that found the mailbox empty tries to schedule the actor.
WakeClaims(p) ==
  /\ GoP(p, "wake", "schedule") /\ Claim(target[p])
  /\ UNCHANGED <<size, queue, ready, target, ptask, wasEmpty, received, busy, lost, workerVars>>

WakeTooLate(p) ==
  /\ GoP(p, "wake", "idle") /\ scheduled[target[p]]
  /\ UNCHANGED <<scheduled, size, queue, ready, target, ptask, wasEmpty, received, busy, lost,
                 workerVars>>

Schedule(p) ==
  /\ GoP(p, "schedule", "idle") /\ Enlist(target[p])
  /\ UNCHANGED <<scheduled, size, queue, target, ptask, wasEmpty, received, busy, lost,
                 workerVars>>

-----------------------------------------------------------------------------
(* A worker thread: Worker, TrySteal and Process *)

GoW(w, from, to) == wpc[w] = from /\ wpc' = [wpc EXCEPT ![w] = to]

\* Where a worker has the right to run, or to enlist, the actor it holds.
Owning == {"measure", "pop", "settle", "run", "reenlist"}

\* A locked instruction waits until the worker's store buffer is empty.
Drained(w) == buffered[w] = None

\* TryPop: the worker takes the first actor of a shard's ready queue.
TakeFrom(w, shard) ==
  /\ ready[shard] # << >>
  /\ holds' = [holds EXCEPT ![w] = Head(ready[shard])]
  /\ ready' = [ready EXCEPT ![shard] = Tail(@)]

TakeLocal(w) ==
  /\ GoW(w, "poll", "measure") /\ Drained(w) /\ TakeFrom(w, w)
  /\ UNCHANGED <<scheduled, size, queue, producerVars, budget, batch, victims, buffered, executed>>

\* The own shard is empty: try the others, in an order that starts at random.
LocalEmpty(w) ==
  /\ GoW(w, "poll", "steal") /\ Drained(w) /\ ready[w] = << >>
  /\ victims' = [victims EXCEPT ![w] = Workers \ {w}]
  /\ UNCHANGED <<scheduled, size, queue, ready, producerVars, holds, budget, batch, buffered,
                 executed>>

StealFrom(w, v) ==
  /\ GoW(w, "steal", "measure") /\ v \in victims[w] /\ TakeFrom(w, v)
  /\ victims' = [victims EXCEPT ![w] = {}]
  /\ UNCHANGED <<scheduled, size, queue, producerVars, budget, batch, buffered, executed>>

StealMiss(w, v) ==
  /\ wpc[w] = "steal" /\ v \in victims[w] /\ ready[v] = << >>
  /\ victims' = [victims EXCEPT ![w] = @ \ {v}]
  /\ UNCHANGED <<scheduled, size, queue, ready, producerVars, wpc, holds, budget, batch, buffered,
                 executed>>

\* Nothing to steal: the worker waits, at most a millisecond, and polls again.
WaitTimedOut(w) ==
  /\ GoW(w, "steal", "poll") /\ victims[w] = {}
  /\ UNCHANGED <<scheduled, size, queue, ready, producerVars, holds, budget, batch, victims,
                 buffered, executed>>

\* The longer the mailbox, the larger the batch: 64, 128, 256 or 512 tasks.
BudgetFor(pending) ==
  IF pending >= 8 * BudgetUnit THEN 8 * BudgetUnit
  ELSE IF pending >= 2 * BudgetUnit THEN 4 * BudgetUnit
  ELSE IF pending >= BudgetUnit THEN 2 * BudgetUnit
  ELSE BudgetUnit

MeasureBacklog(w) ==
  /\ GoW(w, "measure", "pop")
  /\ budget' = [budget EXCEPT ![w] = BudgetFor(size[holds[w]])]
  /\ UNCHANGED <<scheduled, size, queue, ready, producerVars, holds, batch, victims, buffered,
                 executed>>

\* PopBatch: as many tasks as there are, up to the budget.
PopBatch(w) ==
  LET a == holds[w]
      n == IF budget[w] < Len(queue[a]) THEN budget[w] ELSE Len(queue[a])
  IN  /\ GoW(w, "pop", "settle")
      /\ batch' = [batch EXCEPT ![w] = SubSeq(queue[a], 1, n)]
      /\ queue' = [queue EXCEPT ![a] = SubSeq(@, n + 1, Len(@))]
      /\ UNCHANGED <<scheduled, size, ready, producerVars, holds, budget, victims, buffered,
                     executed>>

\* The fetch_sub at the end of PopBatch.
Settle(w) ==
  /\ GoW(w, "settle", "run")
  /\ size' = [size EXCEPT ![holds[w]] = @ - Len(batch[w])]
  /\ UNCHANGED <<scheduled, queue, ready, producerVars, holds, budget, batch, victims, buffered,
                 executed>>

\* One task of the batch is executed; an empty function is skipped.
RunTask(w) ==
  /\ wpc[w] = "run" /\ batch[w] # << >>
  /\ batch' = [batch EXCEPT ![w] = Tail(@)]
  /\ executed' = IF Head(batch[w]) = NoTask THEN executed
                 ELSE [executed EXCEPT ![holds[w]] = Append(@, Head(batch[w]))]
  /\ UNCHANGED <<scheduled, size, queue, ready, producerVars, wpc, holds, budget, victims, buffered>>

\* SetScheduled(false).  A buffered store reaches memory later, by Flush.
Release(w) ==
  /\ GoW(w, "run", "recheck") /\ batch[w] = << >>
  /\ \/ WeakStores /\ buffered' = [buffered EXCEPT ![w] = holds[w]] /\ UNCHANGED scheduled
     \/ /\ ~WeakStores
        /\ scheduled' = [scheduled EXCEPT ![holds[w]] = FALSE] /\ UNCHANGED buffered
  /\ UNCHANGED <<size, queue, ready, producerVars, holds, budget, batch, victims, executed>>

Flush(w) ==
  /\ buffered[w] # None
  /\ scheduled' = [scheduled EXCEPT ![buffered[w]] = FALSE]
  /\ buffered' = [buffered EXCEPT ![w] = None]
  /\ UNCHANGED <<size, queue, ready, producerVars, wpc, holds, budget, batch, victims, executed>>

\* Mutant: the mailbox is not looked at again after the release.
RecheckEmpty_Never(w) ==
  /\ GoW(w, "recheck", "poll")
  /\ holds' = [holds EXCEPT ![w] = None]
  /\ UNCHANGED <<scheduled, size, queue, ready, producerVars, budget, batch, victims, buffered,
                 executed>>

\* HasMoreTasks, a plain load, decides whether to try to schedule again.
RecheckEmpty(w) ==
  /\ GoW(w, "recheck", "poll") /\ size[holds[w]] <= 0
  /\ holds' = [holds EXCEPT ![w] = None]
  /\ UNCHANGED <<scheduled, size, queue, ready, producerVars, budget, batch, victims, buffered,
                 executed>>

RecheckMore(w) ==
  /\ GoW(w, "recheck", "rearm") /\ size[holds[w]] > 0
  /\ UNCHANGED <<scheduled, size, queue, ready, producerVars, holds, budget, batch, victims,
                 buffered, executed>>

RearmClaims(w) ==
  /\ GoW(w, "rearm", "reenlist") /\ Drained(w) /\ Claim(holds[w])
  /\ UNCHANGED <<size, queue, ready, producerVars, holds, budget, batch, victims, buffered,
                 executed>>

RearmTooLate(w) ==
  /\ GoW(w, "rearm", "poll") /\ Drained(w) /\ scheduled[holds[w]]
  /\ holds' = [holds EXCEPT ![w] = None]
  /\ UNCHANGED <<scheduled, size, queue, ready, producerVars, budget, batch, victims, buffered,
                 executed>>

\* Mutant: the actor is claimed again but not enlisted.
Reenlist_Forgotten(w) ==
  /\ GoW(w, "reenlist", "poll")
  /\ holds' = [holds EXCEPT ![w] = None]
  /\ UNCHANGED <<scheduled, size, queue, ready, producerVars, budget, batch, victims, buffered,
                 executed>>

Reenlist(w) ==
  /\ GoW(w, "reenlist", "poll") /\ Enlist(holds[w])
  /\ holds' = [holds EXCEPT ![w] = None]
  /\ UNCHANGED <<scheduled, size, queue, producerVars, budget, batch, victims, buffered, executed>>

-----------------------------------------------------------------------------
StartRequest(p) == \E a \in Actors : RejectOverloaded(p, a) \/ Dispatch(p, a)

Post(p) == \/ PushRefused(p) \/ PushAdmitted(p) \/ Count(p) \/ Enqueue(p)
           \/ WakeClaims(p) \/ WakeTooLate(p) \/ Schedule(p)

TrySteal(w) == \E v \in Workers : StealFrom(w, v) \/ StealMiss(w, v)

Process(w) == \/ PopBatch(w) \/ Settle(w) \/ RunTask(w) \/ Release(w)
              \/ RecheckEmpty(w) \/ RecheckMore(w)
              \/ RearmClaims(w) \/ RearmTooLate(w) \/ Reenlist(w)

Worker(w) == \/ TakeLocal(w) \/ LocalEmpty(w) \/ TrySteal(w) \/ WaitTimedOut(w)
             \/ MeasureBacklog(w) \/ Process(w)

Next == \/ \E p \in Producers : StartRequest(p) \/ Post(p)
        \/ \E w \in Workers : Worker(w) \/ Flush(w)

Spec == Init /\ [][Next]_vars

\* No thread is suspended for ever; nothing makes a client send a request.
FairSpec == /\ Spec
            /\ \A p \in Producers : WF_vars(Post(p))
            /\ \A w \in Workers : WF_vars(Worker(w)) /\ WF_vars(Flush(w))
-----------------------------------------------------------------------------
(* What the scheduler must do *)

\* The variables keep their types.
TypeOK ==
  /\ scheduled \in [Actors -> BOOLEAN]
  /\ size \in [Actors -> Int]
  /\ queue \in [Actors -> Seq(Requests \cup {NoTask})]
  /\ ready \in [Workers -> Seq(Actors)]
  /\ ppc \in [Producers -> {"idle", "push", "count", "enqueue", "wake", "schedule"}]
  /\ target \in [Producers -> Actors \cup {None}]
  /\ \A p \in Producers : ppc[p] # "idle" => target[p] \in Actors
  /\ ptask \in [Producers -> Requests \cup {NoTask}]
  /\ wasEmpty \in [Producers -> BOOLEAN]
  /\ received \in [Producers -> 0 .. MaxPosts]
  /\ wpc \in [Workers -> {"poll", "steal"} \cup Owning \cup {"recheck", "rearm"}]
  /\ holds \in [Workers -> Actors \cup {None}]
  /\ \A w \in Workers : wpc[w] \notin {"poll", "steal"} => holds[w] \in Actors
  /\ budget \in [Workers -> Nat]
  /\ batch \in [Workers -> Seq(Requests \cup {NoTask})]
  /\ victims \in [Workers -> SUBSET Workers]
  /\ buffered \in [Workers -> Actors \cup {None}]
  /\ executed \in [Actors -> Seq(Requests)]
  /\ busy \subseteq Requests /\ lost \subseteq Requests

\* Worker w has the right to run the actor.
Owns(w, a) == wpc[w] \in Owning /\ holds[w] = a

\* Two workers never run the same actor at once: the handlers of one player
\* never overlap, which is why players' data need no lock.
OneRunner == \A a \in Actors : \A v, w \in Workers : Owns(v, a) /\ Owns(w, a) => v = w

\* Producer p has set is_scheduled_ and has still to enlist the actor.
WillEnlist(p, a) == ppc[p] = "schedule" /\ target[p] = a

\* The actor stands in a ready queue.
Enlisted(a) == \E w \in Workers : \E i \in DOMAIN ready[w] : ready[w][i] = a

\* Someone will bring the actor to a worker.
InHand(a) == \/ Enlisted(a)
             \/ \E w \in Workers : Owns(w, a)
             \/ \E p \in Producers : WillEnlist(p, a)

\* Someone has still to look at is_scheduled_ because the mailbox is not empty.
WillWake(a) ==
  \/ \E p \in Producers : /\ target[p] = a
                          /\ \/ ppc[p] = "enqueue" /\ wasEmpty[p]
                             \/ ppc[p] = "wake"
  \/ \E w \in Workers : holds[w] = a /\ wpc[w] \in {"recheck", "rearm"}

\* Worker w holds the claim on the actor: it may run it, or has let go of it with
\* the store still in its buffer.
HasClaim(w, a) == Owns(w, a) \/ buffered[w] = a

\* A store stays in the buffer no longer than until the next locked instruction.
BufferDrains == \A w \in Workers : buffered[w] # None => wpc[w] \in {"poll", "recheck", "rearm"}

ClaimNeedsFlag == \A a \in Actors :
  InHand(a) \/ (\E w \in Workers : HasClaim(w, a)) => scheduled[a]

ClaimIsUnique == \A a \in Actors :
  /\ \A v, w \in Workers : HasClaim(v, a) /\ HasClaim(w, a) => v = w
  /\ \A p, q \in Producers : WillEnlist(p, a) /\ WillEnlist(q, a) => p = q
  /\ \A w \in Workers, p \in Producers : ~(HasClaim(w, a) /\ WillEnlist(p, a))
  /\ Enlisted(a) => /\ \A w \in Workers : ~HasClaim(w, a)
                    /\ \A p \in Producers : ~WillEnlist(p, a)

\* No actor stands twice in the ready queues.
PlacesDistinct == \A v, w \in Workers : \A i \in DOMAIN ready[v], j \in DOMAIN ready[w] :
  ready[v][i] = ready[w][j] => v = w /\ i = j

\* is_scheduled_ is a lock that changes hands.  At most one worker, producer or
\* place in the ready queues has the claim on an actor, and only while the flag
\* is set: this is why nobody else can run the actor, buffered stores included.
OneClaim == BufferDrains /\ ClaimNeedsFlag /\ ClaimIsUnique /\ PlacesDistinct

\* An actor whose flag is set is enlisted, being run or about to be enlisted:
\* a flag left set with no one to act on it would silence the player for ever.
\* It needs ready queues that are never full (ActorSystem.cpp:57-62).
NoOrphan == \A a \in Actors :
  scheduled[a] => InHand(a) \/ \E w \in Workers : buffered[w] = a

\* A mailbox that is not empty is always somebody's business (Actor.cpp:44).
NoLostWakeup == \A a \in Actors : size[a] > 0 => InHand(a) \/ WillWake(a)

\* Producers of actor a that are at one of the given places.
Posting(a, places) == {p \in Producers : target[p] = a /\ ppc[p] \in places}

\* The soft limit is checked before the increment, so a mailbox may pass it, but
\* only by one request for each other network thread.
SoftLimitBound == \A a \in Actors :
  size[a] + Cardinality(Posting(a, {"push", "count"})) <= SoftLimit + Cardinality(Producers) - 1

\* No request disappears: it is executed or answered (Actor.cpp:11).
NoSilentDrop == lost = {}

\* The tasks of a sequence without the empty functions, up to each place (a function,
\* and not SelectSeq, so that there are theorems about it).
Keep(s) ==
  LET keep[i \in 0 .. Len(s)] ==
        IF i = 0 THEN << >>
        ELSE IF s[i] = NoTask THEN keep[i - 1] ELSE Append(keep[i - 1], s[i])
  IN  keep

\* What is left of actor a's batch, then its mailbox.
Waiting(a) ==
  LET owners == {w \in Workers : Owns(w, a)}
  IN  (IF owners = {} THEN << >> ELSE batch[CHOOSE w \in owners : TRUE]) \o queue[a]

\* Every actor executes its tasks once each, in the order in which they entered
\* its mailbox, whichever workers ran it.
Pending(a) == Keep(Waiting(a))[Len(Waiting(a))]
Fifo == INSTANCE FifoInbox WITH
          Tasks <- Requests, inbox <- [a \in Actors |-> Pending(a)]
ImplementsFifo == Fifo!Spec

\* The requests received so far that are executed, and those that are not.
Executed == {t \in Requests : \E a \in Actors : \E i \in DOMAIN executed[a] : executed[a][i] = t}
Unanswered == {t \in Requests : t[2] <= received[t[1]]} \ (Executed \cup busy)

\* The server catches up with its clients, who send finitely many requests
\* (MaxPosts): each one is executed or refused in the end.  The empty-to-nonempty
\* rule, the check after the release and the stealing lose no actor.
EveryRequestRuns == []<>(Unanswered = {})
=============================================================================
