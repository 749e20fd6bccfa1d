------------------------------ MODULE SaveQueue ------------------------------
(* The sharded queue of database tasks and its workers (SaveQueue, DBWorker,   *)
(* DBWorkerPool).  Each shard has one worker; the pool is stopped by sending   *)
(* every worker in turn a null task and joining it.  A worker that gets no     *)
(* MySQL connection puts its batch back at the end of the queue.              *)
EXTENDS Integers, Sequences, FiniteSets, Functions

CONSTANTS NumShards,    \* SHARD_COUNT (32), and so many workers
          MaxTasks,     \* bound: tasks pushed to one shard
          MaxBatch,     \* kMaxBatchSize (32)
          MaxFailures   \* bound: how often no connection can be acquired

ASSUME QueueAssumption ==
  /\ NumShards \in Nat \ {0} /\ MaxTasks \in Nat /\ MaxBatch \in Nat \ {0}
  /\ MaxFailures \in Nat

Shards == 1 .. NumShards
Tasks == 1 .. MaxTasks   \* the tasks of a shard are numbered as they are pushed
Pill == 0                \* the null task that ends a worker

VARIABLES queue,     \* each shard's queue
          wpc,       \* where each worker is
          batch,     \* the part of its batch each worker has not handled yet
          pushed,    \* each shard: tasks pushed so far
          done,      \* each shard: tasks executed, in order
          failures,  \* failed acquisitions so far
          stopper    \* the pool's Stop: 0 not called, i pushing worker i's pill,
                     \* -i joining worker i, NumShards + 1 returned

VARIABLE promised    \* history: tasks pushed to a shard before its pill

vars == <<queue, wpc, batch, pushed, done, failures, stopper, promised>>

Init == /\ queue = [s \in Shards |-> << >>]
        /\ wpc = [s \in Shards |-> "wait"]
        /\ batch = [s \in Shards |-> << >>]
        /\ pushed = [s \in Shards |-> 0]
        /\ done = [s \in Shards |-> << >>]
        /\ failures = 0 /\ stopper = 0
        /\ promised = [s \in Shards |-> 0]

\* Mutant: the task is put at the front.
Put_AtFront(s, t) == queue' = [queue EXCEPT ![s] = <<t>> \o @]

\* PushToShard, and Push once the shard is known.
Put(s, t) == queue' = [queue EXCEPT ![s] = Append(@, t)]

\* Any thread pushes a save of a player whose id belongs to the shard.
Push(s) ==
  /\ pushed[s] < MaxTasks
  /\ pushed' = [pushed EXCEPT ![s] = @ + 1]
  /\ Put(s, pushed'[s])
  /\ UNCHANGED <<wpc, batch, done, failures, stopper, promised>>

-----------------------------------------------------------------------------
(* DBWorker::Run *)

GoW(s, from, to) == wpc[s] = from /\ wpc' = [wpc EXCEPT ![s] = to]

\* The worker sleeps until there is something, then takes up to MaxBatch.
PopBatch(s) ==
  LET n == IF MaxBatch < Len(queue[s]) THEN MaxBatch ELSE Len(queue[s])
  IN  /\ GoW(s, "wait", "acquire") /\ queue[s] # << >>
      /\ batch' = [batch EXCEPT ![s] = SubSeq(queue[s], 1, n)]
      /\ queue' = [queue EXCEPT ![s] = SubSeq(@, n + 1, Len(@))]
      /\ UNCHANGED <<pushed, done, failures, stopper, promised>>

AcquireOk(s) ==
  /\ GoW(s, "acquire", "run")
  /\ UNCHANGED <<queue, batch, pushed, done, failures, stopper, promised>>

\* Mutant: the worker thread ends when it gets no connection.
AcquireFails_Ends(s) ==
  /\ GoW(s, "acquire", "stopped") /\ failures < MaxFailures
  /\ failures' = failures + 1
  /\ UNCHANGED <<queue, batch, pushed, done, stopper, promised>>

\* The pool is exhausted for three seconds, or a broken connection cannot be
\* opened again.
AcquireFails(s) ==
  /\ GoW(s, "acquire", "requeue") /\ failures < MaxFailures
  /\ failures' = failures + 1
  /\ UNCHANGED <<queue, batch, pushed, done, stopper, promised>>

\* Mutant: the tasks are not pushed again.
Requeue_Drops(s) ==
  /\ wpc[s] = "requeue" /\ batch[s] # << >>
  /\ batch' = [batch EXCEPT ![s] = Tail(@)]
  /\ UNCHANGED <<queue, wpc, pushed, done, failures, stopper, promised>>

\* One task of the batch is pushed again; a null task is skipped.
Requeue(s) ==
  /\ wpc[s] = "requeue" /\ batch[s] # << >>
  /\ IF Head(batch[s]) = Pill THEN UNCHANGED queue ELSE Put(s, Head(batch[s]))
  /\ batch' = [batch EXCEPT ![s] = Tail(@)]
  /\ UNCHANGED <<wpc, pushed, done, failures, stopper, promised>>

\* The batch is handled; after a failure, 10 ms later.
EndBatch(s) ==
  /\ wpc[s] \in {"run", "requeue"} /\ batch[s] = << >>
  /\ wpc' = [wpc EXCEPT ![s] = "wait"]
  /\ UNCHANGED <<queue, batch, pushed, done, failures, stopper, promised>>

Execute(s) ==
  /\ wpc[s] = "run" /\ batch[s] # << >> /\ Head(batch[s]) # Pill
  /\ done' = [done EXCEPT ![s] = Append(@, Head(batch[s]))]
  /\ batch' = [batch EXCEPT ![s] = Tail(@)]
  /\ UNCHANGED <<queue, wpc, pushed, failures, stopper, promised>>

\* The null task ends the worker; the rest of its batch is destroyed.
TakePill(s) ==
  /\ batch[s] # << >> /\ Head(batch[s]) = Pill
  /\ GoW(s, "run", "stopped")
  /\ batch' = [batch EXCEPT ![s] = << >>]
  /\ UNCHANGED <<queue, pushed, done, failures, stopper, promised>>

-----------------------------------------------------------------------------
(* DBWorkerPool::Stop and DBWorker::Stop *)

BeginStop ==
  /\ stopper = 0
  /\ stopper' = 1
  /\ UNCHANGED <<queue, wpc, batch, pushed, done, failures, promised>>

\* Mutant: the signal overtakes the tasks.
PushPill_First(s) ==
  /\ stopper = s
  /\ queue' = [queue EXCEPT ![s] = <<Pill>> \o @]
  /\ promised' = [promised EXCEPT ![s] = pushed[s]]
  /\ stopper' = -s
  /\ UNCHANGED <<wpc, batch, pushed, done, failures>>

\* Mutant: the signal is routed like a task, always to the same shard.
PushPill_ByHash(s) ==
  /\ stopper = s
  /\ Put(1, Pill)
  /\ promised' = [promised EXCEPT ![s] = pushed[s]]
  /\ stopper' = -s
  /\ UNCHANGED <<wpc, batch, pushed, done, failures>>

PushPill(s) ==
  /\ stopper = s
  /\ Put(s, Pill)
  /\ promised' = [promised EXCEPT ![s] = pushed[s]]
  /\ stopper' = -s
  /\ UNCHANGED <<wpc, batch, pushed, done, failures>>

Join(s) ==
  /\ stopper = -s /\ wpc[s] = "stopped"
  /\ stopper' = s + 1
  /\ UNCHANGED <<queue, wpc, batch, pushed, done, failures, promised>>

-----------------------------------------------------------------------------
Worker(s) == \/ PopBatch(s) \/ AcquireOk(s) \/ AcquireFails(s) \/ Requeue(s)
             \/ EndBatch(s) \/ Execute(s) \/ TakePill(s)
Stop == BeginStop \/ \E s \in Shards : PushPill(s) \/ Join(s)

Next == Stop \/ \E s \in Shards : Push(s) \/ Worker(s)

Spec == Init /\ [][Next]_vars

\* A woken worker runs on, and Stop, once called, goes on as far as it can.
FairSpec == /\ Spec
            /\ \A s \in Shards : WF_vars(Worker(s))
            /\ WF_vars(\E s \in Shards : PushPill(s) \/ Join(s))

-----------------------------------------------------------------------------
(* What the queue must do *)

\* The variables keep their types.
TypeOK ==
  /\ queue \in [Shards -> Seq(Tasks \cup {Pill})]
  /\ batch \in [Shards -> Seq(Tasks \cup {Pill})]
  /\ wpc \in [Shards -> {"wait", "acquire", "run", "requeue", "stopped"}]
  /\ pushed \in [Shards -> 0 .. MaxTasks] /\ promised \in [Shards -> 0 .. MaxTasks]
  /\ done \in [Shards -> Seq(Tasks)]
  /\ failures \in 0 .. MaxFailures
  /\ stopper \in -NumShards .. NumShards + 1

\* As long as its worker lives, every task that was pushed is in exactly one
\* place: executed, in the worker's batch, or in the queue.  Putting a batch
\* back neither loses nor doubles a task.
Everywhere(s) == done[s] \o batch[s] \o queue[s]
NoTaskLost ==
  \A s \in Shards : wpc[s] # "stopped" =>
    \A t \in 1 .. pushed[s] :
      Cardinality({i \in DOMAIN Everywhere(s) : Everywhere(s)[i] = t}) = 1

\* As long as no batch was put back, the saves of one shard are executed in the
\* order they were pushed, so an older state of a player never overwrites a newer
\* one.
InOrder == failures = 0 =>
  \A s \in Shards : \A i, j \in DOMAIN done[s] : i < j => done[s][i] < done[s][j]

\* As long as no batch was put back, a worker that has ended has executed all
\* that was pushed to its shard before its stop signal: the signal stands behind
\* it in the queue (DBWorker.cpp:34).
SavedBeforeStop == failures = 0 =>
  \A s \in Shards : wpc[s] = "stopped" => 1 .. promised[s] \subseteq Range(done[s])

\* Stopping the pool ends, every worker gets its signal and can be joined, unless an
\* acquisition has failed: the retry skips a signal that is in its batch
\* (DBWorker.cpp:34, :38, :68).
StopsIfConnected == (stopper = 1) ~> (stopper = NumShards + 1 \/ failures > 0)

\* A task is executed, however often its batch had to be put back, unless the
\* pool is being stopped.
TaskRuns == \A s \in Shards, t \in Tasks :
  (pushed[s] >= t) ~> (t \in Range(done[s]) \/ stopper # 0)
=============================================================================
