------------------------------- MODULE Mailbox -------------------------------
(* The lock-free queue of one actor (Mailbox.h): a linked list of nodes from   *)
(* a pool, with many producers (the network threads) and one consumer (the    *)
(* worker that runs the actor).  One action per access to shared memory; the   *)
(* accesses are sequentially consistent.  The node pool is a set: Acquire may *)
(* return any free node, so a released node can be reused at once.            *)
EXTENDS Integers, Sequences, FiniteSets

CONSTANTS Producers,   \* threads that push
          Nodes,       \* node identities; how many there are bounds the run
          MaxMailbox,  \* MAX_MAILBOX (2048)
          Budgets,     \* the values of maxCount that PopBatch is called with
          MaxPosts,    \* bound: number of pushes in a run
          None         \* the null pointer

ASSUME MailboxAssumption == /\ IsFiniteSet(Producers)
                            /\ MaxMailbox \in Nat \ {0}
                            /\ MaxPosts \in Nat
                            /\ Budgets \subseteq Nat \ {0}
                            /\ None \notin Nodes

Tasks == 1 .. MaxPosts
NoTask == 0             \* a moved-from std::function

VARIABLES
  head, tail, size,     \* head_, tail_, approx_size_
  next, task,           \* the fields of every node
  free,                 \* the nodes in the pool
  ppc, node, prev,      \* each producer: where it is, and its two locals
  cpc, cur, count, max, \* the consumer: where it is, locals head and count, maxCount
  posted,               \* pushes started so far; names the next task
  executed              \* every task ever moved to the consumer's vector, in order

producerVars == <<ppc, node, prev>>
consumerVars == <<head, cpc, cur, count, max, executed>>
vars == <<tail, size, next, task, free, posted, producerVars, consumerVars>>

Init == \E dummy \in Nodes :
  /\ head = dummy /\ tail = dummy /\ cur = dummy
  /\ size = 0 /\ count = 0 /\ posted = 0
  /\ next = [n \in Nodes |-> None]
  /\ task = [n \in Nodes |-> NoTask]
  /\ free = Nodes \ {dummy}
  /\ ppc = [p \in Producers |-> "idle"]
  /\ node = [p \in Producers |-> None]
  /\ prev = [p \in Producers |-> None]
  /\ cpc = "idle" /\ max \in Budgets
  /\ executed = << >>

-----------------------------------------------------------------------------
(* PushAndCheckWasEmpty *)

GoP(p, from, to) == ppc[p] = from /\ ppc' = [ppc EXCEPT ![p] = to]

\* The capacity check fails: the push returns false, and the task, taken by
\* value, is destroyed.
PushRefused(p) ==
  /\ ppc[p] = "idle" /\ posted < MaxPosts
  /\ size >= MaxMailbox
  /\ posted' = posted + 1
  /\ UNCHANGED <<tail, size, next, task, free, producerVars, consumerVars>>

\* The capacity check passes: a node is acquired and filled.
PushAdmitted(p) ==
  /\ posted < MaxPosts /\ size < MaxMailbox /\ free # {}
  /\ GoP(p, "idle", "count")
  /\ posted' = posted + 1
  /\ \E n \in free :
       /\ free' = free \ {n}
       /\ node' = [node EXCEPT ![p] = n]
       /\ task' = [task EXCEPT ![n] = posted']
       /\ next' = [next EXCEPT ![n] = None]
  /\ UNCHANGED <<tail, size, prev, consumerVars>>

\* approx_size_ is raised before the node can be reached.
CountNode(p) ==
  /\ GoP(p, "count", "swap")
  /\ size' = size + 1
  /\ UNCHANGED <<tail, next, task, free, posted, node, prev, consumerVars>>

\* Mutant: the node is linked behind the head instead of the old tail.
SwapTail_BehindHead(p) ==
  /\ GoP(p, "swap", "link")
  /\ prev' = [prev EXCEPT ![p] = head]
  /\ tail' = node[p]
  /\ UNCHANGED <<size, next, task, free, posted, node, consumerVars>>

\* The exchange fixes the node's place in the queue.
SwapTail(p) ==
  /\ GoP(p, "swap", "link")
  /\ prev' = [prev EXCEPT ![p] = tail]
  /\ tail' = node[p]
  /\ UNCHANGED <<size, next, task, free, posted, node, consumerVars>>

\* prev->next is stored: the consumer can reach the node.
LinkNode(p) ==
  /\ GoP(p, "link", "idle")
  /\ next' = [next EXCEPT ![prev[p]] = node[p]]
  /\ node' = [node EXCEPT ![p] = None]
  /\ prev' = [prev EXCEPT ![p] = None]
  /\ UNCHANGED <<tail, size, task, free, posted, consumerVars>>

-----------------------------------------------------------------------------
(* PopBatch *)

GoC(from, to) == cpc = from /\ cpc' = to

\* Mutant: the batch starts at the first node instead of the dummy before it.
BeginPop_SkipsFirst ==
  /\ GoC("idle", "loop")
  /\ cur' = (IF next[head] = None THEN head ELSE next[head]) /\ count' = 0
  /\ max' \in Budgets
  /\ UNCHANGED <<tail, size, next, task, free, posted, producerVars, head, executed>>

BeginPop ==
  /\ GoC("idle", "loop")
  /\ cur' = head /\ count' = 0
  /\ max' \in Budgets
  /\ UNCHANGED <<tail, size, next, task, free, posted, producerVars, head, executed>>

\* There is a next node: its task is moved out, and it becomes the dummy.
TakeTask ==
  /\ cpc \in {"loop", "spin"} /\ count < max
  /\ next[cur] # None
  /\ cpc' = "release"
  /\ executed' = Append(executed, task[next[cur]])
  /\ task' = [task EXCEPT ![next[cur]] = NoTask]
  /\ UNCHANGED <<tail, size, next, free, posted, producerVars, head, cur, count, max>>

\* Mutant: the new dummy is given back instead of the old one.
ReleaseOld_Next ==
  /\ GoC("release", "loop")
  /\ cur' = next[cur]
  /\ free' = free \cup {next[cur]}
  /\ count' = count + 1
  /\ UNCHANGED <<tail, size, next, task, posted, producerVars, head, max, executed>>

\* The consumer advances and gives the old dummy back to the pool.
ReleaseOld ==
  /\ GoC("release", "loop")
  /\ cur' = next[cur]
  /\ free' = free \cup {cur}
  /\ count' = count + 1
  /\ UNCHANGED <<tail, size, next, task, posted, producerVars, head, max, executed>>

\* No next node, but the tail has moved on: a producer has swapped and not yet
\* linked, so the consumer must wait for it.
StartSpin ==
  /\ count < max /\ next[cur] = None
  /\ cur # tail
  /\ GoC("loop", "spin")
  /\ UNCHANGED <<tail, size, next, task, free, posted, producerVars,
                 head, cur, count, max, executed>>

\* Mutant: a missing link is taken for an empty queue.
EndLoop_IgnoresTail ==
  /\ count = max \/ next[cur] = None
  /\ GoC("loop", "settle")
  /\ UNCHANGED <<tail, size, next, task, free, posted, producerVars,
                 head, cur, count, max, executed>>

\* The batch is full, or the queue is empty.
EndLoop ==
  /\ \/ count = max
     \/ next[cur] = None /\ cur = tail
  /\ GoC("loop", "settle")
  /\ UNCHANGED <<tail, size, next, task, free, posted, producerVars,
                 head, cur, count, max, executed>>

\* Mutant: the requested size of the batch is subtracted.
Settle_Max ==
  /\ GoC("settle", "idle")
  /\ head' = cur
  /\ size' = size - max
  /\ count' = 0
  /\ UNCHANGED <<tail, next, task, free, posted, producerVars, cur, max, executed>>

\* head_ is written back and the batch subtracted from approx_size_.
Settle ==
  /\ GoC("settle", "idle")
  /\ head' = cur
  /\ size' = size - count
  /\ count' = 0
  /\ UNCHANGED <<tail, next, task, free, posted, producerVars, cur, max, executed>>

Push(p) == PushRefused(p) \/ PushAdmitted(p)
FinishPush(p) == CountNode(p) \/ SwapTail(p) \/ LinkNode(p)
Pop == BeginPop \/ TakeTask \/ ReleaseOld \/ StartSpin \/ EndLoop \/ Settle

Next == Pop \/ \E p \in Producers : Push(p) \/ FinishPush(p)

\* A thread that has begun a push goes on, and the worker keeps popping.
Spec == Init /\ [][Next]_vars /\ WF_vars(Pop)
             /\ \A p \in Producers : WF_vars(FinishPush(p))
-----------------------------------------------------------------------------
(* What the queue must do *)

\* The node that follows n, whether the link is stored or still to be stored.
Follows(n) ==
  IF next[n] # None THEN {next[n]}
  ELSE {node[p] : p \in {q \in Producers : ppc[q] = "link" /\ prev[q] = n}}

Successor == [n \in Nodes \cup {None} |->
  IF n = None \/ Follows(n) = {} THEN None ELSE CHOOSE m \in Follows(n) : TRUE]

\* The dummy, the nodes behind it up to the tail, and None from there on.
List ==
  LET node_at[k \in 0 .. Cardinality(Nodes)] ==
        IF k = 0 THEN (IF cpc = "release" THEN next[cur] ELSE cur) ELSE Successor[node_at[k - 1]]
  IN  node_at

\* The tasks that have entered the queue and were not taken yet, oldest first.
Waiting ==
  [i \in 1 .. Cardinality({k \in 1 .. Cardinality(Nodes) : List[k] # None}) |-> task[List[i]]]

\* Tasks taken and not yet subtracted from approx_size_.
Unsettled == count + (IF cpc = "release" THEN 1 ELSE 0)

Pushing(states) == {p \in Producers : ppc[p] \in states}

\* The variables keep their types.
TypeOK ==
  /\ head \in Nodes /\ tail \in Nodes /\ cur \in Nodes
  /\ size \in Int /\ count \in Nat /\ max \in Budgets
  /\ next \in [Nodes -> Nodes \cup {None}] /\ task \in [Nodes -> Tasks \cup {NoTask}]
  /\ free \subseteq Nodes
  /\ ppc \in [Producers -> {"idle", "count", "swap", "link"}]
  /\ node \in [Producers -> Nodes \cup {None}] /\ prev \in [Producers -> Nodes \cup {None}]
  /\ cpc \in {"idle", "loop", "spin", "release", "settle"}
  /\ posted \in 0 .. MaxPosts /\ executed \in Seq(Tasks)

\* No node that a producer or the consumer will still read or write is in the
\* pool: PopBatch gives a node back only when nobody can link behind it.
NoUseAfterRelease ==
  /\ tail \notin free /\ cur \notin free
  /\ cpc = "idle" => head \notin free
  /\ \A p \in Producers : node[p] \notin free /\ prev[p] \notin free
  /\ \A n \in Nodes \ free : Follows(n) \cap free = {}

\* approx_size_ counts at least every task in the queue and every task taken but
\* not subtracted, so subtracting a batch can never take it below zero
\* (Mailbox.h:54).
SizeCoversQueue ==
  size = Len(Waiting) + Unsettled + Cardinality(Pushing({"swap"}))

\* The capacity check and the increment are two steps, so the bound may be
\* passed, but only by one task for each other producer.
SizeBounded == size + Cardinality(Pushing({"count"})) <= MaxMailbox + Cardinality(Producers) - 1

\* A batch ends short of maxCount only when nothing at all is waiting: a task
\* whose producer was suspended between exchange and link is waited for, not
\* taken for an empty queue (Mailbox.h:77).
PopLeavesNothing ==
  [][cpc = "loop" /\ cpc' = "settle" => count = max \/ Waiting = << >>]_vars

\* The linked list is a queue: tasks leave it once each, in the order of the
\* exchanges.
Fifo == INSTANCE FifoInbox WITH
          Actors <- {"mailbox"}, Tasks <- Tasks,
          inbox <- [a \in {"mailbox"} |-> Waiting],
          executed <- [a \in {"mailbox"} |-> executed]
ImplementsFifo == Fifo!Spec

\* A push that was admitted is delivered, although the consumer may have to spin
\* for it and its node may be one the consumer released before.
AdmittedIsDelivered ==
  \A t \in Tasks : (\E p \in Producers : ppc[p] = "count" /\ task[node[p]] = t)
                     ~> (\E i \in DOMAIN executed : executed[i] = t)
=============================================================================
