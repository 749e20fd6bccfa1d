------------------------------- MODULE NodePool -------------------------------
(* LockFreeObjectPool: free mailbox nodes in caches of the threads and in one  *)
(* global list that all threads push to and pop from with compare-and-swap,   *)
(* without a tag or counter at the head.  Mailbox takes the pool for a set;    *)
(* this module is about when that is right.  One action per access to shared   *)
(* memory, sequentially consistent.                                            *)
EXTENDS Integers, Sequences, FiniteSets

CONSTANTS Threads,    \* threads that acquire and release nodes
          Nodes,      \* bound: nodes that new may allocate
          CacheSize,  \* kLocalCacheSize (64)
          None        \* the null pointer

ASSUME PoolAssumption == CacheSize \in Nat /\ None \notin Nodes

VARIABLES
  head, next,       \* global_head_, and the link in every node
  local,            \* local_cache_ of each thread
  fresh, used,      \* nodes not allocated yet, and those in the mailboxes
  pc, seen, after,  \* each thread: where it is, its locals head and next
  hand,             \* the node it releases
  acquirers,        \* the threads that ever acquire: those that post to actors
  stack, reused     \* history: the global list, from its end to its head; did an
                    \* exchange succeed although the head's link had changed?

listVars == <<head, stack>>
threadVars == <<pc, seen, after, hand>>
vars == <<listVars, threadVars, next, local, fresh, used, acquirers, reused>>

Init ==
  /\ head = None /\ next = [n \in Nodes |-> None] /\ stack = << >>
  /\ local = [t \in Threads |-> {}] /\ fresh = Nodes /\ used = {}
  /\ pc = [t \in Threads |-> "idle"]
  /\ seen = [t \in Threads |-> None] /\ after = [t \in Threads |-> None]
  /\ hand = [t \in Threads |-> None]
  /\ acquirers \in SUBSET Threads /\ reused = FALSE

At(t, at) == pc[t] = at
To(t, at) == pc' = [pc EXCEPT ![t] = at]
\* The locals end with the call.
Drop(t) == seen' = [seen EXCEPT ![t] = None] /\ after' = [after EXCEPT ![t] = None]

-----------------------------------------------------------------------------
(* Acquire *)

AcquireLocal(t) ==
  /\ At(t, "idle") /\ t \in acquirers
  /\ \E n \in local[t] : local' = [local EXCEPT ![t] = @ \ {n}] /\ used' = used \cup {n}
  /\ UNCHANGED <<listVars, threadVars, next, fresh, acquirers, reused>>

\* head = global_head_.load(): the loop goes on while it is not null.
LoadHead(t) ==
  /\ At(t, "idle") /\ t \in acquirers /\ local[t] = {}
  /\ seen' = [seen EXCEPT ![t] = head]
  /\ To(t, IF head = None THEN "new" ELSE "next")
  /\ UNCHANGED <<listVars, after, hand, next, local, fresh, used, acquirers, reused>>

ReadNext(t) ==
  /\ At(t, "next") /\ To(t, "pop")
  /\ after' = [after EXCEPT ![t] = next[seen[t]]]
  /\ UNCHANGED <<listVars, seen, hand, next, local, fresh, used, acquirers, reused>>

\* The exchange finds the head that was read.
Pop(t) ==
  /\ At(t, "pop") /\ head = seen[t] /\ To(t, "idle")
  /\ head' = after[t] /\ used' = used \cup {seen[t]}
  /\ stack' = [i \in 1 .. Len(stack) - 1 |-> stack[i]]
  /\ reused' = (reused \/ after[t] # next[seen[t]])
  /\ Drop(t)
  /\ UNCHANGED <<hand, next, local, fresh, acquirers>>

\* Mutant: a failed exchange does not read the link of the new head.
PopFails_KeepsNext(t) ==
  /\ At(t, "pop") /\ head # None /\ UNCHANGED pc
  /\ seen' = [seen EXCEPT ![t] = head]
  /\ UNCHANGED <<listVars, after, hand, next, local, fresh, used, acquirers, reused>>

\* It fails, perhaps for no reason, and leaves the head of now in the local.
PopFails(t) ==
  /\ At(t, "pop")
  /\ seen' = [seen EXCEPT ![t] = head] /\ after' = [after EXCEPT ![t] = None]
  /\ To(t, IF head = None THEN "new" ELSE "next")
  /\ UNCHANGED <<listVars, hand, next, local, fresh, used, acquirers, reused>>

New(t) ==
  /\ At(t, "new") /\ To(t, "idle")
  /\ \E n \in fresh : fresh' = fresh \ {n} /\ used' = used \cup {n}
  /\ UNCHANGED <<listVars, seen, after, hand, next, local, acquirers, reused>>

-----------------------------------------------------------------------------
(* Release *)

ReleaseLocal(t) ==
  /\ At(t, "idle") /\ Cardinality(local[t]) < CacheSize
  /\ \E n \in used : used' = used \ {n} /\ local' = [local EXCEPT ![t] = @ \cup {n}]
  /\ UNCHANGED <<listVars, threadVars, next, fresh, acquirers, reused>>

ReleaseGlobal(t) ==
  /\ At(t, "idle") /\ ~(Cardinality(local[t]) < CacheSize) /\ To(t, "link")
  /\ \E n \in used : used' = used \ {n} /\ hand' = [hand EXCEPT ![t] = n]
  /\ seen' = [seen EXCEPT ![t] = head]
  /\ UNCHANGED <<listVars, after, next, local, fresh, acquirers, reused>>

Link(t) ==
  /\ At(t, "link") /\ To(t, "push")
  /\ next' = [next EXCEPT ![hand[t]] = seen[t]]
  /\ UNCHANGED <<listVars, seen, after, hand, local, fresh, used, acquirers, reused>>

Push(t) ==
  /\ At(t, "push") /\ head = seen[t] /\ To(t, "idle")
  /\ head' = hand[t] /\ stack' = Append(stack, hand[t])
  /\ hand' = [hand EXCEPT ![t] = None] /\ Drop(t)
  /\ UNCHANGED <<next, local, fresh, used, acquirers, reused>>

PushFails(t) ==
  /\ At(t, "push") /\ To(t, "link")
  /\ seen' = [seen EXCEPT ![t] = head]
  /\ UNCHANGED <<listVars, after, hand, next, local, fresh, used, acquirers, reused>>

\* The mailbox that has the node links it as it likes.
Use == \E n \in used, m \in Nodes \cup {None} :
  /\ next' = [next EXCEPT ![n] = m]
  /\ UNCHANGED <<listVars, threadVars, local, fresh, used, acquirers, reused>>

-----------------------------------------------------------------------------
Next == \/ \E t \in Threads :
             \/ AcquireLocal(t) \/ LoadHead(t) \/ ReadNext(t) \/ Pop(t) \/ PopFails(t) \/ New(t)
             \/ ReleaseLocal(t) \/ ReleaseGlobal(t) \/ Link(t) \/ Push(t) \/ PushFails(t)
        \/ Use

Spec == Init /\ [][Next]_vars

-----------------------------------------------------------------------------
(* What makes the pool a set of free nodes *)

\* The nodes in the global list.
Listed == {stack[i] : i \in 1 .. Len(stack)}

\* The variables keep their types.
TypeOK ==
  /\ head \in Nodes \cup {None} /\ next \in [Nodes -> Nodes \cup {None}]
  /\ local \in [Threads -> SUBSET Nodes] /\ fresh \subseteq Nodes /\ used \subseteq Nodes
  /\ pc \in [Threads -> {"idle", "new", "next", "pop", "link", "push"}]
  /\ seen \in [Threads -> Nodes \cup {None}] /\ after \in [Threads -> Nodes \cup {None}]
  /\ hand \in [Threads -> Nodes \cup {None}] /\ acquirers \subseteq Threads
  /\ stack \in Seq(Nodes) /\ reused \in BOOLEAN

\* The links in memory form the list: its head, the link of each node, its end.
LinksFormList ==
  /\ head = (IF stack = << >> THEN None ELSE stack[Len(stack)])
  /\ \A i \in 1 .. Len(stack) : next[stack[i]] = IF i = 1 THEN None ELSE stack[i - 1]

\* A node is in one place only: new, in the list (once), in one cache, in one
\* thread's hand or in a mailbox.
InOnePlace ==
  /\ \A i, j \in 1 .. Len(stack) : stack[i] = stack[j] => i = j
  /\ \A n \in Listed : n \notin fresh \cup used
  /\ fresh \cap used = {}
  /\ \A t \in Threads :
       /\ local[t] \cap (fresh \cup used \cup Listed) = {}
       /\ hand[t] \notin fresh \cup used \cup Listed
       /\ \A u \in Threads :
            /\ hand[t] \notin local[u]
            /\ t # u => local[t] \cap local[u] = {} /\ (hand[t] = None \/ hand[t] # hand[u])

\* Does at most one thread ever acquire?
OneAcquirer == \A t, u \in acquirers : t = u

\* With a single thread that acquires, however many release, no exchange finds an
\* old head again whose link has changed: one network thread makes the pool safe
\* (ObjectPool.h:40).
SafeWithOneAcquirer == OneAcquirer => ~reused

\* No node is given out twice or lost from the list, with one acquiring thread; with
\* more of them, until an exchange has found an old head again (ObjectPool.h:39).
OwnedOnce == OneAcquirer \/ ~reused => LinksFormList /\ InOnePlace
=============================================================================
