---------------------------- MODULE MailboxProofs ----------------------------
(* Theorems about Mailbox, for any number of producers and nodes, any limit and *)
(* any sizes of batches.                                                       *)
EXTENDS Mailbox, FiniteSetTheorems, SequenceTheorems, WellFoundedInduction, TLAPS

-----------------------------------------------------------------------------
(* Type correctness, the executed tasks apart *)

Types ==
  /\ head \in Nodes /\ tail \in Nodes /\ cur \in Nodes
  /\ size \in Int /\ count \in Nat /\ max \in Budgets
  /\ next \in [Nodes -> Nodes \cup {None}] /\ task \in [Nodes -> Tasks \cup {NoTask}]
  /\ free \subseteq Nodes
  /\ ppc \in [Producers -> {"idle", "count", "swap", "link"}]
  /\ node \in [Producers -> Nodes \cup {None}] /\ prev \in [Producers -> Nodes \cup {None}]
  /\ cpc \in {"idle", "loop", "spin", "release", "settle"}
  /\ posted \in 0 .. MaxPosts

\* What a step may need to know of where its locals point.
Pointers ==
  /\ \A p \in Producers : ppc[p] \in {"count", "swap", "link"} => node[p] \in Nodes
  /\ \A p \in Producers : ppc[p] = "link" => prev[p] \in Nodes
  /\ cpc = "release" => next[cur] # None

LEMMA TypesInit == Init => Types
  <1> SUFFICES ASSUME Init PROVE Types  OBVIOUS
  <1> USE MailboxAssumption DEF Init
  <1>1. PICK dummy \in Nodes : head = dummy /\ tail = dummy /\ cur = dummy /\ free = Nodes \ {dummy}
    OBVIOUS
  <1>2. /\ size \in Int /\ count \in Nat /\ max \in Budgets /\ posted \in 0 .. MaxPosts
    OBVIOUS
  <1>3. /\ next \in [Nodes -> Nodes \cup {None}]
        /\ ppc = [p \in Producers |-> "idle"] /\ cpc = "idle"
        /\ node \in [Producers -> Nodes \cup {None}] /\ prev \in [Producers -> Nodes \cup {None}]
    OBVIOUS
  <1>4. task \in [Nodes -> Tasks \cup {NoTask}]  OBVIOUS
  <1> QED  BY <1>1, <1>2, <1>3, <1>4 DEF Types

LEMMA TypesStep == ASSUME Types, Pointers, [Next]_vars PROVE Types'
  <1> USE MailboxAssumption DEF Types, Pointers, GoP, GoC, producerVars, consumerVars
  <1>a. NoTask \in Tasks \cup {NoTask}  OBVIOUS
  <1>1. ASSUME NEW p \in Producers, PushRefused(p) PROVE Types'
    BY <1>1 DEF PushRefused
  <1>2. ASSUME NEW p \in Producers, PushAdmitted(p) PROVE Types'
    <2>1. posted' = posted + 1 /\ posted' \in 0 .. MaxPosts /\ posted' \in Tasks \cup {NoTask}
      BY <1>2 DEF PushAdmitted, Tasks
    <2>2. PICK n \in free : /\ free' = free \ {n} /\ node' = [node EXCEPT ![p] = n]
                            /\ task' = [task EXCEPT ![n] = posted']
                            /\ next' = [next EXCEPT ![n] = None]
      BY <1>2 DEF PushAdmitted
    <2>3. /\ ppc[p] = "idle" /\ ppc' = [ppc EXCEPT ![p] = "count"]
          /\ UNCHANGED <<tail, size, prev, consumerVars>>
      BY <1>2 DEF PushAdmitted
    <2>4. task' \in [Nodes -> Tasks \cup {NoTask}]  BY <2>1, <2>2
    <2>5. next' \in [Nodes -> Nodes \cup {None}]  BY <2>2
    <2>6. node' \in [Producers -> Nodes \cup {None}] /\ ppc' \in [Producers -> {"idle", "count", "swap", "link"}]
      BY <2>2, <2>3
    <2> QED  BY <2>1, <2>2, <2>3, <2>4, <2>5, <2>6
  <1>3. ASSUME NEW p \in Producers, CountNode(p) PROVE Types'
    BY <1>3 DEF CountNode
  <1>4. ASSUME NEW p \in Producers, SwapTail(p) PROVE Types'
    BY <1>4 DEF SwapTail
  <1>5. ASSUME NEW p \in Producers, LinkNode(p) PROVE Types'
    <2>1. node[p] \in Nodes /\ prev[p] \in Nodes  BY <1>5 DEF LinkNode
    <2> QED  BY <1>5, <2>1 DEF LinkNode
  <1>6. CASE BeginPop  BY <1>6 DEF BeginPop
  <1>7. CASE TakeTask
    <2>1. next[cur] \in Nodes  BY <1>7 DEF TakeTask
    <2>2. task' \in [Nodes -> Tasks \cup {NoTask}]  BY <1>7, <1>a, <2>1 DEF TakeTask
    <2> QED  BY <1>7, <2>1, <2>2 DEF TakeTask
  <1>8. CASE ReleaseOld  BY <1>8 DEF ReleaseOld
  <1>9. CASE StartSpin  BY <1>9 DEF StartSpin
  <1>10. CASE EndLoop  BY <1>10 DEF EndLoop
  <1>11. CASE Settle  BY <1>11 DEF Settle
  <1>12. CASE UNCHANGED vars  BY <1>12 DEF vars
  <1> QED  BY <1>1, <1>2, <1>3, <1>4, <1>5, <1>6, <1>7, <1>8, <1>9, <1>10, <1>11, <1>12
           DEF Next, Pop, Push, FinishPush

-----------------------------------------------------------------------------
(* The list *)

\* L is the list from the consumer's node to the tail: each node is linked to the
\* next one, or a producer is about to link it.
Chain(L) ==
  /\ Len(L) >= 1 /\ L[1] = cur /\ L[Len(L)] = tail /\ next[tail] = None
  /\ \A i, j \in 1 .. Len(L) : L[i] = L[j] => i = j
  /\ \A i \in 1 .. Len(L) : L[i] \notin free
  /\ \A i \in 1 .. Len(L) - 1 :
       next[L[i]] = L[i + 1] \/ next[L[i]] = None

\* A producer that has exchanged the tail has the two nodes to link, and is alone
\* in that.
Linking(L) ==
  /\ \A p \in Producers : ppc[p] = "link" =>
       \E i \in 1 .. Len(L) - 1 : prev[p] = L[i] /\ node[p] = L[i + 1] /\ next[L[i]] = None
  /\ \A p, q \in Producers : ppc[p] = "link" /\ ppc[q] = "link" /\ prev[p] = prev[q] => p = q

\* And where a link is missing, there is such a producer.
Missing(L) ==
  \A i \in 1 .. Len(L) - 1 : next[L[i]] = None =>
    \E p \in Producers : ppc[p] = "link" /\ prev[p] = L[i] /\ node[p] = L[i + 1]

\* A producer that has not, has a filled node of its own.
Holding(L) ==
  /\ \A p \in Producers : ppc[p] = "idle" => node[p] = None
  /\ \A p \in Producers : ppc[p] # "link" => prev[p] = None
  /\ \A p \in Producers : ppc[p] \in {"count", "swap"} =>
       /\ node[p] \in Nodes \ free /\ next[node[p]] = None /\ task[node[p]] \in Tasks
       /\ \A i \in 1 .. Len(L) : L[i] # node[p]
  /\ \A p, q \in Producers :
       ppc[p] \in {"count", "swap"} /\ ppc[q] \in {"count", "swap"} /\ node[p] = node[q] => p = q

\* Every node is free, in the list, or a producer's.
Accounted(L) == \A n \in Nodes \ free :
  (\E i \in 1 .. Len(L) : L[i] = n) \/ (\E p \in Producers : ppc[p] \in {"count", "swap"} /\ node[p] = n)

\* The nodes behind the consumer's one hold tasks, until they are moved out.
Filled(L) ==
  /\ \A i \in 2 .. Len(L) : (cpc = "release" /\ i = 2) \/ task[L[i]] \in Tasks
  /\ cpc = "release" => next[cur] # None
  /\ cpc = "idle" => head = cur
  /\ executed \in Seq(Tasks)

ListOK(L) == Chain(L) /\ Linking(L) /\ Missing(L) /\ Holding(L) /\ Accounted(L) /\ Filled(L)
ListInv == Types /\ \E L \in Seq(Nodes) : ListOK(L)

\* The invariant says where the pointers lead.
LEMMA ListPointers ==
  ASSUME Types, NEW L \in Seq(Nodes), ListOK(L)
  PROVE  Pointers
  <1>1. ASSUME NEW p \in Producers, ppc[p] = "link" PROVE node[p] \in Nodes /\ prev[p] \in Nodes
    <2>1. PICK i \in 1 .. Len(L) - 1 : prev[p] = L[i] /\ node[p] = L[i + 1]
      BY <1>1 DEF ListOK, Linking
    <2>2. i \in 1 .. Len(L) /\ i + 1 \in 1 .. Len(L)  OBVIOUS
    <2> QED  BY <2>1, <2>2
  <1> QED  BY <1>1 DEF ListOK, Holding, Filled, Pointers

\* No pointer leads to a free node.
LEMMA ListIsSafe ==
  ASSUME Types, NEW L \in Seq(Nodes), ListOK(L)
  PROVE  NoUseAfterRelease
  <1>0. Len(L) \in Nat /\ Len(L) >= 1 /\ None \notin free /\ None \notin Nodes
        /\ \A i \in 1 .. Len(L) : L[i] \in Nodes
    BY MailboxAssumption DEF Types, ListOK, Chain
  <1>1. tail \notin free /\ cur \notin free  BY <1>0 DEF ListOK, Chain
  <1>2. cpc = "idle" => head \notin free  BY <1>1 DEF ListOK, Filled
  <1>3. ASSUME NEW p \in Producers PROVE node[p] \notin free /\ prev[p] \notin free
    <2>1. CASE ppc[p] = "idle"  BY <1>0, <2>1 DEF ListOK, Holding
    <2>2. CASE ppc[p] \in {"count", "swap"}  BY <1>0, <2>2 DEF ListOK, Holding
    <2>3. CASE ppc[p] = "link"
      <3>1. PICK i \in 1 .. Len(L) - 1 : prev[p] = L[i] /\ node[p] = L[i + 1]
        BY <2>3 DEF ListOK, Linking
      <3>2. i \in 1 .. Len(L) /\ i + 1 \in 1 .. Len(L)  BY <1>0
      <3> QED  BY <3>1, <3>2 DEF ListOK, Chain
    <2> QED  BY <2>1, <2>2, <2>3 DEF Types
  <1>4. ASSUME NEW n \in Nodes \ free PROVE Follows(n) \cap free = {}
    <2>1. CASE next[n] = None
      <3>1. Follows(n) = {node[p] : p \in {q \in Producers : ppc[q] = "link" /\ prev[q] = n}}
        BY <2>1 DEF Follows
      <3> QED  BY <1>3, <3>1
    <2>2. CASE next[n] # None
      <3>1. Follows(n) = {next[n]}  BY <2>2 DEF Follows
      <3>2. PICK i \in 1 .. Len(L) : L[i] = n
        BY <2>2 DEF ListOK, Accounted, Holding
      <3>3. i # Len(L)  BY <2>2, <3>2 DEF ListOK, Chain
      <3>4. i \in 1 .. Len(L) - 1 /\ i + 1 \in 1 .. Len(L)  BY <1>0, <3>3
      <3>5. next[n] = L[i + 1] /\ L[i + 1] \notin free  BY <2>2, <3>2, <3>4 DEF ListOK, Chain
      <3> QED  BY <3>1, <3>5
    <2> QED  BY <2>1, <2>2
  <1> QED  BY <1>1, <1>2, <1>3, <1>4 DEF NoUseAfterRelease

\* A producer takes a node from the pool.
LEMMA ListAdmit ==
  ASSUME Types, Types', NEW L \in Seq(Nodes), ListOK(L), NEW p \in Producers, PushAdmitted(p)
  PROVE  ListOK(L)'
  <1>0. Len(L) \in Nat /\ Len(L) >= 1 /\ \A i \in 1 .. Len(L) : L[i] \in Nodes
    BY DEF ListOK, Chain
  <1>1. PICK n \in free : /\ free' = free \ {n} /\ node' = [node EXCEPT ![p] = n]
                          /\ task' = [task EXCEPT ![n] = posted'] /\ next' = [next EXCEPT ![n] = None]
    BY DEF PushAdmitted
  <1>2. /\ ppc[p] = "idle" /\ ppc' = [ppc EXCEPT ![p] = "count"] /\ posted' \in Tasks
        /\ UNCHANGED <<tail, size, prev, head, cpc, cur, count, max, executed>>
    BY MailboxAssumption DEF PushAdmitted, GoP, consumerVars, Tasks, Types
  <1>3. \A i \in 1 .. Len(L) : L[i] # n  BY <1>0 DEF ListOK, Chain
  <1>4. /\ \A x \in Nodes : x # n => next'[x] = next[x] /\ task'[x] = task[x]
        /\ next'[n] = None /\ task'[n] = posted' /\ n \in Nodes /\ n \notin free'
    BY <1>1 DEF Types
  <1>5. /\ ppc'[p] = "count" /\ node'[p] = n
        /\ \A q \in Producers : q # p => ppc'[q] = ppc[q] /\ node'[q] = node[q]
    BY <1>1, <1>2 DEF Types
  <1>6. \A i \in 1 .. Len(L) : next'[L[i]] = next[L[i]] /\ task'[L[i]] = task[L[i]]
    BY <1>0, <1>3, <1>4
  <1>a. tail # n /\ cur # n /\ tail \in Nodes /\ cur \in Nodes  BY <1>1 DEF ListOK, Chain, Types
  <1>7. Chain(L)'
    <2>1. next'[tail] = None  BY <1>4, <1>a DEF ListOK, Chain
    <2>2. \A i \in 1 .. Len(L) : L[i] \notin free'  BY <1>1 DEF ListOK, Chain
    <2>3. \A i \in 1 .. Len(L) - 1 : next'[L[i]] = L[i + 1] \/ next'[L[i]] = None
      BY <1>0, <1>6 DEF ListOK, Chain
    <2> QED  BY <1>2, <2>1, <2>2, <2>3 DEF ListOK, Chain
  <1>8. Linking(L)'
    <2>1. ASSUME NEW q \in Producers, ppc'[q] = "link"
          PROVE  \E i \in 1 .. Len(L) - 1 : prev'[q] = L[i] /\ node'[q] = L[i + 1] /\ next'[L[i]] = None
      <3>1. q # p /\ ppc[q] = "link"  BY <1>5, <2>1
      <3>2. PICK i \in 1 .. Len(L) - 1 : prev[q] = L[i] /\ node[q] = L[i + 1] /\ next[L[i]] = None
        BY <3>1 DEF ListOK, Linking
      <3>3. i \in 1 .. Len(L)  BY <1>0
      <3> QED  BY <1>2, <1>5, <1>6, <3>1, <3>2, <3>3
    <2>2. ASSUME NEW q \in Producers, NEW r \in Producers, ppc'[q] = "link", ppc'[r] = "link",
                 prev'[q] = prev'[r]
          PROVE  q = r
      BY <1>2, <1>5, <2>2 DEF ListOK, Linking
    <2> QED  BY <2>1, <2>2 DEF Linking
  <1>9. Holding(L)'
    <2>1. \A q \in Producers : ppc'[q] = "idle" => node'[q] = None
      BY <1>5 DEF ListOK, Holding
    <2>2. \A q \in Producers : ppc'[q] # "link" => prev'[q] = None
      BY <1>2, <1>5 DEF ListOK, Holding
    <2>3. ASSUME NEW q \in Producers, ppc'[q] \in {"count", "swap"}
          PROVE  /\ node'[q] \in Nodes \ free' /\ next'[node'[q]] = None /\ task'[node'[q]] \in Tasks
                 /\ \A i \in 1 .. Len(L) : L[i] # node'[q]
      <3>1. CASE q = p  BY <1>2, <1>3, <1>4, <1>5, <3>1
      <3>2. CASE q # p
        <4>1. /\ node[q] \in Nodes \ free /\ next[node[q]] = None /\ task[node[q]] \in Tasks
              /\ \A i \in 1 .. Len(L) : L[i] # node[q]
          BY <1>5, <2>3, <3>2 DEF ListOK, Holding
        <4>2. node[q] # n  BY <4>1
        <4> QED  BY <1>1, <1>4, <1>5, <3>2, <4>1, <4>2
      <3> QED  BY <3>1, <3>2
    <2>4. ASSUME NEW q \in Producers, NEW r \in Producers, ppc'[q] \in {"count", "swap"},
                 ppc'[r] \in {"count", "swap"}, node'[q] = node'[r]
          PROVE  q = r
      <3>1. \A x \in Producers : x # p /\ ppc'[x] \in {"count", "swap"} => node'[x] # n
        BY <1>5 DEF ListOK, Holding
      <3> QED  BY <1>5, <2>4, <3>1 DEF ListOK, Holding
    <2> QED  BY <2>1, <2>2, <2>3, <2>4 DEF Holding
  <1>10. Accounted(L)'
    <2> SUFFICES ASSUME NEW x \in Nodes \ free'
                 PROVE  \/ \E i \in 1 .. Len(L) : L[i] = x
                        \/ \E q \in Producers : ppc'[q] \in {"count", "swap"} /\ node'[q] = x
      BY DEF Accounted
    <2>1. CASE x = n  BY <1>5, <2>1
    <2>2. CASE x # n
      <3>1. x \in Nodes \ free  BY <1>1, <2>2
      <3>2. CASE \E i \in 1 .. Len(L) : L[i] = x  BY <3>2
      <3>3. ASSUME NEW q \in Producers, ppc[q] \in {"count", "swap"}, node[q] = x
            PROVE  ppc'[q] \in {"count", "swap"} /\ node'[q] = x
        BY <1>2, <1>5, <3>3
      <3> QED  BY <3>1, <3>2, <3>3 DEF ListOK, Accounted
    <2> QED  BY <2>1, <2>2
  <1>11. Filled(L)'
    <2>1. \A i \in 2 .. Len(L) : i \in 1 .. Len(L)  BY <1>0
    <2>2. cpc' = "release" => next'[cur'] # None
      BY <1>2, <1>4, <1>a DEF ListOK, Filled
    <2> QED  BY <1>2, <1>6, <2>1, <2>2 DEF ListOK, Filled
  <1>12. Missing(L)'
    <2> SUFFICES ASSUME NEW i \in 1 .. Len(L) - 1, next'[L[i]] = None
                 PROVE  \E q \in Producers : ppc'[q] = "link" /\ prev'[q] = L[i] /\ node'[q] = L[i + 1]
      BY DEF Missing
    <2>1. next[L[i]] = None
      <3>1. i \in 1 .. Len(L)  BY <1>0
      <3> QED  BY <1>6, <3>1
    <2>2. PICK q \in Producers : ppc[q] = "link" /\ prev[q] = L[i] /\ node[q] = L[i + 1]
      BY <2>1 DEF ListOK, Missing
    <2>3. q # p  BY <1>2, <2>2
    <2> QED  BY <1>2, <1>5, <2>2, <2>3
  <1> QED  BY <1>7, <1>8, <1>9, <1>10, <1>11, <1>12 DEF ListOK

\* A producer exchanges the tail: its node joins the list.
LEMMA ListSwap ==
  ASSUME Types, Types', NEW L \in Seq(Nodes), ListOK(L), NEW p \in Producers, SwapTail(p)
  PROVE  \E M \in Seq(Nodes) : /\ ListOK(M)' /\ Len(M) = Len(L) + 1 /\ M[Len(M)] = node[p]
                                /\ \A i \in 1 .. Len(L) : M[i] = L[i]
  <1> DEFINE n == Len(L)
  <1>0. n \in Nat /\ n >= 1 /\ \A i \in 1 .. n : L[i] \in Nodes
    BY DEF ListOK, Chain
  <1>x. PICK x \in Nodes : node[p] = x
    BY DEF SwapTail, GoP, ListOK, Holding
  <1>1. /\ ppc[p] = "swap" /\ ppc' = [ppc EXCEPT ![p] = "link"] /\ prev' = [prev EXCEPT ![p] = tail]
        /\ tail' = x
        /\ UNCHANGED <<size, next, task, free, posted, node, head, cpc, cur, count, max, executed>>
    BY <1>x DEF SwapTail, GoP, consumerVars
  <1>2. /\ x \in Nodes \ free /\ next[x] = None /\ task[x] \in Tasks
        /\ \A i \in 1 .. n : L[i] # x
    BY <1>1, <1>x DEF ListOK, Holding
  <1>3. PICK M \in Seq(Nodes) : Len(M) = n + 1 /\ M[n + 1] = x /\ \A i \in 1 .. n : M[i] = L[i]
    <2>1. /\ Append(L, x) \in Seq(Nodes) /\ Len(Append(L, x)) = n + 1 /\ Append(L, x)[n + 1] = x
          /\ \A i \in 1 .. n : Append(L, x)[i] = L[i]
      OBVIOUS
    <2> QED  BY <2>1
  <1>y. Len(M) - 1 = n  BY <1>0, <1>3
  <1>4. /\ ppc'[p] = "link" /\ prev'[p] = tail
        /\ \A q \in Producers : q # p => ppc'[q] = ppc[q] /\ prev'[q] = prev[q]
    BY <1>1 DEF Types
  <1>5. /\ L[1] = cur /\ L[n] = tail /\ next[tail] = None
        /\ \A i, j \in 1 .. n : L[i] = L[j] => i = j
        /\ \A i \in 1 .. n : L[i] \notin free
        /\ \A i \in 1 .. n - 1 : next[L[i]] = L[i + 1] \/ next[L[i]] = None
    BY DEF ListOK, Chain
  <1> HIDE DEF n
  <1>6. Chain(M)'
    <2>1. Len(M) >= 1 /\ M[1] = cur' /\ M[Len(M)] = tail' /\ next'[tail'] = None
      BY <1>0, <1>1, <1>2, <1>3, <1>5
    <2>2. \A i, j \in 1 .. n + 1 : M[i] = M[j] => i = j
      <3> SUFFICES ASSUME NEW i \in 1 .. n + 1, NEW j \in 1 .. n + 1, M[i] = M[j] PROVE i = j
        OBVIOUS
      <3>1. CASE i \in 1 .. n /\ j \in 1 .. n  BY <1>3, <1>5, <3>1
      <3>2. CASE i \in 1 .. n /\ j = n + 1  BY <1>2, <1>3, <3>2
      <3>3. CASE i = n + 1 /\ j \in 1 .. n  BY <1>2, <1>3, <3>3
      <3> QED  BY <1>0, <3>1, <3>2, <3>3
    <2>3. \A i \in 1 .. n + 1 : M[i] \notin free'
      <3> TAKE i \in 1 .. n + 1
      <3>1. i \in 1 .. n \/ i = n + 1  BY <1>0
      <3> QED  BY <1>1, <1>2, <1>3, <1>5, <3>1
    <2>4. \A i \in 1 .. n : next'[M[i]] = M[i + 1] \/ next'[M[i]] = None
      <3> TAKE i \in 1 .. n
      <3>1. CASE i = n  BY <1>0, <1>1, <1>3, <1>5, <3>1
      <3>2. CASE i # n
        <4>1. i \in 1 .. n - 1 /\ i \in 1 .. n /\ i + 1 \in 1 .. n  BY <1>0, <3>2
        <4> QED  BY <1>1, <1>3, <1>5, <4>1
      <3> QED  BY <3>1, <3>2
    <2>5. \A i, j \in 1 .. Len(M) : M[i] = M[j] => i = j  BY <1>3, <2>2
    <2>6. \A i \in 1 .. Len(M) : M[i] \notin free'  BY <1>3, <2>3
    <2>7. \A i \in 1 .. Len(M) - 1 : next'[M[i]] = M[i + 1] \/ next'[M[i]] = None
      BY <1>y, <2>4
    <2> QED  BY <2>1, <2>5, <2>6, <2>7 DEF Chain
  <1>7. Linking(M)'
    <2>1. ASSUME NEW q \in Producers, ppc'[q] = "link"
          PROVE  \E i \in 1 .. n : prev'[q] = M[i] /\ node'[q] = M[i + 1] /\ next'[M[i]] = None
      <3>1. CASE q = p
        <4>1. n \in 1 .. n /\ prev'[p] = M[n] /\ node'[p] = M[n + 1] /\ next'[M[n]] = None
          BY <1>0, <1>1, <1>3, <1>4, <1>5, <1>x
        <4> QED  BY <3>1, <4>1
      <3>2. CASE q # p
        <4>1. PICK i \in 1 .. n - 1 : prev[q] = L[i] /\ node[q] = L[i + 1] /\ next[L[i]] = None
          <5>1. ppc[q] = "link" /\ Linking(L)  BY <1>4, <2>1, <3>2 DEF ListOK
          <5> QED  BY <5>1 DEF Linking, n
        <4>2. i \in 1 .. n /\ i + 1 \in 1 .. n /\ i \in 1 .. n  BY <1>0
        <4> QED  BY <1>1, <1>3, <1>4, <3>2, <4>1, <4>2
      <3> QED  BY <3>1, <3>2
    <2>2. ASSUME NEW q \in Producers, ppc[q] = "link" PROVE prev[q] # tail
      <3>1. PICK i \in 1 .. n - 1 : prev[q] = L[i]  BY <2>2 DEF ListOK, Linking, n
      <3>2. i \in 1 .. n /\ n \in 1 .. n /\ i # n  BY <1>0
      <3> QED  BY <1>5, <3>1, <3>2
    <2>3. ASSUME NEW q \in Producers, NEW r \in Producers, ppc'[q] = "link", ppc'[r] = "link",
                 prev'[q] = prev'[r]
          PROVE  q = r
      BY <1>4, <2>2, <2>3 DEF ListOK, Linking
    <2>4. \A q \in Producers : ppc'[q] = "link" =>
            \E i \in 1 .. Len(M) - 1 : prev'[q] = M[i] /\ node'[q] = M[i + 1] /\ next'[M[i]] = None
      BY <1>y, <2>1
    <2> QED  BY <2>3, <2>4 DEF Linking
  <1>8. Holding(M)'
    <2>1. \A q \in Producers : ppc'[q] = "idle" => node'[q] = None
      BY <1>1, <1>4 DEF ListOK, Holding
    <2>2. \A q \in Producers : ppc'[q] # "link" => prev'[q] = None
      BY <1>4 DEF ListOK, Holding
    <2>3. ASSUME NEW q \in Producers, ppc'[q] \in {"count", "swap"}
          PROVE  /\ node'[q] \in Nodes \ free' /\ next'[node'[q]] = None /\ task'[node'[q]] \in Tasks
                 /\ \A i \in 1 .. n + 1 : M[i] # node'[q]
      <3>1. q # p /\ ppc[q] \in {"count", "swap"}  BY <1>4, <2>3
      <3>2. /\ node[q] \in Nodes \ free /\ next[node[q]] = None /\ task[node[q]] \in Tasks
            /\ \A i \in 1 .. n : L[i] # node[q]
        BY <3>1 DEF ListOK, Holding, n
      <3>3. node[q] # x  BY <1>1, <1>x, <3>1 DEF ListOK, Holding
      <3>4. \A i \in 1 .. n + 1 : M[i] # node[q]
        <4> TAKE i \in 1 .. n + 1
        <4>1. i \in 1 .. n \/ i = n + 1  BY <1>0
        <4> QED  BY <1>3, <3>2, <3>3, <4>1
      <3> QED  BY <1>1, <3>2, <3>4
    <2>4. \A q, r \in Producers : ppc'[q] \in {"count", "swap"} /\ ppc'[r] \in {"count", "swap"}
                                    /\ node'[q] = node'[r] => q = r
      BY <1>1, <1>4 DEF ListOK, Holding
    <2> QED  BY <1>3, <2>1, <2>2, <2>3, <2>4 DEF Holding
  <1>9. Accounted(M)'
    <2> SUFFICES ASSUME NEW y \in Nodes \ free'
                 PROVE  \/ \E i \in 1 .. n + 1 : M[i] = y
                        \/ \E q \in Producers : ppc'[q] \in {"count", "swap"} /\ node'[q] = y
      BY <1>3 DEF Accounted
    <2>1. CASE y = x
      <3>1. n + 1 \in 1 .. n + 1 /\ M[n + 1] = y  BY <1>0, <1>3, <2>1
      <3> QED  BY <3>1
    <2>2. CASE y # x
      <3>1. ASSUME NEW i \in 1 .. n, L[i] = y PROVE \E j \in 1 .. n + 1 : M[j] = y
        <4>1. i \in 1 .. n + 1 /\ M[i] = y  BY <1>0, <1>3, <3>1
        <4> QED  BY <4>1
      <3>2. ASSUME NEW q \in Producers, ppc[q] \in {"count", "swap"}, node[q] = y
            PROVE  ppc'[q] \in {"count", "swap"} /\ node'[q] = y
        BY <1>1, <1>4, <2>2, <1>x, <3>2
      <3> QED  BY <1>1, <3>1, <3>2 DEF ListOK, Accounted, n
    <2> QED  BY <2>1, <2>2
  <1>10. Filled(M)'
    <2>1. \A i \in 2 .. n + 1 : (cpc' = "release" /\ i = 2) \/ task'[M[i]] \in Tasks
      <3> TAKE i \in 2 .. n + 1
      <3>1. CASE i = n + 1  BY <1>1, <1>2, <1>3, <3>1
      <3>2. CASE i # n + 1
        <4>1. i \in 2 .. n /\ i \in 1 .. n  BY <1>0, <3>2
        <4> QED  BY <1>1, <1>3, <4>1 DEF ListOK, Filled, n
      <3> QED  BY <3>1, <3>2
    <2> QED  BY <1>1, <1>3, <1>5, <2>1 DEF ListOK, Filled
  <1>11. Missing(M)'
    <2>1. ASSUME NEW i \in 1 .. n, next'[M[i]] = None
          PROVE  \E q \in Producers : ppc'[q] = "link" /\ prev'[q] = M[i] /\ node'[q] = M[i + 1]
      <3>1. CASE i = n  BY <1>1, <1>3, <1>4, <1>5, <1>x, <3>1
      <3>2. CASE i # n
        <4>1. i \in 1 .. n - 1 /\ i + 1 \in 1 .. n  BY <1>0, <3>2
        <4>2. M[i] = L[i] /\ M[i + 1] = L[i + 1] /\ next[L[i]] = None  BY <1>1, <1>3, <2>1, <4>1
        <4>3. PICK q \in Producers : ppc[q] = "link" /\ prev[q] = L[i] /\ node[q] = L[i + 1]
          BY <4>1, <4>2 DEF ListOK, Missing, n
        <4>4. q # p  BY <1>1, <4>3
        <4> QED  BY <1>1, <1>4, <4>2, <4>3, <4>4
      <3> QED  BY <3>1, <3>2
    <2> QED  BY <1>y, <2>1 DEF Missing
  <1>12. ListOK(M)'  BY <1>6, <1>7, <1>8, <1>9, <1>10, <1>11 DEF ListOK
  <1> QED  BY <1>3, <1>12, <1>x DEF n

\* A producer stores its link.
LEMMA ListLink ==
  ASSUME Types, Types', NEW L \in Seq(Nodes), ListOK(L), NEW p \in Producers, LinkNode(p)
  PROVE  ListOK(L)'
  <1> DEFINE n == Len(L)
  <1>0. n \in Nat /\ n >= 1 /\ \A i \in 1 .. n : L[i] \in Nodes
    BY DEF ListOK, Chain
  <1>1. /\ ppc[p] = "link" /\ ppc' = [ppc EXCEPT ![p] = "idle"]
        /\ next' = [next EXCEPT ![prev[p]] = node[p]] /\ node' = [node EXCEPT ![p] = None]
        /\ prev' = [prev EXCEPT ![p] = None]
        /\ UNCHANGED <<tail, size, task, free, posted, head, cpc, cur, count, max, executed>>
    BY DEF LinkNode, GoP, consumerVars
  <1>2. PICK k \in 1 .. n - 1 : prev[p] = L[k] /\ node[p] = L[k + 1] /\ next[L[k]] = None
    BY <1>1 DEF ListOK, Linking
  <1>3. k \in 1 .. n /\ k + 1 \in 1 .. n /\ k # n  BY <1>0
  <1>4. /\ ppc'[p] = "idle" /\ node'[p] = None /\ prev'[p] = None
        /\ \A q \in Producers : q # p => ppc'[q] = ppc[q] /\ node'[q] = node[q] /\ prev'[q] = prev[q]
    BY <1>1 DEF Types
  <1>5. next'[L[k]] = L[k + 1] /\ \A x \in Nodes : x # L[k] => next'[x] = next[x]
    BY <1>0, <1>1, <1>2, <1>3 DEF Types
  <1>6. /\ L[1] = cur /\ L[n] = tail /\ next[tail] = None
        /\ \A i, j \in 1 .. n : L[i] = L[j] => i = j
        /\ \A i \in 1 .. n : L[i] \notin free
        /\ \A i \in 1 .. n - 1 : next[L[i]] = L[i + 1] \/ next[L[i]] = None
    BY DEF ListOK, Chain
  <1> HIDE DEF n
  <1>7. \A i \in 1 .. n : i # k => next'[L[i]] = next[L[i]]  BY <1>0, <1>3, <1>5, <1>6
  <1>8. Chain(L)'
    <2>1. next'[tail] = None
      <3>1. n \in 1 .. n  BY <1>0
      <3> QED  BY <1>3, <1>6, <1>7, <3>1
    <2>2. \A i \in 1 .. n - 1 : next'[L[i]] = L[i + 1] \/ next'[L[i]] = None
      <3> TAKE i \in 1 .. n - 1
      <3>1. CASE i = k  BY <1>5, <3>1
      <3>2. CASE i # k
        <4>1. i \in 1 .. n  BY <1>0
        <4> QED  BY <1>6, <1>7, <3>2, <4>1
      <3> QED  BY <3>1, <3>2
    <2> QED  BY <1>0, <1>1, <1>6, <2>1, <2>2 DEF Chain, n
  <1>9. Linking(L)'
    <2>1. ASSUME NEW q \in Producers, ppc'[q] = "link"
          PROVE  \E i \in 1 .. n - 1 : prev'[q] = L[i] /\ node'[q] = L[i + 1] /\ next'[L[i]] = None
      <3>1. q # p /\ ppc[q] = "link"  BY <1>4, <2>1
      <3>2. PICK i \in 1 .. n - 1 : prev[q] = L[i] /\ node[q] = L[i + 1] /\ next[L[i]] = None
        BY <3>1 DEF ListOK, Linking, n
      <3>3. i # k  BY <1>1, <1>2, <3>1, <3>2 DEF ListOK, Linking
      <3>4. i \in 1 .. n  BY <1>0
      <3> QED  BY <1>4, <1>7, <3>1, <3>2, <3>3, <3>4
    <2>2. ASSUME NEW q \in Producers, NEW r \in Producers, ppc'[q] = "link", ppc'[r] = "link",
                 prev'[q] = prev'[r]
          PROVE  q = r
      BY <1>4, <2>2 DEF ListOK, Linking
    <2> QED  BY <2>1, <2>2 DEF Linking, n
  <1>10. Holding(L)'
    <2>1. \A q \in Producers : ppc'[q] = "idle" => node'[q] = None  BY <1>4 DEF ListOK, Holding
    <2>2. \A q \in Producers : ppc'[q] # "link" => prev'[q] = None  BY <1>4 DEF ListOK, Holding
    <2>3. ASSUME NEW q \in Producers, ppc'[q] \in {"count", "swap"}
          PROVE  /\ node'[q] \in Nodes \ free' /\ next'[node'[q]] = None /\ task'[node'[q]] \in Tasks
                 /\ \A i \in 1 .. Len(L) : L[i] # node'[q]
      <3>1. q # p /\ ppc[q] \in {"count", "swap"}  BY <1>4, <2>3
      <3>2. /\ node[q] \in Nodes \ free /\ next[node[q]] = None /\ task[node[q]] \in Tasks
            /\ \A i \in 1 .. n : L[i] # node[q]
        BY <3>1 DEF ListOK, Holding, n
      <3>3. next'[node[q]] = None  BY <1>3, <1>5, <3>2
      <3> QED  BY <1>1, <1>4, <3>1, <3>2, <3>3 DEF n
    <2>4. \A q, r \in Producers : ppc'[q] \in {"count", "swap"} /\ ppc'[r] \in {"count", "swap"}
                                    /\ node'[q] = node'[r] => q = r
      BY <1>4 DEF ListOK, Holding
    <2> QED  BY <2>1, <2>2, <2>3, <2>4 DEF Holding
  <1>11. Accounted(L)'
    <2> SUFFICES ASSUME NEW y \in Nodes \ free
                 PROVE  \/ \E i \in 1 .. Len(L) : L[i] = y
                        \/ \E q \in Producers : ppc'[q] \in {"count", "swap"} /\ node'[q] = y
      BY <1>1 DEF Accounted
    <2>1. \A q \in Producers : ppc[q] \in {"count", "swap"} => ppc'[q] = ppc[q] /\ node'[q] = node[q]
      BY <1>1, <1>4
    <2> QED  BY <2>1 DEF ListOK, Accounted
  <1>12. Filled(L)'
    <2>1. cpc' = "release" => next'[cur'] # None
      <3>1. L[k + 1] # None  BY <1>0, <1>3, MailboxAssumption
      <3>2. cur \in Nodes  BY DEF Types
      <3> QED  BY <1>1, <1>5, <3>1, <3>2 DEF ListOK, Filled
    <2> QED  BY <1>1, <2>1 DEF ListOK, Filled
  <1>13. Missing(L)'
    <2> SUFFICES ASSUME NEW i \in 1 .. n - 1, next'[L[i]] = None
                 PROVE  \E q \in Producers : ppc'[q] = "link" /\ prev'[q] = L[i] /\ node'[q] = L[i + 1]
      BY DEF Missing, n
    <2>1. i \in 1 .. n /\ None \notin Nodes  BY <1>0, MailboxAssumption
    <2>2. i # k  BY <1>0, <1>3, <1>5, <2>1
    <2>3. next[L[i]] = None /\ L[i] # L[k]  BY <1>3, <1>6, <1>7, <2>1, <2>2
    <2>4. PICK q \in Producers : ppc[q] = "link" /\ prev[q] = L[i] /\ node[q] = L[i + 1]
      BY <2>3 DEF ListOK, Missing, n
    <2>5. q # p  BY <1>2, <2>3, <2>4
    <2> QED  BY <1>4, <2>4, <2>5
  <1> QED  BY <1>8, <1>9, <1>10, <1>11, <1>12, <1>13 DEF ListOK

\* The node behind the consumer's.
LEMMA Second ==
  ASSUME Types, NEW L \in Seq(Nodes), ListOK(L), next[cur] # None
  PROVE  Len(L) >= 2 /\ next[cur] = L[2] /\ 2 \in 1 .. Len(L) /\ next[L[1]] # None
  <1>1. /\ Len(L) \in Nat /\ Len(L) >= 1 /\ L[1] = cur /\ L[Len(L)] = tail /\ next[tail] = None
        /\ \A i \in 1 .. Len(L) - 1 : next[L[i]] = L[i + 1] \/ next[L[i]] = None
    BY DEF ListOK, Chain
  <1>2. Len(L) # 1  BY <1>1
  <1>3. 1 \in 1 .. Len(L) - 1 /\ 1 + 1 = 2  BY <1>1, <1>2
  <1> QED  BY <1>1, <1>2, <1>3

\* The consumer moves a task out.
LEMMA ListTake ==
  ASSUME Types, Types', NEW L \in Seq(Nodes), ListOK(L), TakeTask
  PROVE  ListOK(L)'
  <1>0. /\ Len(L) \in Nat /\ \A i \in 1 .. Len(L) : L[i] \in Nodes
        /\ \A i, j \in 1 .. Len(L) : L[i] = L[j] => i = j
    BY DEF ListOK, Chain
  <1>1. /\ cpc \in {"loop", "spin"} /\ cpc' = "release" /\ next[cur] # None
        /\ executed' = Append(executed, task[next[cur]])
        /\ task' = [task EXCEPT ![next[cur]] = NoTask]
        /\ UNCHANGED <<tail, size, next, free, posted, ppc, node, prev, head, cur, count, max>>
    BY DEF TakeTask, producerVars
  <1>2. Len(L) >= 2 /\ next[cur] = L[2] /\ 2 \in 1 .. Len(L)  BY <1>1, Second
  <1>3. \A x \in Nodes : x # L[2] => task'[x] = task[x]  BY <1>0, <1>1, <1>2 DEF Types
  <1>4. task[L[2]] \in Tasks
    <2>1. 2 \in 2 .. Len(L)  BY <1>0, <1>2
    <2> QED  BY <1>1, <2>1 DEF ListOK, Filled
  <1>5. Chain(L)'  BY <1>1 DEF ListOK, Chain
  <1>6. Linking(L)'  BY <1>1 DEF ListOK, Linking
  <1>7. Holding(L)'
    <2>1. ASSUME NEW q \in Producers, ppc[q] \in {"count", "swap"}
          PROVE  task'[node[q]] \in Tasks
      BY <1>2, <1>3, <2>1 DEF ListOK, Holding
    <2> QED  BY <1>1, <2>1 DEF ListOK, Holding
  <1>8. Accounted(L)'  BY <1>1 DEF ListOK, Accounted
  <1>9. Filled(L)'
    <2>1. ASSUME NEW i \in 2 .. Len(L), i # 2 PROVE task'[L[i]] \in Tasks
      <3>1. i \in 1 .. Len(L) /\ L[i] # L[2] /\ L[i] \in Nodes  BY <1>0, <1>2, <2>1
      <3> QED  BY <1>1, <1>3, <3>1 DEF ListOK, Filled
    <2>2. executed' \in Seq(Tasks)  BY <1>1, <1>2, <1>4 DEF ListOK, Filled
    <2> QED  BY <1>1, <2>1, <2>2 DEF Filled
  <1>10. Missing(L)'  BY <1>1 DEF ListOK, Missing
  <1> QED  BY <1>5, <1>6, <1>7, <1>8, <1>9, <1>10 DEF ListOK

\* The consumer gives its node back and goes on to the next one.
LEMMA ListRelease ==
  ASSUME Types, Types', NEW L \in Seq(Nodes), ListOK(L), ReleaseOld
  PROVE  \E M \in Seq(Nodes) : /\ ListOK(M)' /\ Len(M) = Len(L) - 1 /\ Len(L) >= 2
                                /\ \A i \in 1 .. Len(M) : M[i] = L[i + 1]
  <1> DEFINE n == Len(L)
  <1>0. n \in Nat /\ n >= 1 /\ \A i \in 1 .. n : L[i] \in Nodes
    BY DEF ListOK, Chain
  <1>1. /\ cpc = "release" /\ cpc' = "loop" /\ cur' = next[cur] /\ free' = free \cup {cur}
        /\ UNCHANGED <<tail, size, next, task, posted, ppc, node, prev, head, max, executed>>
    BY DEF ReleaseOld, GoC, producerVars
  <1>2. next[cur] # None  BY <1>1 DEF ListOK, Filled
  <1>3. n >= 2 /\ next[cur] = L[2] /\ 2 \in 1 .. n /\ next[L[1]] # None  BY <1>2, Second
  <1>4. PICK M \in Seq(Nodes) : Len(M) = n - 1 /\ \A i \in 1 .. n - 1 : M[i] = L[i + 1]
    <2>1. Tail(L) \in Seq(Nodes) /\ Len(Tail(L)) = n - 1 /\ \A i \in 1 .. n - 1 : Tail(L)[i] = L[i + 1]
      BY <1>3
    <2> QED  BY <2>1
  <1>5. /\ L[1] = cur /\ L[n] = tail /\ next[tail] = None
        /\ \A i, j \in 1 .. n : L[i] = L[j] => i = j
        /\ \A i \in 1 .. n : L[i] \notin free
        /\ \A i \in 1 .. n - 1 : next[L[i]] = L[i + 1] \/ next[L[i]] = None
    BY DEF ListOK, Chain
  <1> HIDE DEF n
  <1>6. \A i \in 1 .. n - 1 : i + 1 \in 1 .. n /\ i + 1 # 1  BY <1>0
  <1>7. \A i \in 1 .. n - 1 : M[i] # cur /\ M[i] \notin free'
    <2> TAKE i \in 1 .. n - 1
    <2>1. 1 \in 1 .. n  BY <1>0
    <2> QED  BY <1>1, <1>4, <1>5, <1>6, <2>1
  <1>8. Chain(M)'
    <2>1. Len(M) >= 1 /\ M[1] = cur'  BY <1>0, <1>1, <1>3, <1>4
    <2>2. M[Len(M)] = tail' /\ next'[tail'] = None  BY <1>0, <1>1, <1>3, <1>4, <1>5
    <2>3. \A i, j \in 1 .. n - 1 : M[i] = M[j] => i = j
      <3> SUFFICES ASSUME NEW i \in 1 .. n - 1, NEW j \in 1 .. n - 1, M[i] = M[j] PROVE i = j
        OBVIOUS
      <3>1. i + 1 = j + 1  BY <1>4, <1>5, <1>6
      <3> QED  BY <3>1
    <2>4. \A i \in 1 .. n - 1 - 1 : next'[M[i]] = M[i + 1] \/ next'[M[i]] = None
      <3> TAKE i \in 1 .. n - 1 - 1
      <3>1. i \in 1 .. n - 1 /\ i + 1 \in 1 .. n - 1  BY <1>0
      <3> QED  BY <1>1, <1>4, <1>5, <3>1
    <2>5. \A i, j \in 1 .. Len(M) : M[i] = M[j] => i = j  BY <1>4, <2>3
    <2>6. \A i \in 1 .. Len(M) : M[i] \notin free'  BY <1>4, <1>7
    <2>7. \A i \in 1 .. Len(M) - 1 : next'[M[i]] = M[i + 1] \/ next'[M[i]] = None
      BY <1>4, <2>4
    <2> QED  BY <2>1, <2>2, <2>5, <2>6, <2>7 DEF Chain
  <1>9. Linking(M)'
    <2>1. ASSUME NEW q \in Producers, ppc'[q] = "link"
          PROVE  \E i \in 1 .. Len(M) - 1 : prev'[q] = M[i] /\ node'[q] = M[i + 1] /\ next'[M[i]] = None
      <3>1. PICK i \in 1 .. n - 1 : prev[q] = L[i] /\ node[q] = L[i + 1] /\ next[L[i]] = None
        BY <1>1, <2>1 DEF ListOK, Linking, n
      <3>2. i # 1  BY <1>3, <3>1
      <3> DEFINE j == i - 1
      <3>3. j \in 1 .. n - 1 /\ j + 1 \in 1 .. n - 1 /\ j + 1 = i /\ j \in 1 .. Len(M) - 1
        BY <1>0, <1>4, <3>2
      <3> HIDE DEF j
      <3>4. M[j] = L[i] /\ M[j + 1] = L[i + 1]  BY <1>4, <3>3
      <3> QED  BY <1>1, <3>1, <3>3, <3>4
    <2>2. \A q, r \in Producers : ppc'[q] = "link" /\ ppc'[r] = "link" /\ prev'[q] = prev'[r] => q = r
      BY <1>1 DEF ListOK, Linking
    <2> QED  BY <2>1, <2>2 DEF Linking
  <1>10. Holding(M)'
    <2>1. ASSUME NEW q \in Producers, ppc[q] \in {"count", "swap"}
          PROVE  node[q] \notin free' /\ \A i \in 1 .. Len(M) : M[i] # node[q]
      <3>1. node[q] \notin free /\ \A i \in 1 .. n : L[i] # node[q]
        BY <2>1 DEF ListOK, Holding, n
      <3>2. 1 \in 1 .. n  BY <1>0
      <3>3. node[q] \notin free'  BY <1>1, <1>5, <3>1, <3>2
      <3>4. \A i \in 1 .. n - 1 : M[i] # node[q]  BY <1>4, <1>6, <3>1
      <3> QED  BY <1>4, <3>3, <3>4
    <2> QED  BY <1>1, <2>1 DEF ListOK, Holding
  <1>11. Accounted(M)'
    <2> SUFFICES ASSUME NEW y \in Nodes \ free'
                 PROVE  \/ \E i \in 1 .. Len(M) : M[i] = y
                        \/ \E q \in Producers : ppc'[q] \in {"count", "swap"} /\ node'[q] = y
      BY DEF Accounted
    <2>1. y \in Nodes \ free /\ y # cur  BY <1>1
    <2>2. ASSUME NEW i \in 1 .. n, L[i] = y PROVE \E j \in 1 .. Len(M) : M[j] = y
      <3>1. i # 1  BY <1>5, <2>1, <2>2
      <3> DEFINE j == i - 1
      <3>2. j \in 1 .. n - 1 /\ j + 1 = i /\ j \in 1 .. Len(M)  BY <1>0, <1>4, <3>1
      <3> HIDE DEF j
      <3>3. M[j] = y  BY <1>4, <2>2, <3>2
      <3> QED  BY <3>2, <3>3
    <2> QED  BY <1>1, <2>1, <2>2 DEF ListOK, Accounted, n
  <1>12. Filled(M)'
    <2>1. ASSUME NEW i \in 2 .. Len(M) PROVE task'[M[i]] \in Tasks
      <3>1. i \in 1 .. n - 1 /\ i + 1 \in 2 .. n /\ i + 1 # 2  BY <1>0, <1>4
      <3>2. M[i] = L[i + 1]  BY <1>4, <3>1
      <3>3. task[L[i + 1]] \in Tasks  BY <3>1 DEF ListOK, Filled, n
      <3> QED  BY <1>1, <3>2, <3>3
    <2> QED  BY <1>1, <2>1 DEF ListOK, Filled
  <1>13. Missing(M)'
    <2> SUFFICES ASSUME NEW i \in 1 .. Len(M) - 1, next'[M[i]] = None
                 PROVE  \E q \in Producers : ppc'[q] = "link" /\ prev'[q] = M[i] /\ node'[q] = M[i + 1]
      BY DEF Missing
    <2>1. i + 1 \in 1 .. n - 1 /\ i \in 1 .. n - 1  BY <1>0, <1>4
    <2>2. M[i] = L[i + 1] /\ M[i + 1] = L[i + 1 + 1] /\ next[L[i + 1]] = None  BY <1>1, <1>4, <2>1
    <2>3. PICK q \in Producers : ppc[q] = "link" /\ prev[q] = L[i + 1] /\ node[q] = L[i + 1 + 1]
      BY <2>1, <2>2 DEF ListOK, Missing, n
    <2> QED  BY <1>1, <2>2, <2>3
  <1>14. ListOK(M)'  BY <1>8, <1>9, <1>10, <1>11, <1>12, <1>13 DEF ListOK
  <1> QED  BY <1>0, <1>3, <1>4, <1>14 DEF n

\* The other steps leave the list as it is.
LEMMA ListStays ==
  ASSUME Types, Types', NEW L \in Seq(Nodes), ListOK(L), [Next]_vars,
         ~ReleaseOld, \A p \in Producers : ~SwapTail(p)
  PROVE  ListOK(L)'
  <1>1. ASSUME NEW p \in Producers, PushRefused(p) \/ CountNode(p) PROVE ListOK(L)'
    <2> USE <1>1
    <2>1. cpc' = cpc /\ head' = head /\ UNCHANGED <<tail, next, task, free, node, prev, cur, executed>>
      BY DEF PushRefused, CountNode, producerVars, consumerVars
    <2>2. \A q \in Producers : ppc'[q] = ppc[q] \/ (ppc[q] = "count" /\ ppc'[q] = "swap")
      BY DEF PushRefused, CountNode, GoP, producerVars, Types
    <2>3. Chain(L)'  BY <2>1 DEF ListOK, Chain
    <2>4. Linking(L)'  BY <2>1, <2>2 DEF ListOK, Linking
    <2>5. Missing(L)'  BY <2>1, <2>2 DEF ListOK, Missing
    <2>6. Holding(L)'  BY <2>1, <2>2 DEF ListOK, Holding
    <2>7. Accounted(L)'  BY <2>1, <2>2 DEF ListOK, Accounted
    <2>8. Filled(L)'  BY <2>1 DEF ListOK, Filled
    <2> QED  BY <2>3, <2>4, <2>5, <2>6, <2>7, <2>8 DEF ListOK
  <1>2. ASSUME BeginPop \/ StartSpin \/ EndLoop \/ Settle PROVE ListOK(L)'
    <2> USE <1>2
    <2>1. UNCHANGED <<tail, next, task, free, node, prev, ppc, executed>>
      BY DEF BeginPop, StartSpin, EndLoop, Settle, producerVars
    <2>2. cur' = cur /\ cpc # "release" /\ cpc' # "release" /\ (cpc' = "idle" => head' = cur)
      BY DEF BeginPop, StartSpin, EndLoop, Settle, GoC, ListOK, Filled
    <2>3. Chain(L)'  BY <2>1, <2>2 DEF ListOK, Chain
    <2>4. Linking(L)'  BY <2>1, <2>2 DEF ListOK, Linking
    <2>5. Missing(L)'  BY <2>1, <2>2 DEF ListOK, Missing
    <2>6. Holding(L)'  BY <2>1, <2>2 DEF ListOK, Holding
    <2>7. Accounted(L)'  BY <2>1, <2>2 DEF ListOK, Accounted
    <2>8. Filled(L)'  BY <2>1, <2>2 DEF ListOK, Filled
    <2> QED  BY <2>3, <2>4, <2>5, <2>6, <2>7, <2>8 DEF ListOK
  <1>3. CASE UNCHANGED vars
    <2> USE <1>1, <1>3 DEF vars, producerVars, consumerVars
    <2>1. Chain(L)'  BY DEF ListOK, Chain
    <2>2. Linking(L)'  BY DEF ListOK, Linking
    <2>3. Missing(L)'  BY DEF ListOK, Missing
    <2>4. Holding(L)'  BY DEF ListOK, Holding
    <2>5. Accounted(L)'  BY DEF ListOK, Accounted
    <2>6. Filled(L)'  BY DEF ListOK, Filled
    <2>7. ListOK(L)'  BY <2>1, <2>2, <2>3, <2>4, <2>5, <2>6 DEF ListOK
    <2> QED  BY <2>7
  <1>4. ASSUME NEW p \in Producers, PushAdmitted(p) PROVE ListOK(L)'
    BY <1>4, ListAdmit
  <1>5. ASSUME NEW p \in Producers, LinkNode(p) PROVE ListOK(L)'  BY <1>5, ListLink
  <1>6. ASSUME TakeTask PROVE ListOK(L)'  BY <1>6, ListTake
  <1> QED  BY <1>1, <1>2, <1>3, <1>4, <1>5, <1>6 DEF Next, Pop, Push, FinishPush

\* Every step keeps a list.
LEMMA ListStep == ASSUME ListInv, [Next]_vars PROVE ListInv'
  <1>1. PICK L \in Seq(Nodes) : ListOK(L)  BY DEF ListInv
  <1>2. Types /\ Pointers  BY <1>1, ListPointers DEF ListInv
  <1>3. Types'  BY <1>2, TypesStep
  <1> SUFFICES \E M \in Seq(Nodes) : ListOK(M)'  BY <1>3 DEF ListInv
  <1>4. ASSUME NEW p \in Producers, SwapTail(p) PROVE \E M \in Seq(Nodes) : ListOK(M)'
    BY <1>1, <1>2, <1>3, <1>4, ListSwap
  <1>5. ASSUME ReleaseOld PROVE \E M \in Seq(Nodes) : ListOK(M)'
    BY <1>1, <1>2, <1>3, <1>5, ListRelease
  <1>6. ASSUME ~ReleaseOld, \A p \in Producers : ~SwapTail(p) PROVE ListOK(L)'
    BY <1>1, <1>2, <1>3, <1>6, ListStays
  <1> QED  BY <1>1, <1>4, <1>5, <1>6

LEMMA ListInit == Init => ListInv
  <1> SUFFICES ASSUME Init PROVE \E L \in Seq(Nodes) : ListOK(L)  BY TypesInit DEF ListInv
  <1>1. PICK d \in Nodes : head = d /\ tail = d /\ cur = d /\ free = Nodes \ {d}  BY DEF Init
  <1>2. /\ next = [n \in Nodes |-> None] /\ ppc = [p \in Producers |-> "idle"] /\ cpc = "idle"
        /\ node = [p \in Producers |-> None] /\ prev = [p \in Producers |-> None]
        /\ executed = << >>
    BY DEF Init
  <1>3. PICK L \in Seq(Nodes) : Len(L) = 1 /\ L[1] = d
    <2>1. <<d>> \in Seq(Nodes) /\ Len(<<d>>) = 1 /\ <<d>>[1] = d  OBVIOUS
    <2> QED  BY <2>1
  <1>4. Chain(L)  BY <1>1, <1>2, <1>3 DEF Chain
  <1>5. Linking(L)  BY <1>2 DEF Linking
  <1>6. Holding(L)  BY <1>2 DEF Holding
  <1>7. Accounted(L)
    <2>1. 1 \in 1 .. Len(L)  BY <1>3
    <2> QED  BY <1>1, <1>3, <2>1 DEF Accounted
  <1>8. Filled(L)
    <2>1. 2 .. Len(L) = {}  BY <1>3
    <2> QED  BY <1>1, <1>2, <2>1 DEF Filled
  <1>9. Missing(L)
    <2>1. 1 .. Len(L) - 1 = {}  BY <1>3
    <2> QED  BY <2>1 DEF Missing
  <1>10. ListOK(L)  BY <1>4, <1>5, <1>6, <1>7, <1>8, <1>9 DEF ListOK
  <1> QED  BY <1>10

LEMMA ListCorrect == Spec => []ListInv
  BY ListInit, ListStep, PTL DEF Spec

\* The variables keep their types.
THEOREM TypeCorrect == Spec => []TypeOK
  <1>1. ListInv => TypeOK  BY DEF ListInv, ListOK, Filled, Types, TypeOK
  <1> QED  BY <1>1, ListCorrect, PTL

\* A node goes back to the pool only when nobody will read it or link behind it,
\* with any number of producers (Mailbox.h:102).
THEOREM ReleasedIsUnused == Spec => []NoUseAfterRelease
  <1>1. ListInv => NoUseAfterRelease
    <2> SUFFICES ASSUME ListInv PROVE NoUseAfterRelease  OBVIOUS
    <2>1. PICK L \in Seq(Nodes) : ListOK(L)  BY DEF ListInv
    <2> QED  BY <2>1, ListIsSafe DEF ListInv
  <1> QED  BY <1>1, ListCorrect, PTL

-----------------------------------------------------------------------------
(* The limit *)

\* What counting a producer in or out does.
LEMMA CountedFinite ==
  ASSUME Types
  PROVE  /\ IsFiniteSet(Pushing({"count"})) /\ Cardinality(Pushing({"count"})) \in Nat
         /\ Cardinality(Producers) \in Nat
  <1>1. Pushing({"count"}) \subseteq Producers  BY DEF Pushing
  <1> QED  BY <1>1, MailboxAssumption, FS_Subset, FS_CardinalityType

LEMMA SizeStep == ASSUME Types, Types', SizeBounded, [Next]_vars PROVE SizeBounded'
  <1> DEFINE C == Pushing({"count"})
  <1>0. IsFiniteSet(C) /\ Cardinality(C) \in Nat /\ Cardinality(Producers) \in Nat
        /\ size \in Int /\ count \in Nat /\ MaxMailbox \in Nat /\ C \subseteq Producers
    BY CountedFinite, MailboxAssumption DEF Types, Pushing
  <1>1. ASSUME NEW p \in Producers, PushAdmitted(p) PROVE SizeBounded'
    <2>1. C' = C \cup {p} /\ p \notin C /\ size' = size /\ size < MaxMailbox
      BY <1>1 DEF PushAdmitted, GoP, Pushing, Types
    <2>2. Cardinality(C') = Cardinality(C) + 1  BY <1>0, <2>1, FS_AddElement
    <2>3. Cardinality(C') <= Cardinality(Producers)
      <3>1. C' \subseteq Producers  BY DEF Pushing
      <3> QED  BY <3>1, MailboxAssumption, FS_Subset
    <2>4. size' + Cardinality(C') <= MaxMailbox + Cardinality(Producers) - 1
      BY <1>0, <2>1, <2>2, <2>3
    <2> QED  BY <2>4 DEF SizeBounded
  <1>2. ASSUME NEW p \in Producers, CountNode(p) PROVE SizeBounded'
    <2>1. C' = C \ {p} /\ p \in C /\ size' = size + 1
      BY <1>2 DEF CountNode, GoP, Pushing, Types
    <2>2. Cardinality(C') = Cardinality(C) - 1  BY <1>0, <2>1, FS_RemoveElement
    <2>3. size + Cardinality(C) <= MaxMailbox + Cardinality(Producers) - 1  BY DEF SizeBounded
    <2>4. size' + Cardinality(C') <= MaxMailbox + Cardinality(Producers) - 1
      BY <1>0, <2>1, <2>2, <2>3
    <2> QED  BY <2>4 DEF SizeBounded
  <1>3. CASE Settle
    <2>1. C' = C /\ size' = size - count  BY <1>3 DEF Settle, Pushing, producerVars
    <2>2. size + Cardinality(C) <= MaxMailbox + Cardinality(Producers) - 1  BY DEF SizeBounded
    <2>3. size' + Cardinality(C') <= MaxMailbox + Cardinality(Producers) - 1
      BY <1>0, <2>1, <2>2
    <2> QED  BY <2>3 DEF SizeBounded
  <1>4. ASSUME C' = C, size' = size PROVE SizeBounded'  BY <1>4 DEF SizeBounded
  <1>5. ASSUME NEW p \in Producers, PushRefused(p) \/ SwapTail(p) \/ LinkNode(p)
        PROVE  C' = C /\ size' = size
    BY <1>5 DEF PushRefused, SwapTail, LinkNode, GoP, Pushing, Types, producerVars
  <1>6. ASSUME BeginPop \/ TakeTask \/ ReleaseOld \/ StartSpin \/ EndLoop \/ UNCHANGED vars
        PROVE  C' = C /\ size' = size
    BY <1>6 DEF BeginPop, TakeTask, ReleaseOld, StartSpin, EndLoop, Pushing, producerVars, vars
  <1> QED  BY <1>1, <1>2, <1>3, <1>4, <1>5, <1>6 DEF Next, Pop, Push, FinishPush

\* The counter passes the capacity by at most one push for each other producer
\* (Mailbox.h:43).
THEOREM CapacityKept == Spec => []SizeBounded
  <1>1. Init => SizeBounded
    <2> SUFFICES ASSUME Init PROVE SizeBounded  OBVIOUS
    <2>1. size = 0 /\ Pushing({"count"}) = {}  BY DEF Init, Pushing
    <2>2. Cardinality(Pushing({"count"})) = 0 /\ Cardinality(Producers) \in Nat
      BY <2>1, FS_EmptySet, MailboxAssumption, FS_CardinalityType
    <2> QED  BY <2>1, <2>2, MailboxAssumption DEF SizeBounded
  <1>2. ListInv => Types  BY DEF ListInv
  <1> QED  BY <1>1, <1>2, ListCorrect, SizeStep, PTL DEF Spec

-----------------------------------------------------------------------------
(* What waits in the list *)

\* Induction over the natural numbers, for a set.
LEMMA Induction ==
  ASSUME NEW S, 0 \in S, \A n \in Nat : n \in S => n + 1 \in S
  PROVE  Nat \subseteq S
  <1> SUFFICES ASSUME Nat \ S # {} PROVE FALSE  OBVIOUS
  <1>1. PICK x \in Nat \ S : \A y \in Nat \ S : ~(<<y, x>> \in OpToRel(<, Nat))
    BY WFMin, NatLessThanWellFounded, Zenon
  <1>2. \A y \in Nat \ S : ~(y < x)
    BY <1>1 DEF OpToRel
  <1>3. x - 1 \in Nat /\ x - 1 \in S  BY <1>2
  <1> QED  BY <1>3

\* The place of the dummy in the list: while the consumer is about to give its node
\* back, the dummy is already the next one.
Dummy == IF cpc = "release" THEN 2 ELSE 1

\* The tasks of the nodes behind the dummy.
Content(L) == [i \in 1 .. Len(L) - Dummy |-> task[L[i + Dummy]]]

\* Successor follows the list.
LEMMA SuccessorIs ==
  ASSUME Types, NEW L \in Seq(Nodes), ListOK(L)
  PROVE  /\ \A i \in 1 .. Len(L) - 1 : Successor[L[i]] = L[i + 1]
         /\ Successor[tail] = None /\ Successor[None] = None
  <1>0. /\ Len(L) \in Nat /\ Len(L) >= 1 /\ \A i \in 1 .. Len(L) : L[i] \in Nodes
        /\ L[Len(L)] = tail /\ next[tail] = None /\ None \notin Nodes /\ tail \in Nodes
        /\ \A i, j \in 1 .. Len(L) : L[i] = L[j] => i = j
        /\ \A i \in 1 .. Len(L) - 1 : next[L[i]] = L[i + 1] \/ next[L[i]] = None
    <2>1. Chain(L) /\ None \notin Nodes /\ tail \in Nodes /\ \A i \in 1 .. Len(L) : L[i] \in Nodes
      BY MailboxAssumption DEF ListOK, Types
    <2> QED  BY <2>1 DEF Chain
  <1>1. ASSUME NEW i \in 1 .. Len(L) - 1 PROVE Follows(L[i]) = {L[i + 1]} /\ L[i] \in Nodes
    <2>0. i \in 1 .. Len(L) /\ i + 1 \in 1 .. Len(L) /\ L[i + 1] # None  BY <1>0
    <2>1. CASE next[L[i]] = L[i + 1]  BY <1>0, <2>0, <2>1 DEF Follows
    <2>2. CASE next[L[i]] = None
      <3>1. ASSUME NEW p \in Producers, ppc[p] = "link", prev[p] = L[i] PROVE node[p] = L[i + 1]
        <4>1. PICK j \in 1 .. Len(L) - 1 : prev[p] = L[j] /\ node[p] = L[j + 1]
          BY <3>1 DEF ListOK, Linking
        <4>2. j \in 1 .. Len(L)  BY <1>0
        <4>3. j = i  BY <1>0, <2>0, <3>1, <4>1, <4>2
        <4> QED  BY <4>1, <4>3
      <3>2. \E p \in Producers : ppc[p] = "link" /\ prev[p] = L[i]
        BY <2>2 DEF ListOK, Missing
      <3>3. Follows(L[i]) = {node[p] : p \in {q \in Producers : ppc[q] = "link" /\ prev[q] = L[i]}}
        BY <2>2 DEF Follows
      <3> QED  BY <1>0, <2>0, <3>1, <3>2, <3>3
    <2> QED  BY <1>0, <2>1, <2>2
  <1>2. Follows(tail) = {}
    <2>1. ASSUME NEW p \in Producers, ppc[p] = "link" PROVE prev[p] # tail
      <3>1. PICK j \in 1 .. Len(L) - 1 : prev[p] = L[j]  BY <2>1 DEF ListOK, Linking
      <3>2. j \in 1 .. Len(L) /\ Len(L) \in 1 .. Len(L) /\ j # Len(L)  BY <1>0
      <3> QED  BY <1>0, <3>1, <3>2
    <2> QED  BY <1>0, <2>1 DEF Follows
  <1>3. \A i \in 1 .. Len(L) - 1 : Successor[L[i]] = L[i + 1]
    <2> TAKE i \in 1 .. Len(L) - 1
    <2>1. L[i] # None /\ Follows(L[i]) = {L[i + 1]} /\ L[i] \in Nodes \cup {None}  BY <1>0, <1>1
    <2>2. (CHOOSE m \in {L[i + 1]} : TRUE) = L[i + 1]  OBVIOUS
    <2> QED  BY <2>1, <2>2 DEF Successor
  <1>4. Successor[tail] = None  BY <1>0, <1>2 DEF Successor
  <1>5. Successor[None] = None  BY DEF Successor
  <1> QED  BY <1>3, <1>4, <1>5

\* List is the list from the dummy on.
LEMMA ListIs ==
  ASSUME IsFiniteSet(Nodes), Types, NEW L \in Seq(Nodes), ListOK(L)
  PROVE  /\ Dummy \in 1 .. 2 /\ Dummy <= Len(L) /\ Len(L) \in Nat /\ Cardinality(Nodes) \in Nat
         /\ \A k \in 0 .. Cardinality(Nodes) :
              List[k] = IF k + Dummy <= Len(L) THEN L[k + Dummy] ELSE None
  <1> DEFINE N == Cardinality(Nodes)
             d == Dummy
             n == Len(L)
             start == IF cpc = "release" THEN next[cur] ELSE cur
             Rec(f) == f = [k \in 0 .. N |-> IF k = 0 THEN start ELSE Successor[f[k - 1]]]
             At(k) == IF k + d <= n THEN L[k + d] ELSE None
             g == [k \in 0 .. N |-> At(k)]
  <1>1. N \in Nat /\ n \in Nat /\ n >= 1 /\ d \in 1 .. 2
    BY FS_CardinalityType DEF ListOK, Chain, Dummy
  <1>2. d <= n /\ L[d] = start
    <2>1. CASE cpc = "release"
      <3>1. next[cur] # None  BY <2>1 DEF ListOK, Filled
      <3> QED  BY <2>1, <3>1, Second DEF Dummy
    <2>2. CASE cpc # "release"  BY <1>1, <2>2 DEF Dummy, ListOK, Chain
    <2> QED  BY <2>1, <2>2
  <1>3. /\ \A i \in 1 .. n - 1 : Successor[L[i]] = L[i + 1]
        /\ Successor[L[n]] = None /\ Successor[None] = None
    BY SuccessorIs DEF ListOK, Chain
  <1> HIDE DEF N, d, n, start
  <1>4. \A k \in Nat : At(k + 1) = Successor[At(k)]
    <2> TAKE k \in Nat
    <2>1. CASE k + d < n
      <3>1. /\ k + d \in 1 .. n - 1 /\ (k + 1) + d = (k + d) + 1
            /\ k + d <= n /\ (k + 1) + d <= n
        BY <1>1, <2>1
      <3> QED  BY <1>3, <2>1, <3>1
    <2>2. CASE k + d = n
      <3>1. ~((k + 1) + d <= n)  BY <1>1, <2>2
      <3> QED  BY <1>1, <1>3, <2>2, <3>1
    <2>3. CASE k + d > n
      <3>1. ~((k + 1) + d <= n) /\ ~(k + d <= n)  BY <1>1, <2>3
      <3> QED  BY <1>3, <3>1
    <2> QED  BY <1>1, <2>1, <2>2, <2>3
  <1>5. At(0) = start  BY <1>1, <1>2
  <1> HIDE DEF At
  <1>6. Rec(g)
    <2>1. \A k \in 0 .. N : g[k] = IF k = 0 THEN start ELSE Successor[g[k - 1]]
      <3> TAKE k \in 0 .. N
      <3>1. CASE k = 0  BY <1>1, <1>5, <3>1
      <3>2. CASE k # 0
        <4>1. k - 1 \in Nat /\ k - 1 \in 0 .. N /\ (k - 1) + 1 = k  BY <1>1, <3>2
        <4>2. g[k] = At(k) /\ g[k - 1] = At(k - 1)  BY <4>1
        <4> QED  BY <1>4, <3>2, <4>1, <4>2
      <3> QED  BY <3>1, <3>2
    <2>2. g = [k \in 0 .. N |-> g[k]]  OBVIOUS
    <2> HIDE DEF g
    <2> QED  BY <2>1, <2>2
  <1>7. List = CHOOSE f : Rec(f)  BY DEF List, N, start
  <1>8. Rec(List)
    <2> HIDE DEF Rec
    <2> QED  BY <1>6, <1>7, Zenon
  <1>9. \A k \in 0 .. N : List[k] = IF k = 0 THEN start ELSE Successor[List[k - 1]]
    <2>1. ASSUME NEW h, List = [k \in 0 .. N |-> IF k = 0 THEN start ELSE Successor[h[k - 1]]]
          PROVE  \A k \in 0 .. N : List[k] = IF k = 0 THEN start ELSE Successor[h[k - 1]]
      BY <2>1
    <2> QED  BY <1>8, <2>1
  <1> DEFINE S == {k \in Nat : k <= N => List[k] = At(k)}
  <1>10. 0 \in S  BY <1>1, <1>5, <1>9
  <1>11. ASSUME NEW k \in Nat, k \in S PROVE k + 1 \in S
    <2> SUFFICES ASSUME k + 1 <= N PROVE List[k + 1] = At(k + 1)  OBVIOUS
    <2>1. List[k] = At(k)  BY <1>1, <1>11
    <2>2. k + 1 \in 0 .. N /\ k + 1 # 0 /\ (k + 1) - 1 = k  BY <1>1
    <2>3. List[k + 1] = Successor[List[k]]  BY <1>9, <2>2
    <2> QED  BY <1>4, <2>1, <2>3
  <1>12. Nat \subseteq S
    <2> HIDE DEF S
    <2> QED  BY <1>10, <1>11, Induction
  <1>13. \A k \in 0 .. N : List[k] = At(k)  BY <1>1, <1>12
  <1> QED  BY <1>1, <1>2, <1>13 DEF At, N, d, n

\* What waits are the tasks behind the dummy, whichever sequence of nodes shows the list.
WaitingFits ==
  \A L \in Seq(Nodes) : Types /\ ListOK(L) =>
    Waiting = Content(L) /\ Dummy \in 1 .. 2 /\ Dummy <= Len(L)

LEMMA WaitingIs == ASSUME IsFiniteSet(Nodes) PROVE WaitingFits
  <1> SUFFICES ASSUME Types, NEW L \in Seq(Nodes), ListOK(L)
               PROVE  Waiting = Content(L) /\ Dummy \in 1 .. 2 /\ Dummy <= Len(L)
    BY DEF WaitingFits
  <1> DEFINE N == Cardinality(Nodes)
             d == Dummy
             n == Len(L)
  <1>1. /\ d \in 1 .. 2 /\ d <= n /\ n \in Nat /\ N \in Nat
        /\ \A k \in 0 .. N : List[k] = IF k + d <= n THEN L[k + d] ELSE None
    BY ListIs
  <1>2. /\ \A i \in 1 .. n : L[i] \in Nodes /\ L[i] # None
        /\ \A i, j \in 1 .. n : L[i] = L[j] => i = j
    BY MailboxAssumption DEF ListOK, Chain
  <1>3. n <= N
    <2> DEFINE f == [i \in 1 .. n |-> L[i]]
    <2>1. f \in Injection(1 .. n, Nodes)  BY <1>2 DEF Injection, IsInjective
    <2>2. Cardinality(1 .. n) <= N  BY <2>1, FS_Injection
    <2>3. Cardinality(1 .. n) = n
      <3> HIDE DEF n
      <3> QED  BY <1>1, FS_Interval
    <2> QED  BY <2>2, <2>3
  <1> HIDE DEF N, d, n
  <1>4. {k \in 1 .. N : List[k] # None} = 1 .. n - d
    <2>1. ASSUME NEW k \in 1 .. N PROVE List[k] # None <=> k <= n - d
      <3>1. k \in 0 .. N  BY <1>1
      <3>2. CASE k + d <= n
        <4>1. k + d \in 1 .. n /\ k <= n - d  BY <1>1, <3>2
        <4>2. List[k] = L[k + d]  BY <1>1, <3>1, <3>2
        <4> QED  BY <1>2, <4>1, <4>2
      <3>3. CASE ~(k + d <= n)  BY <1>1, <3>1, <3>3
      <3> QED  BY <3>2, <3>3
    <2>2. \A k \in 1 .. n - d : k \in 1 .. N  BY <1>1, <1>3
    <2> QED  BY <1>1, <2>1, <2>2
  <1>5. Cardinality(1 .. n - d) = n - d
    <2>1. n - d \in Nat  BY <1>1
    <2> QED  BY <2>1, FS_Interval
  <1>6. \A i \in 1 .. n - d : task[List[i]] = task[L[i + d]]
    <2> TAKE i \in 1 .. n - d
    <2>1. i \in 0 .. N /\ i + d <= n  BY <1>1, <1>3
    <2> QED  BY <1>1, <2>1
  <1>7. Waiting = [i \in 1 .. n - d |-> task[List[i]]]  BY <1>4, <1>5 DEF Waiting, N
  <1>8. Waiting = [i \in 1 .. n - d |-> task[L[i + d]]]  BY <1>6, <1>7
  <1> QED  BY <1>1, <1>8 DEF Content, d, n

\* The same after a step.
LEMMA WaitingIsNext == ASSUME IsFiniteSet(Nodes) PROVE WaitingFits'
  <1>1. WaitingFits  BY WaitingIs
  <1> QED  BY <1>1, PTL

LEMMA FunctionIsSequence ==
  ASSUME NEW S, NEW n \in Nat, NEW f \in [1 .. n -> S]
  PROVE  f \in Seq(S) /\ Len(f) = n
  OBVIOUS

LEMMA TailIs ==
  ASSUME NEW S, NEW c \in Seq(S), c # << >>
  PROVE  Tail(c) = [i \in 1 .. Len(c) - 1 |-> c[i + 1]]
  <1> DEFINE n == Len(c) - 1
             t == [i \in 1 .. n |-> c[i + 1]]
  <1>1. n \in Nat /\ Tail(c) \in Seq(S) /\ Len(Tail(c)) = n
        /\ \A i \in 1 .. n : Tail(c)[i] = c[i + 1]
    BY HeadTailProperties
  <1>2. \A i \in 1 .. n : t[i] = c[i + 1] /\ c[i + 1] \in S  OBVIOUS
  <1> HIDE DEF n
  <1>3. t \in Seq(S) /\ Len(t) = n
    <2>1. t \in [1 .. n -> S]  BY <1>2
    <2> HIDE DEF t
    <2> QED  BY <1>1, <2>1, FunctionIsSequence
  <1> HIDE DEF t
  <1>4. Tail(c) = t  BY <1>1, <1>2, <1>3, SeqEqual
  <1> QED  BY <1>4 DEF t, n

\* What waits are tasks.
LEMMA ContentIs ==
  ASSUME Types, NEW L \in Seq(Nodes), ListOK(L), Dummy \in 1 .. 2, Dummy <= Len(L)
  PROVE  /\ Content(L) \in Seq(Tasks) /\ Len(Content(L)) = Len(L) - Dummy
         /\ \A i \in 1 .. Len(L) - Dummy :
              i + Dummy \in 2 .. Len(L) /\ Content(L)[i] = task[L[i + Dummy]]
  <1>1. Len(L) \in Nat /\ Len(L) - Dummy \in Nat  OBVIOUS
  <1>2. ASSUME NEW i \in 1 .. Len(L) - Dummy
        PROVE  i + Dummy \in 2 .. Len(L) /\ task[L[i + Dummy]] \in Tasks
    <2>1. i + Dummy \in 2 .. Len(L)  BY <1>1
    <2>2. ~(cpc = "release" /\ i + Dummy = 2)  BY DEF Dummy
    <2> QED  BY <2>1, <2>2 DEF ListOK, Filled
  <1> DEFINE k == Len(L) - Dummy
  <1>3. Content(L) = [i \in 1 .. k |-> task[L[i + Dummy]]]  BY DEF Content
  <1>4. k \in Nat /\ \A i \in 1 .. k : task[L[i + Dummy]] \in Tasks  BY <1>1, <1>2
  <1> HIDE DEF k
  <1>5. Content(L) \in Seq(Tasks) /\ Len(Content(L)) = k
    <2>1. Content(L) \in [1 .. k -> Tasks]  BY <1>3, <1>4
    <2> QED  BY <1>4, <2>1, FunctionIsSequence
  <1>6. \A i \in 1 .. k : Content(L)[i] = task[L[i + Dummy]]  BY <1>3
  <1> QED  BY <1>2, <1>5, <1>6 DEF k

\* The exchange of the tail is the arrival of the producer's task.
LEMMA SwapArrives ==
  ASSUME IsFiniteSet(Nodes), ListInv, ListInv', NEW p \in Producers, SwapTail(p)
  PROVE  /\ Waiting \in Seq(Tasks) /\ task[node[p]] \in Tasks
         /\ Waiting' = Append(Waiting, task[node[p]]) /\ executed' = executed
  <1>1. PICK L \in Seq(Nodes) : ListOK(L)  BY DEF ListInv
  <1>2. PICK M \in Seq(Nodes) : /\ ListOK(M)' /\ Len(M) = Len(L) + 1 /\ M[Len(M)] = node[p]
                                /\ \A i \in 1 .. Len(L) : M[i] = L[i]
    BY <1>1, ListSwap DEF ListInv
  <1>3. UNCHANGED <<task, cpc, executed>> /\ task[node[p]] \in Tasks
    BY <1>1 DEF SwapTail, GoP, consumerVars, ListOK, Holding
  <1>4. Waiting = Content(L) /\ Dummy \in 1 .. 2 /\ Dummy <= Len(L)
    BY <1>1, WaitingIs DEF WaitingFits, ListInv
  <1>5. Waiting' = Content(M)'  BY <1>2, WaitingIsNext DEF WaitingFits, ListInv
  <1>6. /\ Content(L) \in Seq(Tasks) /\ Len(Content(L)) = Len(L) - Dummy
        /\ \A i \in 1 .. Len(L) - Dummy :
             i + Dummy \in 2 .. Len(L) /\ Content(L)[i] = task[L[i + Dummy]]
    BY <1>1, <1>4, ContentIs DEF ListInv
  <1>7. Dummy' = Dummy  BY <1>3 DEF Dummy
  <1>8. Content(M)' = [i \in 1 .. (Len(L) - Dummy) + 1 |-> task[M[i + Dummy]]]
    <2>1. Len(M) - Dummy = (Len(L) - Dummy) + 1  BY <1>2, <1>4
    <2> QED  BY <1>3, <1>7, <2>1 DEF Content
  <1> DEFINE k == Len(L) - Dummy
  <1>9. /\ k \in Nat /\ M[k + 1 + Dummy] = node[p]
        /\ \A i \in 1 .. k : task[M[i + Dummy]] = Content(L)[i]
    BY <1>2, <1>4, <1>6
  <1> HIDE DEF k
  <1>10. Content(M)' = Append(Content(L), task[node[p]])  BY <1>6, <1>8, <1>9 DEF k
  <1> QED  BY <1>3, <1>4, <1>5, <1>6, <1>10

\* To move a task out is to execute the oldest one.
LEMMA TakeExecutes ==
  ASSUME IsFiniteSet(Nodes), ListInv, ListInv', TakeTask
  PROVE  /\ Waiting \in Seq(Tasks) /\ Waiting # << >>
         /\ Waiting' = Tail(Waiting) /\ executed' = Append(executed, Head(Waiting))
  <1>1. PICK L \in Seq(Nodes) : ListOK(L)  BY DEF ListInv
  <1>2. ListOK(L)'  BY <1>1, ListTake DEF ListInv
  <1>3. /\ cpc # "release" /\ cpc' = "release" /\ next[cur] # None
        /\ executed' = Append(executed, task[next[cur]])
        /\ task' = [task EXCEPT ![next[cur]] = NoTask]
    BY DEF TakeTask
  <1>4. Len(L) >= 2 /\ next[cur] = L[2] /\ 2 \in 1 .. Len(L)
    BY <1>1, <1>3, Second DEF ListInv
  <1>5. /\ Len(L) \in Nat /\ \A i \in 1 .. Len(L) : L[i] \in Nodes
        /\ \A i, j \in 1 .. Len(L) : L[i] = L[j] => i = j
    BY <1>1 DEF ListOK, Chain
  <1>6. Dummy = 1 /\ Dummy' = 2  BY <1>3 DEF Dummy
  <1>7. Waiting = Content(L)  BY <1>1, WaitingIs DEF WaitingFits, ListInv
  <1>8. Waiting' = Content(L)'  BY <1>2, WaitingIsNext DEF WaitingFits, ListInv
  <1>9. /\ Content(L) \in Seq(Tasks) /\ Len(Content(L)) = Len(L) - 1
        /\ \A i \in 1 .. Len(L) - 1 : Content(L)[i] = task[L[i + 1]]
    BY <1>1, <1>4, <1>6, ContentIs DEF ListInv
  <1>10. Content(L)' = [i \in 1 .. Len(L) - 2 |-> task'[L[i + 2]]]  BY <1>6 DEF Content
  <1>11. \A i \in 1 .. Len(L) - 2 : task'[L[i + 2]] = Content(L)[i + 1]
    <2> TAKE i \in 1 .. Len(L) - 2
    <2>1. i + 2 \in 1 .. Len(L) /\ i + 2 # 2 /\ i + 1 \in 1 .. Len(L) - 1 /\ (i + 1) + 1 = i + 2
      BY <1>4, <1>5
    <2>2. L[i + 2] # L[2] /\ L[i + 2] \in Nodes  BY <1>4, <1>5, <2>1
    <2>3. task'[L[i + 2]] = task[L[i + 2]]  BY <1>3, <1>4, <2>2 DEF ListInv, Types
    <2> QED  BY <1>9, <2>1, <2>3
  <1>12. Content(L) # << >> /\ Head(Content(L)) = task[L[2]]
    <2>1. 1 \in 1 .. Len(L) - 1  BY <1>4, <1>5
    <2> QED  BY <1>4, <1>9, <2>1
  <1>13. Tail(Content(L)) = [i \in 1 .. Len(L) - 2 |-> Content(L)[i + 1]]
    <2>1. Tail(Content(L)) = [i \in 1 .. Len(Content(L)) - 1 |-> Content(L)[i + 1]]
      BY <1>9, <1>12, TailIs
    <2>2. Len(Content(L)) - 1 = Len(L) - 2  BY <1>5, <1>9
    <2> QED  BY <2>1, <2>2
  <1>14. Content(L)' = Tail(Content(L))  BY <1>10, <1>11, <1>13
  <1> QED  BY <1>3, <1>4, <1>7, <1>8, <1>9, <1>12, <1>14

\* Every other step leaves what waits as it is.
LEMMA QueueStays ==
  ASSUME IsFiniteSet(Nodes), ListInv, ListInv', [Next]_vars,
         ~TakeTask, \A p \in Producers : ~SwapTail(p)
  PROVE  Waiting' = Waiting /\ executed' = executed
  <1>1. PICK L \in Seq(Nodes) : ListOK(L)  BY DEF ListInv
  <1>2. /\ Waiting = Content(L) /\ Dummy \in 1 .. 2 /\ Dummy <= Len(L)
        /\ Len(L) \in Nat /\ \A i \in 1 .. Len(L) : L[i] \in Nodes /\ L[i] \notin free
    BY <1>1, WaitingIs DEF WaitingFits, ListInv, ListOK, Chain
  <1>3. executed' = executed
    BY DEF Next, Pop, Push, FinishPush, PushRefused, PushAdmitted, CountNode, LinkNode, BeginPop,
       ReleaseOld, StartSpin, EndLoop, Settle, consumerVars, vars
  <1>4. CASE ReleaseOld
    <2>1. PICK M \in Seq(Nodes) : /\ ListOK(M)' /\ Len(M) = Len(L) - 1 /\ Len(L) >= 2
                                  /\ \A i \in 1 .. Len(M) : M[i] = L[i + 1]
      BY <1>1, <1>4, ListRelease DEF ListInv
    <2>2. Waiting' = Content(M)'  BY <2>1, WaitingIsNext DEF WaitingFits, ListInv
    <2>3. Dummy = 2 /\ Dummy' = 1 /\ task' = task  BY <1>4 DEF ReleaseOld, GoC, Dummy
    <2>4. Content(M)' = [i \in 1 .. Len(M) - 1 |-> task[M[i + 1]]]  BY <2>3 DEF Content
    <2>5. Content(L) = [i \in 1 .. Len(L) - 2 |-> task[L[i + 2]]]  BY <2>3 DEF Content
    <2>6. /\ Len(M) - 1 = Len(L) - 2
          /\ \A i \in 1 .. Len(L) - 2 : M[i + 1] = L[i + 2]
      <3>1. Len(M) - 1 = Len(L) - 2  BY <1>2, <2>1
      <3>2. ASSUME NEW i \in 1 .. Len(L) - 2 PROVE M[i + 1] = L[i + 2]
        <4>1. i + 1 \in 1 .. Len(M) /\ (i + 1) + 1 = i + 2  BY <1>2, <2>1
        <4> QED  BY <2>1, <4>1
      <3> QED  BY <3>1, <3>2
    <2> QED  BY <1>2, <1>3, <2>2, <2>4, <2>5, <2>6
  <1>5. CASE ~ReleaseOld
    <2>1. ListOK(L)'  BY <1>1, <1>5, ListStays DEF ListInv
    <2>2. Waiting' = Content(L)'  BY <2>1, WaitingIsNext DEF WaitingFits, ListInv
    <2>3. Dummy' = Dummy
      <3>1. cpc' = "release" <=> cpc = "release"
        BY <1>5 DEF Next, Pop, Push, FinishPush, PushRefused, PushAdmitted, CountNode, LinkNode,
           BeginPop, StartSpin, EndLoop, Settle, GoC, consumerVars, vars
      <3> QED  BY <3>1 DEF Dummy
    <2>4. \A i \in 1 .. Len(L) : task'[L[i]] = task[L[i]]
      <3>1. ASSUME NEW p \in Producers, PushAdmitted(p)
            PROVE  \A i \in 1 .. Len(L) : task'[L[i]] = task[L[i]]
        <4>1. PICK n \in free : task' = [task EXCEPT ![n] = posted']  BY <3>1 DEF PushAdmitted
        <4> QED  BY <1>2, <4>1 DEF ListInv, Types
      <3>2. CASE \A p \in Producers : ~PushAdmitted(p)
        <4>1. task' = task
          BY <1>5, <3>2 DEF Next, Pop, Push, FinishPush, PushRefused, CountNode, LinkNode,
             BeginPop, StartSpin, EndLoop, Settle, vars
        <4> QED  BY <4>1
      <3> QED  BY <3>1, <3>2
    <2>5. Content(L)' = Content(L)
      <3>1. Content(L)' = [i \in 1 .. Len(L) - Dummy |-> task'[L[i + Dummy]]]  BY <2>3 DEF Content
      <3>2. ASSUME NEW i \in 1 .. Len(L) - Dummy PROVE task'[L[i + Dummy]] = task[L[i + Dummy]]
        <4>1. i + Dummy \in 1 .. Len(L)  BY <1>2
        <4> QED  BY <2>4, <4>1
      <3> QED  BY <3>1, <3>2 DEF Content
    <2> QED  BY <1>2, <1>3, <2>2, <2>5
  <1> QED  BY <1>4, <1>5

-----------------------------------------------------------------------------
(* The list is a queue *)

\* Every step of the list is a step of the inbox, or none.
LEMMA FifoStep ==
  ASSUME IsFiniteSet(Nodes), ListInv, ListInv', [Next]_vars
  PROVE  Fifo!Next \/ UNCHANGED Fifo!vars
  <1> DEFINE a == "mailbox"
  <1>1. ASSUME NEW p \in Producers, SwapTail(p) PROVE Fifo!Next
    <2>1. task[node[p]] \in Tasks /\ Waiting' = Append(Waiting, task[node[p]]) /\ executed' = executed
      BY <1>1, SwapArrives
    <2>2. Fifo!Arrive(a, task[node[p]])
      <3> HIDE DEF Waiting
      <3> QED  BY <2>1 DEF Fifo!Arrive
    <2> QED  BY <2>1, <2>2 DEF Fifo!Next
  <1>2. ASSUME TakeTask PROVE Fifo!Next
    <2>1. /\ Waiting # << >> /\ Waiting' = Tail(Waiting)
          /\ executed' = Append(executed, Head(Waiting))
      BY <1>2, TakeExecutes
    <2>2. Fifo!Execute(a)  BY <2>1 DEF Fifo!Execute
    <2> QED  BY <2>2 DEF Fifo!Next
  <1>3. ASSUME ~TakeTask, \A p \in Producers : ~SwapTail(p) PROVE UNCHANGED Fifo!vars
    BY <1>3, QueueStays DEF Fifo!vars
  <1> QED  BY <1>1, <1>2, <1>3

\* At first nothing waits.
LEMMA NothingWaits ==
  ASSUME IsFiniteSet(Nodes), Init, ListInv
  PROVE  Waiting = << >>
  <1>1. PICK L \in Seq(Nodes) : ListOK(L)  BY DEF ListInv
  <1>2. Waiting = Content(L)  BY <1>1, WaitingIs DEF WaitingFits, ListInv
  <1>3. head = tail /\ cur = tail /\ cpc # "release"  BY DEF Init
  <1>4. Len(L) = 1
    <2>1. Len(L) \in 1 .. Len(L) /\ 1 \in 1 .. Len(L)  BY <1>1 DEF ListOK, Chain
    <2> QED  BY <1>1, <1>3, <2>1 DEF ListOK, Chain
  <1> QED  BY <1>2, <1>3, <1>4 DEF Content, Dummy

\* The lock-free list implements FifoInbox: the exchange of the tail is the arrival of
\* a task, and the consumer moves the tasks out once each and in that order, however
\* late the links are stored and however nodes are used again (Mailbox.h:58, 67).
THEOREM ListIsQueue ==
  ASSUME IsFiniteSet(Nodes)
  PROVE  Spec => ImplementsFifo
  <1>1. Init /\ ListInv => Fifo!Init
    <2>1. ASSUME Init, ListInv PROVE Waiting = << >> /\ executed = << >>
      BY <2>1, NothingWaits DEF Init
    <2> QED  BY <2>1 DEF Fifo!Init
  <1>2. ListInv /\ ListInv' /\ [Next]_vars => [Fifo!Next]_(Fifo!vars)  BY FifoStep
  <1> QED  BY <1>1, <1>2, ListCorrect, PTL DEF Spec, ImplementsFifo, Fifo!Spec

\* A batch that ends short of its size has found the list empty (Mailbox.h:77).
THEOREM EmptyMeansEmpty ==
  ASSUME IsFiniteSet(Nodes)
  PROVE  Spec => PopLeavesNothing
  <1>1. ASSUME ListInv, [Next]_vars, cpc = "loop", cpc' = "settle", count # max
        PROVE  Waiting = << >>
    <2>1. EndLoop
      BY <1>1 DEF Next, Pop, Push, FinishPush, PushRefused, PushAdmitted, CountNode, SwapTail,
         LinkNode, BeginPop, TakeTask, ReleaseOld, StartSpin, Settle, GoC, consumerVars, vars
    <2>2. cur = tail  BY <1>1, <2>1 DEF EndLoop
    <2>3. PICK L \in Seq(Nodes) : ListOK(L)  BY <1>1 DEF ListInv
    <2>4. Len(L) = 1
      <3>1. Len(L) \in 1 .. Len(L) /\ 1 \in 1 .. Len(L)  BY <2>3 DEF ListOK, Chain
      <3> QED  BY <2>2, <2>3, <3>1 DEF ListOK, Chain
    <2>5. Waiting = Content(L)  BY <1>1, <2>3, WaitingIs DEF WaitingFits, ListInv
    <2> QED  BY <1>1, <2>4, <2>5 DEF Content, Dummy
  <1>2. ListInv /\ [Next]_vars
          => [cpc = "loop" /\ cpc' = "settle" => count = max \/ Waiting = << >>]_vars
    BY <1>1
  <1> QED  BY <1>2, ListCorrect, PTL DEF Spec, PopLeavesNothing

-----------------------------------------------------------------------------
(* The counter covers the queue *)

\* What the sizes of a batch and of the queue add up to.
SizeInv == SizeCoversQueue /\ (cpc = "idle" => count = 0)

LEMMA SizeCoversStep ==
  ASSUME IsFiniteSet(Nodes), ListInv, ListInv', SizeInv, [Next]_vars
  PROVE  SizeInv'
  <1> DEFINE S == Pushing({"swap"})
             C == Cardinality(S)
             w == Len(Waiting)
  <1>0. /\ IsFiniteSet(S) /\ C \in Nat /\ size \in Int /\ count \in Nat
        /\ size = w + Unsettled + C
    <2>1. S \subseteq Producers  BY DEF Pushing
    <2> QED  BY <2>1, MailboxAssumption, FS_Subset, FS_CardinalityType
             DEF ListInv, Types, SizeInv, SizeCoversQueue
  <1>w. w \in Nat
    <2>1. PICK L \in Seq(Nodes) : ListOK(L)  BY DEF ListInv
    <2>2. Waiting \in Seq(Tasks)  BY <2>1, WaitingIs, ContentIs DEF WaitingFits, ListInv
    <2> QED  BY <2>2
  <1> HIDE DEF w, C
  <1>1. ASSUME NEW p \in Producers, SwapTail(p) PROVE SizeInv'
    <2>1. w' = w + 1  BY <1>1, SwapArrives DEF w
    <2>2. S' = S \ {p} /\ p \in S  BY <1>1 DEF SwapTail, GoP, Pushing, ListInv, Types
    <2>3. C' = C - 1  BY <1>0, <2>2, FS_RemoveElement DEF C
    <2>4. UNCHANGED <<size, count, cpc>>  BY <1>1 DEF SwapTail, consumerVars
    <2>5. size' = w' + Unsettled' + C'  BY <1>0, <1>w, <2>1, <2>3, <2>4 DEF Unsettled
    <2> QED  BY <2>4, <2>5 DEF SizeInv, SizeCoversQueue, w, C
  <1>2. CASE TakeTask
    <2>1. w' = w - 1  BY <1>2, TakeExecutes DEF w
    <2>2. S' = S /\ size' = size /\ count' = count /\ cpc # "release" /\ cpc' = "release"
      BY <1>2 DEF TakeTask, producerVars, Pushing
    <2>3. size' = w' + Unsettled' + C'  BY <1>0, <1>w, <2>1, <2>2 DEF Unsettled, C
    <2> QED  BY <2>2, <2>3 DEF SizeInv, SizeCoversQueue, w, C
  <1>3. CASE ~TakeTask /\ \A p \in Producers : ~SwapTail(p)
    <2>1. w' = w  BY <1>3, QueueStays DEF w
    <2>2. ASSUME NEW p \in Producers, CountNode(p) PROVE SizeInv'
      <3>1. /\ S' = S \cup {p} /\ p \notin S /\ size' = size + 1
            /\ UNCHANGED <<count, cpc>>
        BY <2>2 DEF CountNode, GoP, Pushing, ListInv, Types, consumerVars
      <3>2. C' = C + 1  BY <1>0, <3>1, FS_AddElement DEF C
      <3>3. size' = w' + Unsettled' + C'  BY <1>0, <1>w, <2>1, <3>1, <3>2 DEF Unsettled
      <3> QED  BY <3>1, <3>3 DEF SizeInv, SizeCoversQueue, w, C
    <2>3. ASSUME S' = S, size' = size, Unsettled' = Unsettled, cpc' = "idle" => count' = 0
          PROVE  SizeInv'
      BY <2>1, <2>3 DEF SizeInv, SizeCoversQueue, w
    <2>4. ASSUME NEW p \in Producers, PushRefused(p) \/ PushAdmitted(p) \/ LinkNode(p) PROVE SizeInv'
      <3>1. S' = S /\ UNCHANGED <<size, count, cpc>>
        BY <2>4 DEF PushRefused, PushAdmitted, LinkNode, GoP, Pushing, ListInv, Types,
           producerVars, consumerVars
      <3> QED  BY <2>3, <3>1 DEF SizeInv, Unsettled
    <2>5. CASE BeginPop
      <3>1. S' = S /\ size' = size /\ count = 0 /\ count' = 0 /\ cpc # "release" /\ cpc' # "release"
        BY <2>5 DEF BeginPop, GoC, producerVars, Pushing, SizeInv
      <3> QED  BY <2>3, <3>1 DEF Unsettled
    <2>6. CASE ReleaseOld
      <3>1. S' = S /\ size' = size /\ count' = count + 1 /\ cpc = "release" /\ cpc' = "loop"
        BY <2>6 DEF ReleaseOld, GoC, producerVars, Pushing
      <3> QED  BY <1>0, <2>3, <3>1 DEF Unsettled
    <2>7. CASE StartSpin \/ EndLoop
      <3>1. S' = S /\ UNCHANGED <<size, count>> /\ cpc = "loop" /\ cpc' \in {"spin", "settle"}
        BY <2>7 DEF StartSpin, EndLoop, GoC, producerVars, Pushing
      <3> QED  BY <2>3, <3>1 DEF Unsettled
    <2>8. CASE Settle
      <3>1. S' = S /\ size' = size - count /\ count' = 0 /\ cpc = "settle" /\ cpc' = "idle"
        BY <2>8 DEF Settle, GoC, producerVars, Pushing
      <3>2. size' = w' + Unsettled' + C'  BY <1>0, <1>w, <2>1, <3>1 DEF Unsettled, C
      <3> QED  BY <3>1, <3>2 DEF SizeInv, SizeCoversQueue, w, C
    <2>9. CASE UNCHANGED vars
      <3>1. S' = S /\ UNCHANGED <<size, count, cpc>>
        BY <2>9 DEF vars, producerVars, consumerVars, Pushing
      <3> QED  BY <2>3, <3>1 DEF SizeInv, Unsettled
    <2> QED  BY <1>3, <2>2, <2>4, <2>5, <2>6, <2>7, <2>8, <2>9 DEF Next, Pop, Push, FinishPush
  <1> QED  BY <1>1, <1>2, <1>3

\* approx_size_ is the number of tasks in the list, of those taken but not subtracted,
\* and of the producers that are about to exchange the tail: it is never below
\* what waits, and no batch takes it below zero (Mailbox.h:54, 110).
THEOREM CounterCoversQueue ==
  ASSUME IsFiniteSet(Nodes)
  PROVE  Spec => []SizeCoversQueue
  <1>1. Init /\ ListInv => SizeInv
    <2> SUFFICES ASSUME Init, ListInv PROVE SizeInv  OBVIOUS
    <2>1. Waiting = << >>  BY NothingWaits
    <2>2. Pushing({"swap"}) = {}  BY DEF Init, Pushing
    <2>3. size = 0 /\ count = 0 /\ cpc = "idle" /\ Cardinality(Pushing({"swap"})) = 0
      BY <2>2, FS_EmptySet DEF Init
    <2> QED  BY <2>1, <2>3 DEF SizeInv, SizeCoversQueue, Unsettled
  <1>2. ListInv /\ ListInv' /\ SizeInv /\ [Next]_vars => SizeInv'  BY SizeCoversStep
  <1>3. SizeInv => SizeCoversQueue  BY DEF SizeInv
  <1> QED  BY <1>1, <1>2, <1>3, ListCorrect, PTL DEF Spec

=============================================================================
