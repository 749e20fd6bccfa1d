--------------------------- MODULE NodePoolProofs ---------------------------
(* Theorems about NodePool, for any number of threads and nodes and any size   *)
(* of the caches.                                                              *)
EXTENDS NodePool, TLAPS

-----------------------------------------------------------------------------
(* The list without its head, and with a new one *)

\* A sequence without its last element.
LEMMA FrontFacts ==
  ASSUME NEW S, NEW s \in Seq(S), s # << >>
  PROVE  LET f == [i \in 1 .. Len(s) - 1 |-> s[i]]
         IN  /\ f \in Seq(S) /\ Len(f) = Len(s) - 1
             /\ \A i \in 1 .. Len(f) : f[i] = s[i]
             /\ Len(s) \in Nat \ {0}
  <1>1. Len(s) \in Nat \ {0} /\ \A i \in 1 .. Len(s) : s[i] \in S  OBVIOUS
  <1>2. [i \in 1 .. Len(s) - 1 |-> s[i]] \in [1 .. Len(s) - 1 -> S]  BY <1>1
  <1>3. Len(s) - 1 \in Nat  BY <1>1
  <1> QED  BY <1>1, <1>2, <1>3

\* A sequence with one more element.
LEMMA AppendFacts ==
  ASSUME NEW S, NEW s \in Seq(S), NEW x \in S
  PROVE  /\ Append(s, x) \in Seq(S) /\ Len(Append(s, x)) = Len(s) + 1
         /\ \A i \in 1 .. Len(s) : Append(s, x)[i] = s[i]
         /\ Append(s, x)[Len(s) + 1] = x
         /\ Len(s) \in Nat
  OBVIOUS

-----------------------------------------------------------------------------
(* Type correctness *)

\* A thread that looks at the list has found a head, and holds a node exactly
\* while it gives one back.
LocalsFit == \A t \in Threads :
  /\ pc[t] \in {"next", "pop"} => seen[t] # None
  /\ (hand[t] # None) = (pc[t] \in {"link", "push"})

TypeInv == TypeOK /\ LocalsFit

\* The type invariant is kept by every step.
LEMMA TypeStep == ASSUME TypeInv, [Next]_vars PROVE TypeInv'
  <1> USE PoolAssumption DEF TypeInv, TypeOK, LocalsFit, At, To
  <1>1. ASSUME NEW t \in Threads, AcquireLocal(t) PROVE TypeInv'
    BY <1>1 DEF AcquireLocal, listVars, threadVars
  <1>2. ASSUME NEW t \in Threads, LoadHead(t) PROVE TypeInv'
    BY <1>2 DEF LoadHead, listVars
  <1>3. ASSUME NEW t \in Threads, ReadNext(t) PROVE TypeInv'
    BY <1>3 DEF ReadNext, listVars
  <1>4. ASSUME NEW t \in Threads, Pop(t) PROVE TypeInv'
    <2>1. stack' \in Seq(Nodes)
      <3>1. CASE stack = << >>
        <4>1. stack' = << >>  BY <1>4, <3>1 DEF Pop
        <4> QED  BY <4>1
      <3>2. CASE stack # << >>  BY <1>4, <3>2, FrontFacts DEF Pop
      <3> QED  BY <3>1, <3>2
    <2>2. seen[t] \in Nodes /\ after[t] \in Nodes \cup {None}  BY <1>4 DEF Pop
    <2>3. reused' \in BOOLEAN /\ used' \subseteq Nodes /\ head' \in Nodes \cup {None}
      BY <1>4, <2>2 DEF Pop
    <2> QED  BY <1>4, <2>1, <2>3 DEF Pop, Drop
  <1>5. ASSUME NEW t \in Threads, PopFails(t) PROVE TypeInv'
    BY <1>5 DEF PopFails, listVars
  <1>6. ASSUME NEW t \in Threads, New(t) PROVE TypeInv'
    BY <1>6 DEF New, listVars
  <1>7. ASSUME NEW t \in Threads, ReleaseLocal(t) PROVE TypeInv'
    BY <1>7 DEF ReleaseLocal, listVars, threadVars
  <1>8. ASSUME NEW t \in Threads, ReleaseGlobal(t) PROVE TypeInv'
    BY <1>8 DEF ReleaseGlobal, listVars
  <1>9. ASSUME NEW t \in Threads, Link(t) PROVE TypeInv'
    BY <1>9 DEF Link, listVars
  <1>10. ASSUME NEW t \in Threads, Push(t) PROVE TypeInv'
    <2>1. hand[t] \in Nodes  BY <1>10 DEF Push
    <2>2. stack' \in Seq(Nodes)  BY <1>10, <2>1, AppendFacts DEF Push
    <2> QED  BY <1>10, <2>1, <2>2 DEF Push, Drop
  <1>11. ASSUME NEW t \in Threads, PushFails(t) PROVE TypeInv'
    BY <1>11 DEF PushFails, listVars
  <1>12. CASE Use  BY <1>12 DEF Use, listVars, threadVars
  <1>13. CASE UNCHANGED vars  BY <1>13 DEF vars, listVars, threadVars
  <1> QED
    BY <1>1, <1>2, <1>3, <1>4, <1>5, <1>6, <1>7, <1>8, <1>9, <1>10, <1>11, <1>12, <1>13 DEF Next

LEMMA InitType == Init => TypeInv
  <1> SUFFICES ASSUME Init PROVE TypeInv  OBVIOUS
  <1>1. stack \in Seq(Nodes)
    <2>1. stack = << >>  BY DEF Init
    <2> QED  BY <2>1
  <1>2. reused \in BOOLEAN  BY Zenon DEF Init
  <1>3. local \in [Threads -> SUBSET Nodes] /\ acquirers \subseteq Threads  BY DEF Init
  <1>4. LocalsFit  BY DEF Init, LocalsFit
  <1> QED  BY <1>1, <1>2, <1>3, <1>4 DEF Init, TypeInv, TypeOK

LEMMA TypeInvariant == Spec => []TypeInv
  BY InitType, TypeStep, PTL DEF Spec

\* The variables keep their types.
THEOREM TypeCorrect == Spec => []TypeOK
  <1>1. TypeInv => TypeOK  BY DEF TypeInv
  <1> QED  BY <1>1, TypeInvariant, PTL

-----------------------------------------------------------------------------
(* Every node in one place *)

\* The node that a thread is about to push is linked to the head it has seen.
HandsLinked == \A t \in Threads : pc[t] = "push" => next[hand[t]] = seen[t]

Sound == LinksFormList /\ InOnePlace /\ HandsLinked

\* Only threads that acquire look at the list for a node.
CallsOfAcquirers == \A t \in Threads : pc[t] \in {"next", "pop", "new"} => t \in acquirers

\* What a lone acquirer has seen stays true while others push: the head it saw stays
\* in the list, and a listed node keeps its link.
SeenStays == \A t \in Threads :
  /\ pc[t] \in {"next", "pop"} => seen[t] \in Listed
  /\ pc[t] = "pop" => after[t] = next[seen[t]]

\* The inductive invariant.
PoolInv ==
  /\ TypeInv /\ CallsOfAcquirers
  /\ OneAcquirer \/ ~reused => Sound
  /\ OneAcquirer => ~reused /\ SeenStays

\* Steps of Acquire that leave the list alone keep the nodes in their places.
LEMMA AcquireKeepsPlaces ==
  ASSUME TypeInv, Sound, NEW t \in Threads,
         AcquireLocal(t) \/ LoadHead(t) \/ ReadNext(t) \/ PopFails(t) \/ New(t)
  PROVE  Sound'
  <1> USE PoolAssumption DEF TypeInv, TypeOK, LocalsFit, Sound, At, To
  <1>1. CASE AcquireLocal(t)
    <2>1. InOnePlace'  BY <1>1 DEF AcquireLocal, InOnePlace, Listed, listVars, threadVars
    <2> QED  BY <1>1, <2>1 DEF AcquireLocal, LinksFormList, HandsLinked, listVars, threadVars
  <1>2. CASE LoadHead(t)
    BY <1>2 DEF LoadHead, InOnePlace, Listed, LinksFormList, HandsLinked, listVars
  <1>3. CASE ReadNext(t)
    BY <1>3 DEF ReadNext, InOnePlace, Listed, LinksFormList, HandsLinked, listVars
  <1>4. CASE PopFails(t)
    BY <1>4 DEF PopFails, InOnePlace, Listed, LinksFormList, HandsLinked, listVars
  <1>5. CASE New(t)
    <2>1. InOnePlace'  BY <1>5 DEF New, InOnePlace, Listed, listVars
    <2> QED  BY <1>5, <2>1 DEF New, LinksFormList, HandsLinked, listVars
  <1> QED  BY <1>1, <1>2, <1>3, <1>4, <1>5

\* An exchange that takes the head off and finds its link unchanged.
LEMMA PopKeepsPlaces ==
  ASSUME TypeInv, Sound, NEW t \in Threads, Pop(t), ~reused'
  PROVE  Sound' /\ Listed' = Listed \ {head}
  <1> USE PoolAssumption DEF TypeInv, TypeOK, LocalsFit, Sound, At, To
  <1>1. head = seen[t] /\ head \in Nodes /\ after[t] = next[head] /\ head' = next[head]
    BY DEF Pop
  <1>2. stack # << >> /\ stack \in Seq(Nodes)  BY <1>1 DEF LinksFormList
  <1>3. /\ stack' \in Seq(Nodes) /\ Len(stack') = Len(stack) - 1
        /\ \A i \in 1 .. Len(stack') : stack'[i] = stack[i]
        /\ Len(stack) \in Nat \ {0} /\ head = stack[Len(stack)]
    BY <1>2, FrontFacts DEF Pop, LinksFormList
  <1>4. Listed' = Listed \ {head}
    <2>1. \A i \in 1 .. Len(stack') : stack'[i] # head  BY <1>3 DEF InOnePlace
    <2>2. \A i \in 1 .. Len(stack) : stack[i] = head \/ i \in 1 .. Len(stack')  BY <1>3
    <2>3. Listed' \subseteq Listed \ {head}
      <3>1. \A i \in 1 .. Len(stack') : stack'[i] = stack[i] /\ i \in 1 .. Len(stack)  BY <1>3
      <3> QED  BY <2>1, <3>1 DEF Listed
    <2>4. Listed \ {head} \subseteq Listed'
      <3>1. ASSUME NEW n \in Listed \ {head} PROVE n \in Listed'
        <4>1. PICK i \in 1 .. Len(stack) : n = stack[i]  BY <3>1 DEF Listed
        <4>2. i \in 1 .. Len(stack') /\ stack'[i] = n  BY <1>3, <2>2, <3>1, <4>1
        <4> QED  BY <4>2 DEF Listed
      <3> QED  BY <3>1
    <2> QED  BY <2>3, <2>4
  <1>5. head \in Listed /\ used' = used \cup {head}  BY <1>1, <1>3 DEF Listed, Pop
  <1>6. LinksFormList'
    <2>1. next' = next  BY DEF Pop
    <2>2. head' = IF stack' = << >> THEN None ELSE stack'[Len(stack')]
      <3>1. CASE Len(stack) = 1  BY <1>1, <1>3, <3>1 DEF LinksFormList
      <3>2. CASE Len(stack) # 1
        <4>1. Len(stack) \in 1 .. Len(stack) /\ Len(stack) - 1 \in 1 .. Len(stack')
          BY <1>3, <3>2
        <4>2. head' = stack[Len(stack) - 1]  BY <1>1, <1>3, <3>2, <4>1 DEF LinksFormList
        <4>3. stack' # << >>  BY <1>3, <3>2
        <4> QED  BY <1>3, <4>1, <4>2, <4>3
      <3> QED  BY <3>1, <3>2
    <2>3. \A i \in 1 .. Len(stack') : next[stack'[i]] = IF i = 1 THEN None ELSE stack'[i - 1]
      BY <1>3 DEF LinksFormList
    <2> QED  BY <2>1, <2>2, <2>3 DEF LinksFormList
  <1>7. InOnePlace'
    <2>1. \A i, j \in 1 .. Len(stack') : stack'[i] = stack'[j] => i = j
      BY <1>3 DEF InOnePlace
    <2>2. UNCHANGED <<fresh, local, hand>>  BY DEF Pop
    <2> QED  BY <1>1, <1>4, <1>5, <2>1, <2>2 DEF InOnePlace
  <1>8. HandsLinked'  BY DEF HandsLinked, Pop, Drop
  <1> QED  BY <1>4, <1>6, <1>7, <1>8

\* Giving a node to a cache, or taking it in hand to push it.
LEMMA ReleaseKeepsPlaces ==
  ASSUME TypeInv, Sound, NEW t \in Threads,
         ReleaseLocal(t) \/ ReleaseGlobal(t) \/ Link(t) \/ PushFails(t)
  PROVE  Sound'
  <1> USE PoolAssumption DEF TypeInv, TypeOK, LocalsFit, Sound, At, To
  <1>1. CASE ReleaseLocal(t)
    <2>1. InOnePlace'  BY <1>1 DEF ReleaseLocal, InOnePlace, Listed, listVars, threadVars
    <2> QED  BY <1>1, <2>1 DEF ReleaseLocal, LinksFormList, HandsLinked, listVars, threadVars
  <1>2. CASE ReleaseGlobal(t)
    <2>1. InOnePlace'  BY <1>2 DEF ReleaseGlobal, InOnePlace, Listed, listVars
    <2> QED  BY <1>2, <2>1 DEF ReleaseGlobal, LinksFormList, HandsLinked, listVars
  <1>3. CASE Link(t)
    <2>1. hand[t] \in Nodes \ Listed  BY <1>3 DEF Link, InOnePlace
    <2>2. InOnePlace'  BY <1>3 DEF Link, InOnePlace, Listed, listVars
    <2>3. \A i \in 1 .. Len(stack) : next'[stack[i]] = next[stack[i]]
      BY <1>3, <2>1 DEF Link, Listed
    <2>4. LinksFormList'  BY <1>3, <2>3 DEF Link, LinksFormList, listVars
    <2>5. HandsLinked'  BY <1>3, <2>1 DEF Link, HandsLinked, InOnePlace
    <2> QED  BY <2>2, <2>4, <2>5
  <1>4. CASE PushFails(t)
    BY <1>4 DEF PushFails, InOnePlace, Listed, LinksFormList, HandsLinked, listVars
  <1> QED  BY <1>1, <1>2, <1>3, <1>4

\* An exchange that puts a node in front of the head.
LEMMA PushKeepsPlaces ==
  ASSUME TypeInv, Sound, NEW t \in Threads, Push(t)
  PROVE  Sound' /\ Listed' = Listed \cup {hand[t]}
  <1> USE PoolAssumption DEF TypeInv, TypeOK, LocalsFit, Sound, At, To
  <1>1. /\ hand[t] \in Nodes /\ head = seen[t] /\ head' = hand[t] /\ next[hand[t]] = head
        /\ next' = next
    BY DEF Push, HandsLinked
  <1>2. /\ stack' \in Seq(Nodes) /\ Len(stack') = Len(stack) + 1 /\ Len(stack) \in Nat
        /\ \A i \in 1 .. Len(stack) : stack'[i] = stack[i]
        /\ stack'[Len(stack) + 1] = hand[t]
    BY <1>1, AppendFacts DEF Push
  <1>3. Listed' = Listed \cup {hand[t]}
    <2>1. \A i \in 1 .. Len(stack') : i \in 1 .. Len(stack) \/ i = Len(stack) + 1  BY <1>2
    <2>2. Listed' \subseteq Listed \cup {hand[t]}  BY <1>2, <2>1 DEF Listed
    <2>3. hand[t] \in Listed'
      <3>1. Len(stack) + 1 \in 1 .. Len(stack')  BY <1>2
      <3> QED  BY <1>2, <3>1 DEF Listed
    <2>4. Listed \subseteq Listed'
      <3>1. \A i \in 1 .. Len(stack) : i \in 1 .. Len(stack') /\ stack'[i] = stack[i]  BY <1>2
      <3> QED  BY <3>1 DEF Listed
    <2> QED  BY <2>2, <2>3, <2>4
  <1>4. hand[t] \notin Listed  BY DEF InOnePlace
  <1>5. LinksFormList'
    <2>1. stack' # << >>  BY <1>2
    <2>2. head' = stack'[Len(stack')]  BY <1>1, <1>2
    <2>3. ASSUME NEW i \in 1 .. Len(stack')
          PROVE  next[stack'[i]] = IF i = 1 THEN None ELSE stack'[i - 1]
      <3>1. CASE i = Len(stack) + 1
        <4>1. CASE Len(stack) = 0  BY <1>1, <1>2, <3>1, <4>1 DEF LinksFormList
        <4>2. CASE Len(stack) # 0
          <5>1. stack # << >> /\ head = stack[Len(stack)]  BY <4>2 DEF LinksFormList
          <5> QED  BY <1>1, <1>2, <3>1, <4>2, <5>1, SMTT(30)
        <4> QED  BY <4>1, <4>2
      <3>2. CASE i # Len(stack) + 1
        <4>1. i \in 1 .. Len(stack) /\ (i # 1 => i - 1 \in 1 .. Len(stack))  BY <1>2, <3>2
        <4> QED  BY <1>2, <4>1 DEF LinksFormList
      <3> QED  BY <3>1, <3>2
    <2> QED  BY <1>1, <2>1, <2>2, <2>3 DEF LinksFormList
  <1>6. InOnePlace'
    <2>1. \A i, j \in 1 .. Len(stack') : stack'[i] = stack'[j] => i = j
      <3>1. \A i \in 1 .. Len(stack) : stack[i] # hand[t]  BY <1>4 DEF Listed
      <3>2. \A i, j \in 1 .. Len(stack) : stack[i] = stack[j] => i = j  BY DEF InOnePlace
      <3> QED  BY <1>2, <3>1, <3>2
    <2>2. UNCHANGED <<fresh, local, used>> /\ hand' = [hand EXCEPT ![t] = None]  BY DEF Push
    <2>3. hand[t] \notin fresh \cup used /\ \A u \in Threads : hand[t] \notin local[u]
      BY <1>1 DEF InOnePlace
    <2>4. \A u \in Threads : u # t => hand[u] # hand[t]  BY <1>1 DEF InOnePlace
    <2>5. \A n \in Listed' : n \notin fresh \cup used  BY <1>3, <2>3 DEF InOnePlace
    <2>6. ASSUME NEW u \in Threads
          PROVE  /\ local[u] \cap (fresh \cup used \cup Listed') = {}
                 /\ hand'[u] \notin fresh \cup used \cup Listed'
      <3>1. local[u] \cap (fresh \cup used \cup Listed') = {}  BY <1>3, <2>3 DEF InOnePlace
      <3>2. None \notin fresh \cup used \cup Listed'
        <4>1. None \notin Listed  BY DEF Listed
        <4> QED  BY <1>1, <1>3, <4>1
      <3> QED  BY <1>3, <2>2, <2>4, <3>1, <3>2 DEF InOnePlace
    <2> QED  BY <1>1, <2>1, <2>2, <2>5, <2>6 DEF InOnePlace
  <1>7. HandsLinked'  BY DEF HandsLinked, Push, Drop
  <1> QED  BY <1>3, <1>5, <1>6, <1>7

\* A mailbox writes the links of its own nodes only.
LEMMA UseKeepsPlaces == ASSUME TypeInv, Sound, Use PROVE Sound'
  <1> USE PoolAssumption DEF TypeInv, TypeOK, LocalsFit, Sound
  <1>1. PICK n \in used, m \in Nodes \cup {None} :
          next' = [next EXCEPT ![n] = m] /\ UNCHANGED <<listVars, threadVars, local, fresh, used>>
    BY DEF Use
  <1>2. \A i \in 1 .. Len(stack) : stack[i] # n  BY DEF InOnePlace, Listed
  <1>3. LinksFormList'  BY <1>1, <1>2 DEF LinksFormList, listVars
  <1>4. HandsLinked'
    <2>1. \A t \in Threads : hand[t] # n  BY DEF InOnePlace
    <2> QED  BY <1>1, <2>1 DEF HandsLinked, threadVars
  <1>5. InOnePlace'  BY <1>1 DEF InOnePlace, Listed, listVars, threadVars
  <1> QED  BY <1>3, <1>4, <1>5

\* Every step that meets no repeated head keeps the nodes in their places.
LEMMA PlacesStep ==
  ASSUME TypeInv, Sound, [Next]_vars, ~reused'
  PROVE  Sound'
  <1>1. CASE UNCHANGED vars
    BY <1>1 DEF vars, listVars, threadVars, Sound, LinksFormList, InOnePlace, Listed, HandsLinked
  <1>2. CASE Next
    BY <1>2, AcquireKeepsPlaces, PopKeepsPlaces, ReleaseKeepsPlaces, PushKeepsPlaces,
       UseKeepsPlaces DEF Next
  <1> QED  BY <1>1, <1>2

-----------------------------------------------------------------------------
(* One acquirer *)

\* With one acquirer no exchange meets an old head with another link.
LEMMA OneAcquirerStep ==
  ASSUME TypeInv, CallsOfAcquirers, Sound, OneAcquirer, ~reused, SeenStays, [Next]_vars
  PROVE  ~reused' /\ SeenStays'
  <1> USE PoolAssumption DEF TypeInv, TypeOK, LocalsFit, At, To
  <1>0. head # None => head \in Listed
    <2>1. CASE stack = << >>  BY <2>1 DEF Sound, LinksFormList
    <2>2. CASE stack # << >>
      <3>1. Len(stack) \in 1 .. Len(stack)  BY <2>2
      <3> QED  BY <2>2, <3>1 DEF Sound, LinksFormList, Listed
    <2> QED  BY <2>1, <2>2
  <1>1. ASSUME NEW t \in Threads, AcquireLocal(t) PROVE ~reused' /\ SeenStays'
    BY <1>1 DEF AcquireLocal, SeenStays, Listed, listVars, threadVars
  <1>2. ASSUME NEW t \in Threads, LoadHead(t) PROVE ~reused' /\ SeenStays'
    BY <1>0, <1>2 DEF LoadHead, SeenStays, Listed, listVars
  <1>3. ASSUME NEW t \in Threads, ReadNext(t) PROVE ~reused' /\ SeenStays'
    BY <1>3 DEF ReadNext, SeenStays, Listed, listVars
  <1>4. ASSUME NEW t \in Threads, Pop(t) PROVE ~reused' /\ SeenStays'
    <2>1. ~reused'  BY <1>4 DEF Pop, SeenStays
    <2>2. \A u \in Threads : u # t => pc[u] \notin {"next", "pop"}
      BY <1>4 DEF CallsOfAcquirers, OneAcquirer, Pop
    <2>3. pc' = [pc EXCEPT ![t] = "idle"]  BY <1>4 DEF Pop
    <2> QED  BY <2>1, <2>2, <2>3 DEF SeenStays
  <1>5. ASSUME NEW t \in Threads, PopFails(t) PROVE ~reused' /\ SeenStays'
    BY <1>0, <1>5 DEF PopFails, SeenStays, Listed, listVars
  <1>6. ASSUME NEW t \in Threads, New(t) PROVE ~reused' /\ SeenStays'
    BY <1>6 DEF New, SeenStays, Listed, listVars
  <1>7. ASSUME NEW t \in Threads, ReleaseLocal(t) PROVE ~reused' /\ SeenStays'
    BY <1>7 DEF ReleaseLocal, SeenStays, Listed, listVars, threadVars
  <1>8. ASSUME NEW t \in Threads, ReleaseGlobal(t) PROVE ~reused' /\ SeenStays'
    BY <1>8 DEF ReleaseGlobal, SeenStays, Listed, listVars
  <1>9. ASSUME NEW t \in Threads, Link(t) PROVE ~reused' /\ SeenStays'
    <2>1. hand[t] \in Nodes \ Listed  BY <1>9 DEF Link, Sound, InOnePlace
    <2>2. \A n \in Listed : next'[n] = next[n]  BY <1>9, <2>1 DEF Link
    <2> QED  BY <1>9, <2>2 DEF Link, SeenStays, Listed, listVars
  <1>10. ASSUME NEW t \in Threads, Push(t) PROVE ~reused' /\ SeenStays'
    <2>1. Listed \subseteq Listed'  BY <1>10, PushKeepsPlaces
    <2> QED  BY <1>10, <2>1 DEF Push, Drop, SeenStays
  <1>11. ASSUME NEW t \in Threads, PushFails(t) PROVE ~reused' /\ SeenStays'
    BY <1>11 DEF PushFails, SeenStays, Listed, listVars
  <1>12. CASE Use
    <2>1. \A n \in Listed : n \notin used  BY DEF Sound, InOnePlace
    <2>2. \A n \in Listed : next'[n] = next[n]  BY <1>12, <2>1 DEF Use
    <2> QED  BY <1>12, <2>2 DEF Use, SeenStays, Listed, listVars, threadVars
  <1>13. CASE UNCHANGED vars
    BY <1>13 DEF vars, listVars, threadVars, SeenStays, Listed
  <1> QED
    BY <1>1, <1>2, <1>3, <1>4, <1>5, <1>6, <1>7, <1>8, <1>9, <1>10, <1>11, <1>12, <1>13 DEF Next

\* Who acquires does not change, and nobody else looks at the list; a repeated head
\* is not forgotten.
LEMMA CallsStep ==
  ASSUME TypeInv, CallsOfAcquirers, [Next]_vars
  PROVE  CallsOfAcquirers' /\ acquirers' = acquirers /\ (reused => reused')
  BY DEF TypeInv, TypeOK, CallsOfAcquirers, Next, vars, listVars, threadVars, At, To, AcquireLocal,
         LoadHead, ReadNext, Pop, PopFails, New, ReleaseLocal, ReleaseGlobal, Link, Push,
         PushFails, Use

LEMMA PoolInvariant == Spec => []PoolInv
  <1>1. Init => PoolInv
    <2> SUFFICES ASSUME Init PROVE PoolInv  OBVIOUS
    <2>1. TypeInv  BY InitType
    <2>2. stack = << >> /\ Len(stack) = 0  BY DEF Init
    <2>3. LinksFormList  BY <2>2 DEF LinksFormList, Init
    <2>4. Listed = {}  BY <2>2 DEF Listed
    <2>5. InOnePlace  BY PoolAssumption, <2>2, <2>4 DEF InOnePlace, Init
    <2>6. HandsLinked /\ CallsOfAcquirers /\ SeenStays
      BY DEF HandsLinked, CallsOfAcquirers, SeenStays, Init
    <2>7. ~reused  BY Zenon DEF Init
    <2> QED  BY <2>1, <2>3, <2>5, <2>6, <2>7 DEF PoolInv, Sound
  <1>2. PoolInv /\ [Next]_vars => PoolInv'
    <2> SUFFICES ASSUME PoolInv, [Next]_vars PROVE PoolInv'  OBVIOUS
    <2>1. TypeInv'  BY TypeStep DEF PoolInv
    <2>2. CallsOfAcquirers' /\ acquirers' = acquirers /\ (reused => reused')
      BY CallsStep DEF PoolInv
    <2>3. OneAcquirer' = OneAcquirer  BY <2>2 DEF OneAcquirer
    <2>4. OneAcquirer => ~reused' /\ SeenStays'  BY OneAcquirerStep DEF PoolInv
    <2>5. OneAcquirer \/ ~reused' => Sound'  BY <2>2, <2>4, PlacesStep DEF PoolInv
    <2> QED  BY <2>1, <2>2, <2>3, <2>4, <2>5 DEF PoolInv
  <1> QED  BY <1>1, <1>2, PTL DEF Spec

\* No node is given out twice or lost, with one acquirer or until a head is met again
\* whose link has changed (ObjectPool.h:39).
THEOREM NodesOwnedOnce == Spec => []OwnedOnce
  <1>1. PoolInv => OwnedOnce  BY DEF PoolInv, OwnedOnce, Sound
  <1> QED  BY <1>1, PoolInvariant, PTL

\* With one thread that acquires, that head is never met (ObjectPool.h:40).
THEOREM OneAcquirerIsSafe == Spec => []SafeWithOneAcquirer
  <1>1. PoolInv => SafeWithOneAcquirer  BY DEF PoolInv, SafeWithOneAcquirer
  <1> QED  BY <1>1, PoolInvariant, PTL
=============================================================================
