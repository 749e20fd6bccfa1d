--------------------------- MODULE GachaDrawProofs ---------------------------
(* Theorems about GachaDraw, for any number of actors and requests, any pools  *)
(* and any failures of Redis.                                                  *)
EXTENDS GachaDraw, FiniteSetTheorems, WellFoundedInduction, TLAPS

-----------------------------------------------------------------------------
(* Type correctness *)

\* Requests begin with the variables in their types.
LEMMA InitType == Init => TypeOK
  <1> SUFFICES ASSUME Init PROVE TypeOK  OBVIOUS
  <1>1. {money, items, pity, records, got, answer} \subseteq [Handlers -> Nat]
    BY GachaAssumption DEF Init
  <1>2. trace \in [Handlers -> Traces]  BY GachaAssumption DEF Init
  <1> QED  BY <1>1, <1>2, GachaAssumption DEF Init, TypeOK, Absent

\* Every step keeps the types.
LEMMA TypeStep == ASSUME TypeOK, [Next]_vars PROVE TypeOK'
  <1> USE GachaAssumption DEF TypeOK, Go, Fault, SetKey, Price, AnswerIs, Absent, Processing,
          poolVars, playerVars, historyVars, requestVars
  <1>1. ASSUME NEW h \in Handlers, NEW t \in Traces, Receive(h, t) PROVE TypeOK'
    BY <1>1 DEF Receive
  <1>2. ASSUME NEW h \in Handlers, Handle(h) PROVE TypeOK'
    <2>1. CASE LetThrough(h)  BY <2>1 DEF LetThrough
    <2>2. CASE LockNew(h)  BY <2>2 DEF LockNew
    <2>3. CASE LockTaken(h)  BY <2>3 DEF LockTaken
    <2>4. CASE LockUnanswered(h)  BY <2>4 DEF LockUnanswered
    <2>5. CASE Refuse(h)  BY <2>5 DEF Refuse
    <2>6. CASE Replay(h)  BY <2>6 DEF Replay
    <2>7. CASE Spend(h)  BY <2>7 DEF Spend
    <2>8. CASE InsufficientFunds(h)  BY <2>8 DEF InsufficientFunds
    <2>9. CASE DrawOnce(h)  BY <2>9 DEF DrawOnce
    <2>10. CASE DrawThrows(h)  BY <2>10 DEF DrawThrows
    <2>11. CASE Grant(h)  BY <2>11 DEF Grant
    <2>12. CASE SaveResult(h)  BY <2>12 DEF SaveResult
    <2>13. CASE SaveResultFails(h)  BY <2>13 DEF SaveResultFails
    <2>14. CASE Unlock(h)  BY <2>14 DEF Unlock
    <2>15. CASE UnlockFails(h)  BY <2>15 DEF UnlockFails
    <2> QED
      BY <1>2, <2>1, <2>2, <2>3, <2>4, <2>5, <2>6, <2>7, <2>8, <2>9, <2>10, <2>11, <2>12,
         <2>13, <2>14, <2>15 DEF Handle
  <1>3. ASSUME NEW t \in Traces, Expire(t) PROVE TypeOK'  BY <1>3 DEF Expire
  <1>4. CASE UNCHANGED vars  BY <1>4 DEF vars
  <1> QED  BY <1>1, <1>2, <1>3, <1>4 DEF Next

\* The variables keep their types.
THEOREM TypeCorrect == Spec => []TypeOK
  BY InitType, TypeStep, PTL DEF Spec

-----------------------------------------------------------------------------
(* Drawing *)

\* A handler stops drawing when it has made the draws that were paid for.
CountInv == \A h \in Handlers :
  /\ pc[h] = "draw" => got[h] < Price(h)
  /\ pc[h] = "grant" => got[h] = Price(h)

\* Every step keeps the count.
LEMMA CountStep == ASSUME TypeOK, CountInv, [Next]_vars PROVE CountInv'
  <1> USE GachaAssumption DEF TypeOK, CountInv, Go, Price, poolVars, playerVars, historyVars,
          requestVars
  <1>1. ASSUME NEW h \in Handlers, NEW t \in Traces, Receive(h, t) PROVE CountInv'
    BY <1>1 DEF Receive
  <1>2. ASSUME NEW h \in Handlers, Handle(h) PROVE CountInv'
    <2>1. CASE LetThrough(h)  BY <2>1 DEF LetThrough
    <2>2. CASE LockNew(h)  BY <2>2 DEF LockNew
    <2>3. CASE LockTaken(h)  BY <2>3 DEF LockTaken
    <2>4. CASE LockUnanswered(h)  BY <2>4 DEF LockUnanswered
    <2>5. CASE Refuse(h)  BY <2>5 DEF Refuse
    <2>6. CASE Replay(h)  BY <2>6 DEF Replay
    <2>7. CASE Spend(h)  BY <2>7 DEF Spend
    <2>8. CASE InsufficientFunds(h)  BY <2>8 DEF InsufficientFunds
    <2>9. CASE DrawOnce(h)  BY <2>9 DEF DrawOnce
    <2>10. CASE DrawThrows(h)  BY <2>10 DEF DrawThrows
    <2>11. CASE Grant(h)  BY <2>11 DEF Grant
    <2>12. CASE SaveResult(h)  BY <2>12 DEF SaveResult
    <2>13. CASE SaveResultFails(h)  BY <2>13 DEF SaveResultFails
    <2>14. CASE Unlock(h)  BY <2>14 DEF Unlock
    <2>15. CASE UnlockFails(h)  BY <2>15 DEF UnlockFails
    <2> QED
      BY <1>2, <2>1, <2>2, <2>3, <2>4, <2>5, <2>6, <2>7, <2>8, <2>9, <2>10, <2>11, <2>12,
         <2>13, <2>14, <2>15 DEF Handle
  <1>3. ASSUME NEW t \in Traces, Expire(t) PROVE CountInv'  BY <1>3 DEF Expire
  <1>4. CASE UNCHANGED vars  BY <1>4 DEF vars
  <1> QED  BY <1>1, <1>2, <1>3, <1>4 DEF Next

\* A ten draw is ten draws, whatever the other handlers do.
LEMMA CountCorrect == Spec => []CountInv
  <1>1. Init => CountInv  BY DEF Init, CountInv
  <1> QED  BY TypeCorrect, CountStep, <1>1, PTL DEF Spec

\* How many steps a request still has at most.
RequestRank(h) ==
  CASE pc[h] = "idle" -> 0
    [] pc[h] \in {"get", "unlock"} -> 1
    [] pc[h] = "save" -> 2
    [] pc[h] = "grant" -> 3
    [] pc[h] = "draw" -> 4 + Price(h) - got[h]
    [] pc[h] = "spend" -> 5 + Price(h)
    [] pc[h] = "check" -> 6 + Price(h)

RequestAdvances(h) ==
  /\ RequestRank(h) \in Nat
  /\ Handle(h) => RequestRank(h)' < RequestRank(h)
  /\ ~Handle(h) /\ pc[h] # "idle" => RequestRank(h)' = RequestRank(h)
RequestsAdvance == [][\A h \in Handlers : RequestAdvances(h)]_vars

\* A step of a handler brings its request nearer to its end, and only such a step moves it.
LEMMA RequestStep ==
  ASSUME TypeOK, CountInv, [Next]_vars, NEW h \in Handlers
  PROVE  RequestAdvances(h)
  <1> USE GachaAssumption DEF TypeOK, CountInv, RequestRank, Go, Price, poolVars, playerVars,
          historyVars, requestVars
  <1>1. RequestRank(h) \in Nat
    <2>1. Price(h) \in Nat /\ got[h] \in Nat  OBVIOUS
    <2> QED  BY <2>1
  <1>2. ASSUME Handle(h) PROVE RequestRank(h)' < RequestRank(h)
    <2>1. CASE LetThrough(h)  BY <2>1 DEF LetThrough
    <2>2. CASE LockNew(h)  BY <2>2 DEF LockNew
    <2>3. CASE LockTaken(h)  BY <2>3 DEF LockTaken
    <2>4. CASE LockUnanswered(h)  BY <2>4 DEF LockUnanswered
    <2>5. CASE Refuse(h)  BY <2>5 DEF Refuse
    <2>6. CASE Replay(h)  BY <2>6 DEF Replay
    <2>7. CASE Spend(h)  BY <2>7 DEF Spend
    <2>8. CASE InsufficientFunds(h)  BY <2>8 DEF InsufficientFunds
    <2>9. CASE DrawOnce(h)  BY <2>9 DEF DrawOnce
    <2>10. CASE DrawThrows(h)  BY <2>10 DEF DrawThrows
    <2>11. CASE Grant(h)  BY <2>11 DEF Grant
    <2>12. CASE SaveResult(h)  BY <2>12 DEF SaveResult
    <2>13. CASE SaveResultFails(h)  BY <2>13 DEF SaveResultFails
    <2>14. CASE Unlock(h)  BY <2>14 DEF Unlock
    <2>15. CASE UnlockFails(h)  BY <2>15 DEF UnlockFails
    <2> QED
      BY <1>2, <2>1, <2>2, <2>3, <2>4, <2>5, <2>6, <2>7, <2>8, <2>9, <2>10, <2>11, <2>12,
         <2>13, <2>14, <2>15 DEF Handle
  <1>3. ASSUME ~Handle(h), pc[h] # "idle" PROVE RequestRank(h)' = RequestRank(h)
    <2> SUFFICES pc'[h] = pc[h] /\ trace'[h] = trace[h] /\ got'[h] = got[h]  OBVIOUS
    <2>1. ASSUME NEW k \in Handlers, NEW t \in Traces, Receive(k, t)
          PROVE  pc'[h] = pc[h] /\ trace'[h] = trace[h] /\ got'[h] = got[h]
      BY <1>3, <2>1 DEF Receive
    <2>2. ASSUME NEW k \in Handlers, Handle(k)
          PROVE  pc'[h] = pc[h] /\ trace'[h] = trace[h] /\ got'[h] = got[h]
      <3>1. k # h  BY <1>3, <2>2
      <3> QED
        BY <2>2, <3>1 DEF Handle, LetThrough, LockNew, LockTaken, LockUnanswered, Refuse, Replay,
           Spend, InsufficientFunds, DrawOnce, DrawThrows, Grant, SaveResult, SaveResultFails,
           Unlock, UnlockFails
    <2>3. CASE \E t \in Traces : Expire(t)  BY <2>3 DEF Expire
    <2>4. CASE UNCHANGED vars  BY <2>4 DEF vars
    <2> QED  BY <2>1, <2>2, <2>3, <2>4 DEF Next
  <1> QED  BY <1>1, <1>2, <1>3 DEF RequestAdvances

\* Whatever Redis answers and whatever the pools hold, no request goes in a circle: with n
\* draws it takes at most n + 6 steps.
THEOREM RequestsEnd == Spec => RequestsAdvance
  <1>1. TypeOK /\ CountInv /\ [Next]_vars => [\A h \in Handlers : RequestAdvances(h)]_vars
    BY RequestStep
  <1> QED  BY TypeCorrect, CountCorrect, <1>1, PTL DEF Spec, RequestsAdvance

-----------------------------------------------------------------------------
(* Paying *)

\* Money, items and what is in hand add up.
MoneyInv == \A h \in Handlers : money[h] + items[h] + InHand(h) = Money

\* Every step keeps the sum of money, items and what is in hand.
LEMMA MoneyStep == ASSUME TypeOK, CountInv, MoneyInv, [Next]_vars PROVE MoneyInv'
  <1> USE GachaAssumption DEF TypeOK, CountInv, MoneyInv, InHand, Go, Price, poolVars, playerVars, historyVars,
          requestVars
  <1>1. ASSUME NEW h \in Handlers, NEW t \in Traces, Receive(h, t) PROVE MoneyInv'
    BY <1>1 DEF Receive
  <1>2. ASSUME NEW h \in Handlers, Handle(h) PROVE MoneyInv'
    <2>1. CASE LetThrough(h)  BY <2>1 DEF LetThrough
    <2>2. CASE LockNew(h)  BY <2>2 DEF LockNew
    <2>3. CASE LockTaken(h)  BY <2>3 DEF LockTaken
    <2>4. CASE LockUnanswered(h)  BY <2>4 DEF LockUnanswered
    <2>5. CASE Refuse(h)  BY <2>5 DEF Refuse
    <2>6. CASE Replay(h)  BY <2>6 DEF Replay
    <2>7. CASE Spend(h)  BY <2>7 DEF Spend
    <2>8. CASE InsufficientFunds(h)  BY <2>8 DEF InsufficientFunds
    <2>9. CASE DrawOnce(h)  BY <2>9 DEF DrawOnce
    <2>10. CASE DrawThrows(h)  BY <2>10 DEF DrawThrows
    <2>11. CASE Grant(h)  BY <2>11 DEF Grant
    <2>12. CASE SaveResult(h)  BY <2>12 DEF SaveResult
    <2>13. CASE SaveResultFails(h)  BY <2>13 DEF SaveResultFails
    <2>14. CASE Unlock(h)  BY <2>14 DEF Unlock
    <2>15. CASE UnlockFails(h)  BY <2>15 DEF UnlockFails
    <2> QED
      BY <1>2, <2>1, <2>2, <2>3, <2>4, <2>5, <2>6, <2>7, <2>8, <2>9, <2>10, <2>11, <2>12,
         <2>13, <2>14, <2>15 DEF Handle
  <1>3. ASSUME NEW t \in Traces, Expire(t) PROVE MoneyInv'  BY <1>3 DEF Expire
  <1>4. CASE UNCHANGED vars  BY <1>4 DEF vars
  <1> QED  BY <1>1, <1>2, <1>3, <1>4 DEF Next

\* Between requests a player has paid for exactly the items received.
PaidForItems == \A h \in Handlers : pc[h] = "idle" => money[h] + items[h] = Money

\* That holds whatever Redis calls failed and whichever draw of a request was refused
\* (GachaService.cpp:114).
THEOREM DrawsArePaid == Spec => []PaidForItems
  <1>1. Init => MoneyInv  BY GachaAssumption DEF Init, MoneyInv, InHand
  <1>2. TypeOK /\ CountInv /\ MoneyInv /\ [Next]_vars => MoneyInv'  BY MoneyStep
  <1>3. TypeOK /\ MoneyInv => PaidForItems
    BY GachaAssumption DEF TypeOK, MoneyInv, InHand, PaidForItems
  <1> QED  BY TypeCorrect, CountCorrect, <1>1, <1>2, <1>3, PTL DEF Spec

-----------------------------------------------------------------------------
(* A request is a purchase *)

\* An answer in Redis has been sent, and so has one that is about to be stored.
AnswersInv ==
  /\ \A t \in Traces : redis[t] > Processing => <<t, redis[t]>> \in sent
  /\ \A h \in Handlers : pc[h] = "save" => <<trace[h], answer[h]>> \in sent

\* Every step keeps that.
LEMMA AnswersStep == ASSUME TypeOK, AnswersInv, [Next]_vars PROVE AnswersInv'
  <1> USE DEF TypeOK, AnswersInv, Go, Fault, SetKey, AnswerIs, Absent, Processing, poolVars,
          playerVars, historyVars, requestVars
  <1>1. ASSUME NEW h \in Handlers, NEW t \in Traces, Receive(h, t) PROVE AnswersInv'
    BY <1>1 DEF Receive
  <1>2. ASSUME NEW h \in Handlers, Handle(h) PROVE AnswersInv'
    <2>1. CASE LetThrough(h)  BY <2>1 DEF LetThrough
    <2>2. CASE LockNew(h)  BY <2>2 DEF LockNew
    <2>3. CASE LockTaken(h)  BY <2>3 DEF LockTaken
    <2>4. CASE LockUnanswered(h)  BY <2>4 DEF LockUnanswered
    <2>5. CASE Refuse(h)  BY <2>5 DEF Refuse
    <2>6. CASE Replay(h)  BY <2>6 DEF Replay
    <2>7. CASE Spend(h)  BY <2>7 DEF Spend
    <2>8. CASE InsufficientFunds(h)  BY <2>8 DEF InsufficientFunds
    <2>9. CASE DrawOnce(h)  BY <2>9 DEF DrawOnce
    <2>10. CASE DrawThrows(h)  BY <2>10 DEF DrawThrows
    <2>11. CASE Grant(h)  BY <2>11 DEF Grant
    <2>12. CASE SaveResult(h)  BY <2>12 DEF SaveResult
    <2>13. CASE SaveResultFails(h)  BY <2>13 DEF SaveResultFails
    <2>14. CASE Unlock(h)  BY <2>14 DEF Unlock
    <2>15. CASE UnlockFails(h)  BY <2>15 DEF UnlockFails
    <2> QED
      BY <1>2, <2>1, <2>2, <2>3, <2>4, <2>5, <2>6, <2>7, <2>8, <2>9, <2>10, <2>11, <2>12,
         <2>13, <2>14, <2>15 DEF Handle
  <1>3. ASSUME NEW t \in Traces, Expire(t) PROVE AnswersInv'  BY <1>3 DEF Expire
  <1>4. CASE UNCHANGED vars  BY <1>4 DEF vars
  <1> QED  BY <1>1, <1>2, <1>3, <1>4 DEF Next

\* What each player owns, the money in a handler's hand included.
Wealth == [h \in Handlers |-> money[h] + InHand(h)]

\* Only Grant changes what is owned, granted, counted or answered.
LEMMA OnlyGrantBuys ==
  ASSUME TypeOK, AnswersInv, [Next]_vars, \A h \in Handlers : ~Grant(h)
  PROVE  UNCHANGED <<Wealth, items, runs, sent>>
  <1> SUFFICES (\A h \in Handlers : money'[h] + InHand(h)' = money[h] + InHand(h))
               /\ UNCHANGED <<items, runs, sent>>
    BY DEF Wealth
  <1> USE GachaAssumption DEF TypeOK, InHand, Go, Price, poolVars, playerVars, historyVars,
          requestVars
  <1>1. ASSUME NEW h \in Handlers, NEW t \in Traces, Receive(h, t)
        PROVE  (\A k \in Handlers : money'[k] + InHand(k)' = money[k] + InHand(k))
               /\ UNCHANGED <<items, runs, sent>>
    BY <1>1 DEF Receive
  <1>2. ASSUME NEW h \in Handlers, Handle(h)
        PROVE  (\A k \in Handlers : money'[k] + InHand(k)' = money[k] + InHand(k))
               /\ UNCHANGED <<items, runs, sent>>
    <2>1. CASE LetThrough(h)  BY <2>1 DEF LetThrough
    <2>2. CASE LockNew(h)  BY <2>2 DEF LockNew
    <2>3. CASE LockTaken(h)  BY <2>3 DEF LockTaken
    <2>4. CASE LockUnanswered(h)  BY <2>4 DEF LockUnanswered
    <2>5. CASE Refuse(h)  BY <2>5 DEF Refuse
    <2>6. CASE Replay(h)
      <3>1. <<trace[h], redis[trace[h]]>> \in sent  BY <2>6 DEF Replay, AnswersInv
      <3>2. sent' = sent  BY <2>6, <3>1 DEF Replay
      <3> QED  BY <2>6, <3>2 DEF Replay
    <2>7. CASE Spend(h)  BY <2>7 DEF Spend
    <2>8. CASE InsufficientFunds(h)  BY <2>8 DEF InsufficientFunds
    <2>9. CASE DrawOnce(h)  BY <2>9 DEF DrawOnce
    <2>10. CASE DrawThrows(h)  BY <2>10 DEF DrawThrows
    <2>11. CASE SaveResult(h)  BY <2>11 DEF SaveResult
    <2>12. CASE SaveResultFails(h)  BY <2>12 DEF SaveResultFails
    <2>13. CASE Unlock(h)  BY <2>13 DEF Unlock
    <2>14. CASE UnlockFails(h)  BY <2>14 DEF UnlockFails
    <2> QED
      BY <1>2, <2>1, <2>2, <2>3, <2>4, <2>5, <2>6, <2>7, <2>8, <2>9, <2>10, <2>11, <2>12,
         <2>13, <2>14 DEF Handle
  <1>3. ASSUME NEW t \in Traces, Expire(t)
        PROVE  (\A k \in Handlers : money'[k] + InHand(k)' = money[k] + InHand(k))
               /\ UNCHANGED <<items, runs, sent>>
    BY <1>3 DEF Expire
  <1>4. CASE UNCHANGED vars  BY <1>4 DEF vars
  <1> QED  BY <1>1, <1>2, <1>3, <1>4 DEF Next

\* Grant pays with what is in hand, hands out and answers at once.
LEMMA GrantBuys ==
  ASSUME TypeOK, CountInv, NEW h \in Handlers, Grant(h)
  PROVE  Buying!Buy(h, trace[h])
  <1> USE GachaAssumption DEF TypeOK, Grant, Go, AnswerIs, requestVars
  <1>1. /\ InHand(h) = Draws[trace[h]] /\ InHand(h)' = 0 /\ money' = money
        /\ \A k \in Handlers \ {h} : InHand(k)' = InHand(k)
    BY DEF InHand, Price
  <1>2. money[h] \in Nat /\ Draws[trace[h]] \in Nat  OBVIOUS
  <1>3. Wealth[h] >= Draws[trace[h]]  BY <1>1, <1>2 DEF Wealth
  <1>4. Wealth' = [Wealth EXCEPT ![h] = @ - Draws[trace[h]]]
    <2>1. \A k \in Handlers : (money[k] + InHand(k))'
            = IF k = h THEN (money[k] + InHand(k)) - Draws[trace[h]] ELSE money[k] + InHand(k)
      BY <1>1, <1>2
    <2> HIDE DEF TypeOK, Grant
    <2> QED  BY <2>1, Zenon DEF Wealth
  <1>5. items' = [items EXCEPT ![h] = @ + Draws[trace[h]]]  BY DEF CountInv, Price
  <1>6. runs' = [runs EXCEPT ![trace[h]] = @ + 1]  OBVIOUS
  <1>7. sent' = sent \cup {<<trace[h], runs[trace[h]] + 1>>}  OBVIOUS
  <1> QED  BY <1>3, <1>4, <1>5, <1>6, <1>7 DEF Buying!Buy, Wealth

\* Whatever calls fail, keys expire and draws are refused: a request pays, brings its
\* items and is answered as one thing or does nothing, and an answer that is sent again
\* was sent before.
THEOREM DrawsArePurchases == Spec => ImplementsPurchase
  <1>1. Init => AnswersInv  BY DEF Init, AnswersInv, Absent, Processing
  <1>2. TypeOK /\ AnswersInv /\ [Next]_vars => AnswersInv'  BY AnswersStep
  <1>3. Init => Buying!Init
    <2> SUFFICES ASSUME Init PROVE Buying!Init  OBVIOUS
    <2>1. \A h \in Handlers : money[h] + InHand(h) = Money
      BY GachaAssumption DEF Init, InHand
    <2> QED  BY <2>1 DEF Init, Buying!Init
  <1>4. TypeOK /\ CountInv /\ AnswersInv /\ [Next]_vars => [Buying!Next]_(Buying!vars)
    <2> SUFFICES ASSUME TypeOK, CountInv, AnswersInv, [Next]_vars
                 PROVE  Buying!Next \/ UNCHANGED Buying!vars
      OBVIOUS
    <2>1. CASE \E h \in Handlers : Grant(h)
      <3>1. PICK h \in Handlers : Grant(h)  BY <2>1
      <3>2. Buying!Buy(h, trace[h]) /\ trace[h] \in Traces  BY <3>1, GrantBuys DEF TypeOK
      <3> QED  BY <3>2 DEF Buying!Next, Buying!Buy
    <2>2. CASE \A h \in Handlers : ~Grant(h)
      <3>1. UNCHANGED <<Wealth, items, runs, sent>>  BY <2>2, OnlyGrantBuys
      <3> QED  BY <3>1 DEF Buying!vars, Wealth
    <2> QED  BY <2>1, <2>2
  <1> QED
    BY TypeCorrect, CountCorrect, <1>1, <1>2, <1>3, <1>4, PTL DEF Spec, ImplementsPurchase, Buying!Spec

-----------------------------------------------------------------------------
(* A request is carried out once *)

\* As long as the key of t has worked: one handler at most serves it, and the key
\* says so until the answer is stored; what was granted and what was answered
\* agree with the key.
KeyIsRight(t) ==
  /\ \A h \in Handlers : Serves(h, t) =>
       /\ redis[t] = Processing
       /\ runs[t] = IF pc[h] = "save" THEN 1 ELSE 0
       /\ pc[h] = "save" => answer[h] = 1
       /\ \A k \in Handlers : Serves(k, t) => k = h
  /\ runs[t] \in {0, 1}
  /\ redis[t] = Absent => runs[t] = 0
  /\ redis[t] > Processing => redis[t] = 1 /\ runs[t] = 1
  /\ \A x \in sent : x[1] = t => x[2] = 1

KeysInv == \A t \in Traces \ {NoTrace} : faults = 0 /\ t \notin expired => KeyIsRight(t)

\* Failures and expired keys are not forgotten.
LEMMA FaultsStay ==
  ASSUME TypeOK, [Next]_vars
  PROVE  (faults' = 0 => faults = 0) /\ expired \subseteq expired'
  <1> USE DEF TypeOK, Fault, poolVars, playerVars, historyVars, requestVars
  <1>1. ASSUME NEW h \in Handlers, NEW t \in Traces, Receive(h, t)
        PROVE  (faults' = 0 => faults = 0) /\ expired \subseteq expired'
    BY <1>1 DEF Receive
  <1>2. ASSUME NEW h \in Handlers, Handle(h)
        PROVE  (faults' = 0 => faults = 0) /\ expired \subseteq expired'
    BY <1>2 DEF Handle, LetThrough, LockNew, LockTaken, LockUnanswered, Refuse, Replay, Spend,
       InsufficientFunds, DrawOnce, DrawThrows, Grant, SaveResult, SaveResultFails, Unlock,
       UnlockFails
  <1>3. ASSUME NEW t \in Traces, Expire(t)
        PROVE  (faults' = 0 => faults = 0) /\ expired \subseteq expired'
    BY <1>3 DEF Expire
  <1>4. CASE UNCHANGED vars  BY <1>4 DEF vars
  <1> QED  BY <1>1, <1>2, <1>3, <1>4 DEF Next

\* As long as Redis answers and the key lives, every step keeps the key right.
LEMMA KeyStep ==
  ASSUME TypeOK, NEW t \in Traces \ {NoTrace}, KeyIsRight(t), [Next]_vars,
         faults = 0, faults' = 0, t \notin expired'
  PROVE  KeyIsRight(t)'
  <1> USE GachaAssumption DEF TypeOK, KeyIsRight, Serves, Go, Fault, SetKey, Price, AnswerIs, Absent,
          Processing, poolVars, playerVars, historyVars, requestVars
  <1>1. ASSUME NEW h \in Handlers, NEW u \in Traces, Receive(h, u) PROVE KeyIsRight(t)'
    BY <1>1 DEF Receive
  <1>2. ASSUME NEW h \in Handlers, Handle(h) PROVE KeyIsRight(t)'
    <2>1. CASE LetThrough(h)  BY <2>1 DEF LetThrough
    <2>2. CASE LockNew(h)  BY <2>2 DEF LockNew
    <2>3. CASE LockTaken(h)  BY <2>3 DEF LockTaken
    <2>4. CASE LockUnanswered(h)  BY <2>4 DEF LockUnanswered
    <2>5. CASE Refuse(h)  BY <2>5 DEF Refuse
    <2>6. CASE Replay(h)  BY <2>6 DEF Replay
    <2>7. CASE Spend(h)  BY <2>7 DEF Spend
    <2>8. CASE InsufficientFunds(h)  BY <2>8 DEF InsufficientFunds
    <2>9. CASE DrawOnce(h)  BY <2>9 DEF DrawOnce
    <2>10. CASE DrawThrows(h)  BY <2>10 DEF DrawThrows
    <2>11. CASE Grant(h)  BY <2>11 DEF Grant
    <2>12. CASE SaveResult(h)  BY <2>12 DEF SaveResult
    <2>13. CASE SaveResultFails(h)  BY <2>13 DEF SaveResultFails
    <2>14. CASE Unlock(h)  BY <2>14 DEF Unlock
    <2>15. CASE UnlockFails(h)  BY <2>15 DEF UnlockFails
    <2> QED
      BY <1>2, <2>1, <2>2, <2>3, <2>4, <2>5, <2>6, <2>7, <2>8, <2>9, <2>10, <2>11, <2>12,
         <2>13, <2>14, <2>15 DEF Handle
  <1>3. ASSUME NEW u \in Traces, Expire(u) PROVE KeyIsRight(t)'  BY <1>3 DEF Expire
  <1>4. CASE UNCHANGED vars  BY <1>4 DEF vars
  <1> QED  BY <1>1, <1>2, <1>3, <1>4 DEF Next

\* As long as no Redis call has failed and its key lives, a request is carried out
\* once, however often it is repeated and whichever actor gets it, and its
\* repetitions get the same answer.
THEOREM CarriedOutOnce == Spec => []OncePerTrace
  <1>1. Init => KeysInv
    BY GachaAssumption DEF Init, KeysInv, KeyIsRight, Serves, Absent, Processing
  <1>2. TypeOK /\ KeysInv /\ [Next]_vars => KeysInv'
    BY FaultsStay, KeyStep DEF KeysInv
  <1>3. TypeOK /\ KeysInv => OncePerTrace
    <2> SUFFICES ASSUME TypeOK, KeysInv, NEW t \in Traces \ {NoTrace}, faults = 0, t \notin expired
                 PROVE  runs[t] <= 1 /\ \A x, y \in sent : x[1] = t /\ y[1] = t => x = y
      BY DEF OncePerTrace
    <2>1. KeyIsRight(t)  BY DEF KeysInv
    <2>2. runs[t] <= 1  BY <2>1 DEF KeyIsRight
    <2>3. ASSUME NEW x \in sent, NEW y \in sent, x[1] = t, y[1] = t PROVE x = y
      <3>1. x = <<x[1], x[2]>> /\ y = <<y[1], y[2]>>  BY DEF TypeOK
      <3> QED  BY <2>1, <2>3, <3>1 DEF KeyIsRight
    <2> QED  BY <2>2, <2>3
  <1> QED  BY TypeCorrect, <1>1, <1>2, <1>3, PTL DEF Spec

-----------------------------------------------------------------------------
(* A lock has a handler, and who is refused has been served or is *)

\* A lock is in hand unless its SETNX or DEL failed, an answer in Redis is one of a run,
\* and so is one that is about to be stored.
LocksInv ==
  /\ \A t \in Traces : redis[t] # Absent => t # NoTrace
  /\ \A t \in Traces : redis[t] = Processing /\ t \notin unsure => \E h \in Handlers : Serves(h, t)
  /\ \A t \in Traces : redis[t] > Processing => runs[t] > 0
  /\ \A h \in Handlers : pc[h] = "save" => answer[h] > Processing /\ runs[trace[h]] > 0

\* A step that sets no lock, and that no handler ends a request with, leaves every lock in
\* the hand it is in.
LEMMA LocksStay ==
  ASSUME LocksInv, \A t \in Traces : redis'[t] = Processing => redis[t] = Processing,
         unsure \subseteq unsure',
         \A h \in Handlers, t \in Traces : Serves(h, t) => Serves(h, t)'
  PROVE  \A t \in Traces : redis'[t] = Processing /\ t \notin unsure' => \E h \in Handlers : Serves(h, t)'
  BY DEF LocksInv

\* Nor does the end of a request, which replaces or removes the lock of its trace or was
\* not able to.
LEMMA LocksEnd ==
  ASSUME LocksInv, NEW k \in Handlers,
         \A t \in Traces : redis'[t] = Processing => redis[t] = Processing,
         unsure \subseteq unsure',
         redis'[trace[k]] # Processing \/ trace[k] \in unsure',
         \A h \in Handlers \ {k}, t \in Traces : Serves(h, t) => Serves(h, t)'
  PROVE  \A t \in Traces : redis'[t] = Processing /\ t \notin unsure' => \E h \in Handlers : Serves(h, t)'
  <1> SUFFICES ASSUME NEW t \in Traces, redis'[t] = Processing, t \notin unsure'
               PROVE  \E h \in Handlers : Serves(h, t)'
    OBVIOUS
  <1>1. PICK h \in Handlers : Serves(h, t)  BY DEF LocksInv
  <1>2. t # trace[k]  OBVIOUS
  <1>3. h # k  BY <1>1, <1>2 DEF Serves
  <1> QED  BY <1>1, <1>3

\* Every step keeps that.
LEMMA LocksStep == ASSUME TypeOK, LocksInv, [Next]_vars PROVE LocksInv'
  <1> USE GachaAssumption DEF TypeOK, Go, Fault, SetKey, AnswerIs, Absent, Processing,
          poolVars, playerVars, historyVars, requestVars
  <1> DEFINE Held == \A t \in Traces : redis[t] = Processing /\ t \notin unsure
                                        => \E h \in Handlers : Serves(h, t)
             Rest == /\ \A t \in Traces : redis[t] # Absent => t # NoTrace
                     /\ \A t \in Traces : redis[t] > Processing => runs[t] > 0
                     /\ \A h \in Handlers : pc[h] = "save"
                                               => answer[h] > Processing /\ runs[trace[h]] > 0
  <1>0. Rest /\ Held  BY DEF LocksInv
  <1> SUFFICES Rest' /\ Held'  BY DEF LocksInv
  <1>1. ASSUME NEW h \in Handlers, NEW u \in Traces, Receive(h, u) PROVE Rest' /\ Held'
    <2>1. Rest'  BY <1>0, <1>1 DEF Receive
    <2>2. Held'  BY <1>1, LocksStay DEF Receive, Serves
    <2> QED  BY <2>1, <2>2
  <1>2. ASSUME NEW h \in Handlers, Handle(h) PROVE Rest' /\ Held'
    <2>1. CASE LetThrough(h) \/ LockTaken(h) \/ Refuse(h) \/ Replay(h)
      <3>1. Rest'  BY <1>0, <2>1 DEF LetThrough, LockTaken, Refuse, Replay
      <3>2. Held'  BY <2>1, LocksStay DEF LetThrough, LockTaken, Refuse, Replay, Serves
      <3> QED  BY <3>1, <3>2
    <2>2. CASE LockNew(h)
      <3>1. Rest'  BY <1>0, <2>2 DEF LockNew
      <3>2. Held'
        <4> SUFFICES ASSUME NEW t \in Traces, redis'[t] = Processing, t \notin unsure'
                     PROVE  \E k \in Handlers : Serves(k, t)'
          OBVIOUS
        <4>1. CASE t = trace[h]
          <5>1. Serves(h, t)'  BY <2>2, <4>1 DEF LockNew, Serves
          <5> QED  BY <5>1
        <4>2. CASE t # trace[h]
          <5>1. redis[t] = Processing /\ t \notin unsure  BY <2>2, <4>2 DEF LockNew
          <5>2. PICK k \in Handlers : Serves(k, t)  BY <1>0, <5>1
          <5>3. Serves(k, t)'  BY <2>2, <5>2 DEF LockNew, Serves
          <5> QED  BY <5>3
        <4> QED  BY <4>1, <4>2
      <3> QED  BY <3>1, <3>2
    <2>3. CASE LockUnanswered(h)
      <3>1. Rest'  BY <1>0, <2>3 DEF LockUnanswered
      <3>2. Held'
        <4> SUFFICES ASSUME NEW t \in Traces, redis'[t] = Processing, t \notin unsure'
                     PROVE  \E k \in Handlers : Serves(k, t)'
          OBVIOUS
        <4>1. redis[t] = Processing /\ t \notin unsure  BY <2>3 DEF LockUnanswered
        <4>2. PICK k \in Handlers : Serves(k, t)  BY <1>0, <4>1
        <4>3. Serves(k, t)'  BY <2>3, <4>2 DEF LockUnanswered, Serves
        <4> QED  BY <4>3
      <3> QED  BY <3>1, <3>2
    <2>4. CASE Spend(h) \/ InsufficientFunds(h) \/ DrawOnce(h) \/ DrawThrows(h)
      <3>1. /\ UNCHANGED <<redis, unsure, runs, trace, answer>> /\ pc' = [pc EXCEPT ![h] = pc'[h]]
            /\ pc'[h] \in {"draw", "grant", "unlock"} /\ pc[h] \in {"spend", "draw"}
        BY <2>4 DEF Spend, InsufficientFunds, DrawOnce, DrawThrows
      <3>2. Rest'  BY <1>0, <3>1
      <3>3. Held'  BY <3>1, LocksStay DEF Serves
      <3> QED  BY <3>2, <3>3
    <2>5. CASE Grant(h)
      <3>1. Rest'
        <4>1. runs[trace[h]] \in Nat /\ runs' = [runs EXCEPT ![trace[h]] = @ + 1]  BY <2>5 DEF Grant
        <4>2. \A t \in Traces : runs[t] > 0 => runs'[t] > 0  BY <4>1
        <4>3. /\ answer' = [answer EXCEPT ![h] = runs[trace[h]] + 1] /\ UNCHANGED <<redis, trace>>
              /\ pc' = [pc EXCEPT ![h] = "save"]
          BY <2>5 DEF Grant
        <4>4. \A k \in Handlers : pc'[k] = "save" => answer'[k] > Processing /\ runs'[trace'[k]] > 0
          BY <1>0, <4>1, <4>2, <4>3
        <4> QED  BY <1>0, <4>2, <4>3, <4>4
      <3>2. Held'
        <4>1. UNCHANGED <<redis, unsure, trace>> /\ pc[h] = "grant" /\ pc' = [pc EXCEPT ![h] = "save"]
          BY <2>5 DEF Grant
        <4> QED  BY <4>1, LocksStay DEF Serves
      <3> QED  BY <3>1, <3>2
    <2>6. CASE SaveResult(h)
      <3>1. Rest'  BY <1>0, <2>6 DEF SaveResult
      <3>2. redis'[trace[h]] # Processing
        BY <1>0, <2>6 DEF SaveResult
      <3>3. Held'  BY <1>0, <2>6, <3>2, LocksEnd DEF SaveResult, Serves
      <3> QED  BY <3>1, <3>3
    <2>7. CASE SaveResultFails(h)
      <3>1. Rest'  BY <1>0, <2>7 DEF SaveResultFails
      <3>2. Held'  BY <1>0, <2>7, LocksStay DEF SaveResultFails, Serves
      <3> QED  BY <3>1, <3>2
    <2>8. CASE Unlock(h)
      <3>1. Rest'  BY <1>0, <2>8 DEF Unlock
      <3>2. redis'[trace[h]] # Processing  BY <1>0, <2>8 DEF Unlock
      <3>3. Held'  BY <2>8, <3>2, LocksEnd DEF Unlock, Serves
      <3> QED  BY <3>1, <3>3
    <2>9. CASE UnlockFails(h)
      <3>1. Rest'  BY <1>0, <2>9 DEF UnlockFails
      <3>2. Held'  BY <2>9, LocksEnd DEF UnlockFails, Serves
      <3> QED  BY <3>1, <3>2
    <2> QED  BY <1>2, <2>1, <2>2, <2>3, <2>4, <2>5, <2>6, <2>7, <2>8, <2>9 DEF Handle
  <1>3. ASSUME NEW u \in Traces, Expire(u) PROVE Rest' /\ Held'
    <2>1. Rest'  BY <1>0, <1>3 DEF Expire
    <2>2. Held'  BY <1>3, LocksStay DEF Expire, Serves
    <2> QED  BY <2>1, <2>2
  <1>4. CASE UNCHANGED vars
    <2>1. Rest'  BY <1>0, <1>4 DEF vars
    <2>2. Held'  BY <1>4, LocksStay DEF vars, Serves
    <2> QED  BY <2>1, <2>2
  <1> QED  BY <1>1, <1>2, <1>3, <1>4 DEF Next

\* So it holds in every state.
LEMMA LocksHold == Spec => []LocksInv
  <1>1. Init => LocksInv  BY DEF Init, LocksInv, Absent, Processing
  <1> QED  BY TypeCorrect, LocksStep, <1>1, PTL DEF Spec

\* No way out of a handler leaves a lock behind, whatever is refused and whichever keys
\* expire, except where the SETNX or DEL of the key itself failed.
THEOREM LocksAreHeld == Spec => []LockHasHandler
  <1>1. LocksInv => LockHasHandler  BY DEF LocksInv, LockHasHandler
  <1> QED  BY LocksHold, <1>1, PTL

\* A request is refused, or answered from the key, only if its trace is with another
\* handler at the moment of the check or has been carried out before, unless a SETNX or
\* DEL of its key has failed.
THEOREM RefusedOnlyInProgress == Spec => RefusedRightly
  <1> DEFINE Right == \A h \in Handlers :
               pc[h] = "check" /\ pc'[h] = "get" /\ trace[h] \notin unsure' =>
                 runs[trace[h]] > 0 \/ \E k \in Handlers \ {h} : Serves(k, trace[h])
  <1>1. ASSUME TypeOK, LocksInv, [Next]_vars PROVE Right
    <2> SUFFICES ASSUME NEW h \in Handlers, pc[h] = "check", pc'[h] = "get", trace[h] \notin unsure'
                 PROVE  runs[trace[h]] > 0 \/ \E k \in Handlers \ {h} : Serves(k, trace[h])
      OBVIOUS
    <2>1. LockTaken(h)
      <3>1. ASSUME NEW k \in Handlers, Handle(k) PROVE LockTaken(h)
        <4>1. k = h
          <5>1. \E to : pc' = [pc EXCEPT ![k] = to]
            BY <3>1 DEF Handle, LetThrough, LockNew, LockTaken, LockUnanswered, Refuse, Replay, Spend,
               InsufficientFunds, DrawOnce, DrawThrows, Grant, SaveResult, SaveResultFails, Unlock,
               UnlockFails, Go
          <5> QED  BY <1>1, <5>1 DEF TypeOK
        <4>2. ~LockUnanswered(h)  BY DEF LockUnanswered
        <4> QED
          BY <1>1, <3>1, <4>1, <4>2 DEF Handle, LetThrough, LockNew, Refuse, Replay, Spend,
             InsufficientFunds, DrawOnce, DrawThrows, Grant, SaveResult, SaveResultFails, Unlock,
             UnlockFails, Go, TypeOK
      <3>2. ASSUME NEW k \in Handlers, NEW t \in Traces, Receive(k, t) PROVE FALSE
        BY <1>1, <3>2 DEF Receive, Go, TypeOK
      <3>3. ASSUME NEW t \in Traces, Expire(t) PROVE FALSE  BY <3>3 DEF Expire
      <3>4. CASE UNCHANGED vars  BY <3>4 DEF vars
      <3> QED  BY <1>1, <3>1, <3>2, <3>3, <3>4 DEF Next
    <2>2. trace[h] \in Traces /\ redis[trace[h]] # Absent /\ trace[h] \notin unsure
      BY <1>1, <2>1 DEF TypeOK, LockTaken, historyVars
    <2>3. CASE redis[trace[h]] = Processing
      <3>1. PICK k \in Handlers : Serves(k, trace[h])  BY <1>1, <2>2, <2>3 DEF LocksInv
      <3>2. k # h  BY <3>1 DEF Serves
      <3> QED  BY <3>1, <3>2
    <2>4. CASE redis[trace[h]] # Processing
      <3>1. redis[trace[h]] > Processing  BY <1>1, <2>2, <2>4 DEF TypeOK, Absent, Processing
      <3> QED  BY <1>1, <2>2, <3>1 DEF LocksInv
    <2> QED  BY <2>3, <2>4
  <1>2. TypeOK /\ LocksInv /\ [Next]_vars => [Right]_vars  BY <1>1
  <1> QED  BY TypeCorrect, LocksHold, <1>2, PTL DEF Spec, RefusedRightly

-----------------------------------------------------------------------------
(* Sums and lists that are built item by item *)

\* Induction over the natural numbers, for a set.
LEMMA Induction ==
  ASSUME NEW S, 0 \in S, \A n \in Nat : n \in S => n + 1 \in S
  PROVE  Nat \subseteq S
  <1> SUFFICES ASSUME Nat \ S # {} PROVE FALSE  OBVIOUS
  <1>1. PICK x \in Nat \ S : \A y \in Nat \ S : ~(<<y, x>> \in OpToRel(<, Nat))
    BY WFMin, NatLessThanWellFounded, Zenon
  <1>2. \A y \in Nat \ S : ~(y < x)
    BY <1>1 DEF OpToRel
  <1>3. x - 1 \in Nat /\ x - 1 \in S  BY <1>2
  <1> QED  BY <1>3

\* What is built from a start in n steps, each of which depends on what is there.
Steps(A, n) == [(1 .. n) \X A -> A]
CanBuild(A, start, n, step) ==
  \E f \in [0 .. n -> A] : f[0] = start /\ \A i \in 1 .. n : f[i] = step[<<i, f[i - 1]>>]

\* It can be built.
LEMMA Recursion ==
  ASSUME NEW A, NEW start \in A, NEW n \in Nat, NEW step \in Steps(A, n)
  PROVE  CanBuild(A, start, n, step)
  <1> USE DEF Steps, CanBuild
  <1> DEFINE Built(f, k) == f[0] = start /\ \A i \in 1 .. k : f[i] = step[<<i, f[i - 1]>>]
             S == {k \in Nat : k <= n => \E f \in [0 .. k -> A] : Built(f, k)}
  <1>1. 0 \in S
    <2>1. [i \in 0 .. 0 |-> start] \in [0 .. 0 -> A] /\ Built([i \in 0 .. 0 |-> start], 0)
      OBVIOUS
    <2> QED  BY <2>1
  <1>2. ASSUME NEW k \in Nat, k \in S PROVE k + 1 \in S
    <2> SUFFICES ASSUME k + 1 <= n PROVE \E f \in [0 .. k + 1 -> A] : Built(f, k + 1)  OBVIOUS
    <2>1. PICK f \in [0 .. k -> A] : Built(f, k)  BY <1>2
    <2> DEFINE last == step[<<k + 1, f[k]>>]
               g == [i \in 0 .. k + 1 |-> IF i = k + 1 THEN last ELSE f[i]]
    <2>2. last \in A
      <3>1. <<k + 1, f[k]>> \in (1 .. n) \X A  OBVIOUS
      <3> QED  BY <3>1
    <2>3. g \in [0 .. k + 1 -> A]
      <3> HIDE DEF last
      <3> QED  BY <2>2
    <2>4. g[k + 1] = last /\ \A i \in 0 .. k : g[i] = f[i]  OBVIOUS
    <2>5. Built(g, k + 1)
      <3> HIDE DEF g
      <3>1. g[0] = start  BY <2>1, <2>4
      <3>2. ASSUME NEW i \in 1 .. k + 1 PROVE g[i] = step[<<i, g[i - 1]>>]
        <4>1. CASE i = k + 1
          <5>1. g[i - 1] = f[k]  BY <2>4, <4>1
          <5> QED  BY <2>4, <4>1, <5>1
        <4>2. CASE i \in 1 .. k
          <5>1. g[i] = f[i] /\ g[i - 1] = f[i - 1]  BY <2>4, <4>2
          <5> QED  BY <2>1, <4>2, <5>1
        <4> QED  BY <4>1, <4>2
      <3> QED  BY <3>1, <3>2
    <2> HIDE DEF g, Built
    <2> QED  BY <2>3, <2>5
  <1>3. Nat \subseteq S
    <2> HIDE DEF S
    <2> QED  BY <1>1, <1>2, Induction
  <1> QED  BY <1>3

\* The sums of the weights: each is the one before and the weight at its place.
LEMMA CumulativeFacts ==
  ASSUME NEW weights \in Seq(Nat)
  PROVE  /\ Len(weights) \in Nat /\ \A i \in 1 .. Len(weights) : weights[i] \in Nat
         /\ Cumulative(weights)[0] = 0
         /\ \A i \in 1 .. Len(weights) :
              Cumulative(weights)[i] = Cumulative(weights)[i - 1] + weights[i]
         /\ \A i \in 0 .. Len(weights) : Cumulative(weights)[i] \in Nat
  <1> DEFINE N == Len(weights)
             Rec(f) == f = [i \in 0 .. N |-> IF i = 0 THEN 0 ELSE f[i - 1] + weights[i]]
             step == [p \in (1 .. N) \X Nat |-> p[2] + weights[p[1]]]
  <1>1. N \in Nat /\ \A i \in 1 .. N : weights[i] \in Nat  OBVIOUS
  <1>2. step \in [(1 .. N) \X Nat -> Nat]  BY <1>1
  <1>3. \A i \in 1 .. N, s \in Nat : step[<<i, s>>] = s + weights[i]  OBVIOUS
  <1>4. \E f : Rec(f)
    <2>1. PICK f \in [0 .. N -> Nat] : f[0] = 0 /\ \A i \in 1 .. N : f[i] = step[<<i, f[i - 1]>>]
      <3>1. 0 \in Nat /\ step \in Steps(Nat, N)  BY <1>2 DEF Steps
      <3>2. CanBuild(Nat, 0, N, step)
        <4> HIDE DEF N, step
        <4> QED  BY <1>1, <3>1, Recursion
      <3> HIDE DEF N, step
      <3> QED  BY <3>2 DEF CanBuild
    <2>2. \A i \in 1 .. N : f[i] = f[i - 1] + weights[i]
      <3> HIDE DEF N, step
      <3> TAKE i \in 1 .. N
      <3>1. i - 1 \in 0 .. N  BY <1>1
      <3>2. f[i - 1] \in Nat  BY <3>1
      <3> QED  BY <1>3, <2>1, <3>2
    <2>3. f = [i \in 0 .. N |-> f[i]]  OBVIOUS
    <2>4. \A i \in 0 .. N : f[i] = IF i = 0 THEN 0 ELSE f[i - 1] + weights[i]
      <3> HIDE DEF N
      <3> QED  BY <1>1, <2>1, <2>2
    <2>5. Rec(f)  BY <2>3, <2>4
    <2> QED  BY <2>5
  <1>5. Cumulative(weights) = CHOOSE f : Rec(f)  BY DEF Cumulative
  <1>6. Rec(Cumulative(weights))
    <2> HIDE DEF Rec
    <2> QED  BY <1>4, <1>5, Zenon
  <1>7. ASSUME NEW f, NEW h, f = [i \in 0 .. N |-> IF i = 0 THEN 0 ELSE h[i - 1] + weights[i]]
        PROVE  f[0] = 0 /\ \A i \in 1 .. N : f[i] = h[i - 1] + weights[i]
    BY <1>1, <1>7
  <1>8. /\ Cumulative(weights)[0] = 0
        /\ \A i \in 1 .. N : Cumulative(weights)[i] = Cumulative(weights)[i - 1] + weights[i]
    BY <1>6, <1>7
  <1> DEFINE c == Cumulative(weights)
             S == {i \in Nat : i <= N => c[i] \in Nat}
  <1>9. 0 \in S  BY <1>8
  <1>10. ASSUME NEW i \in Nat, i \in S PROVE i + 1 \in S
    <2> HIDE DEF c, N
    <2> SUFFICES ASSUME i + 1 <= N PROVE c[i + 1] \in Nat  OBVIOUS
    <2>1. i + 1 \in 1 .. N /\ (i + 1) - 1 = i  BY <1>1
    <2>2. c[i + 1] = c[i] + weights[i + 1]  BY <1>8, <2>1 DEF c, N
    <2>3. c[i] \in Nat  BY <1>1, <1>10
    <2>4. weights[i + 1] \in Nat  BY <1>1, <2>1
    <2> QED  BY <2>2, <2>3, <2>4
  <1>11. Nat \subseteq S
    <2> HIDE DEF S
    <2> QED  BY <1>9, <1>10, Induction
  <1> QED  BY <1>1, <1>8, <1>11

\* The sums grow from item to item.
LEMMA CumulativeGrows ==
  ASSUME NEW weights \in Seq(Nat), NEW i \in 0 .. Len(weights), NEW j \in i .. Len(weights)
  PROVE  Cumulative(weights)[i] <= Cumulative(weights)[j]
  <1> DEFINE c == Cumulative(weights)
             N == Len(weights)
             S == {k \in Nat : i + k <= N => c[i] <= c[i + k]}
  <1>1. /\ N \in Nat /\ \A k \in 1 .. N : weights[k] \in Nat /\ c[k] = c[k - 1] + weights[k]
        /\ \A k \in 0 .. N : c[k] \in Nat
    BY CumulativeFacts
  <1> HIDE DEF c, N
  <1>2. 0 \in S  BY <1>1 DEF N
  <1>3. ASSUME NEW k \in Nat, k \in S PROVE k + 1 \in S
    <2> SUFFICES ASSUME i + (k + 1) <= N PROVE c[i] <= c[i + (k + 1)]  OBVIOUS
    <2>1. i + k \in 0 .. N /\ i + (k + 1) \in 1 .. N /\ (i + (k + 1)) - 1 = i + k  BY <1>1 DEF N
    <2>2. c[i + (k + 1)] = c[i + k] + weights[i + (k + 1)]  BY <1>1, <2>1
    <2>3. c[i] <= c[i + k]  BY <1>1, <1>3, <2>1
    <2>4. c[i] \in Nat /\ c[i + k] \in Nat /\ weights[i + (k + 1)] \in Nat  BY <1>1, <2>1 DEF N
    <2> QED  BY <2>2, <2>3, <2>4
  <1>4. Nat \subseteq S
    <2> HIDE DEF S
    <2> QED  BY <1>2, <1>3, Induction
  <1>5. j - i \in Nat /\ i + (j - i) = j /\ j <= N  BY <1>1 DEF N
  <1> QED  BY <1>4, <1>5 DEF c, N

\* A random number belongs to the one item at which the sum reaches it.
LEMMA DrawIs ==
  ASSUME NEW weights \in Seq(Nat), NEW n \in 1 .. Total(weights), NEW i \in 1 .. Len(weights)
  PROVE  DrawByRarity(weights, n) = i
           <=> Cumulative(weights)[i - 1] < n /\ n <= Cumulative(weights)[i]
  <1> DEFINE c == Cumulative(weights)
             N == Len(weights)
             reached == {k \in 1 .. N : n <= c[k]}
             First(k) == k \in reached /\ \A j \in reached : k <= j
  <1>1. /\ N \in Nat /\ \A k \in 0 .. N : c[k] \in Nat
        /\ c[0] = 0 /\ \A j \in 0 .. N : \A k \in j .. N : c[j] <= c[k]
    BY CumulativeFacts, CumulativeGrows
  <1>2. N \in reached /\ n \in Nat /\ n > 0
    BY <1>1 DEF Total
  <1>3. \E k \in reached : \A j \in reached : k <= j
    <2> SUFFICES ASSUME \A k \in reached : \E j \in reached : ~(k <= j) PROVE FALSE  OBVIOUS
    <2> DEFINE U == {k \in Nat : \A j \in 0 .. k : j \notin reached}
    <2> HIDE DEF c, N
    <2>1. 0 \in U  BY <1>1
    <2>2. ASSUME NEW k \in Nat, k \in U PROVE k + 1 \in U
      <3>1. k + 1 \notin reached  BY <1>1, <2>2
      <3>2. \A j \in 0 .. k + 1 : j \in 0 .. k \/ j = k + 1  OBVIOUS
      <3> HIDE DEF reached
      <3> QED  BY <2>2, <3>1, <3>2
    <2>3. Nat \subseteq U
      <3> HIDE DEF U
      <3> QED  BY <2>1, <2>2, Induction
    <2>4. N \in U
      <3> HIDE DEF U
      <3> QED  BY <1>1, <2>3
    <2>5. N \in 0 .. N  BY <1>1
    <2> QED  BY <1>2, <2>4, <2>5
  <1>4. DrawByRarity(weights, n) = CHOOSE k \in reached : \A j \in reached : k <= j
    BY <1>2 DEF DrawByRarity
  <1>5. First(DrawByRarity(weights, n))
    <2> HIDE DEF reached
    <2> QED  BY <1>3, <1>4
  <1>6. First(i) <=> c[i - 1] < n /\ n <= c[i]
    <2> HIDE DEF c, N
    <2>1. i \in 1 .. N /\ i - 1 \in 0 .. N  BY <1>1 DEF N
    <2>2. ASSUME First(i) PROVE c[i - 1] < n /\ n <= c[i]
      <3>1. CASE i - 1 = 0  BY <1>1, <1>2, <2>2, <3>1
      <3>2. CASE i - 1 \in 1 .. N  BY <1>1, <1>2, <2>1, <2>2, <3>2
      <3> QED  BY <1>1, <2>1, <3>1, <3>2
    <2>3. ASSUME c[i - 1] < n, n <= c[i] PROVE First(i)
      <3>1. i \in reached  BY <2>1, <2>3
      <3>2. ASSUME NEW j \in reached PROVE i <= j
        <4> SUFFICES ASSUME j < i PROVE FALSE  BY <1>1, <2>1
        <4>1. j \in 0 .. N /\ i - 1 \in j .. N  BY <1>1, <2>1
        <4>2. c[j] <= c[i - 1] /\ c[j] \in Nat /\ c[i - 1] \in Nat  BY <1>1, <4>1, <2>1
        <4> QED  BY <1>2, <2>3, <4>2
      <3> QED  BY <3>1, <3>2
    <2> QED  BY <2>2, <2>3
  <1>7. ASSUME First(i) PROVE DrawByRarity(weights, n) = i
    <2> HIDE DEF c, N
    <2>1. \A k : First(k) => k \in Int  BY <1>1
    <2> QED  BY <1>5, <1>7, <2>1
  <1> QED  BY <1>5, <1>6, <1>7

-----------------------------------------------------------------------------
(* Every item gets its share *)

\* A list makes a list of weights of each rarity.
LEMMA OwnItemsType ==
  ASSUME NEW W, NEW list \in Seq([rarity : Int, weight : W]), NEW r \in Rarities
  PROVE  OwnItems(list, r) \in Seq(W)
  <1> DEFINE N == Len(list)
             Rec(f) == f = [i \in 0 .. N |-> IF i = 0 THEN << >>
               ELSE IF list[i].rarity = r THEN Append(f[i - 1], list[i].weight) ELSE f[i - 1]]
             step == [p \in (1 .. N) \X Seq(W) |->
               IF list[p[1]].rarity = r THEN Append(p[2], list[p[1]].weight) ELSE p[2]]
  <1>1. N \in Nat /\ \A i \in 1 .. N : list[i].weight \in W
    <2> DEFINE I == [rarity : Int, weight : W]
    <2>1. list \in Seq(I)  OBVIOUS
    <2>2. N \in Nat /\ \A i \in 1 .. N : list[i] \in I
      <3> HIDE DEF I
      <3> QED  BY <2>1
    <2>3. \A x \in I : x.weight \in W  OBVIOUS
    <2> HIDE DEF I, N
    <2> QED  BY <2>2, <2>3
  <1>2. step \in [(1 .. N) \X Seq(W) -> Seq(W)]
    <2> SUFFICES ASSUME NEW i \in 1 .. N, NEW q \in Seq(W)
                 PROVE  (IF list[i].rarity = r THEN Append(q, list[i].weight) ELSE q) \in Seq(W)
      OBVIOUS
    <2> QED  BY <1>1
  <1>3. \A i \in 1 .. N, q \in Seq(W) :
          step[<<i, q>>] = IF list[i].rarity = r THEN Append(q, list[i].weight) ELSE q
    OBVIOUS
  <1>4. << >> \in Seq(W)  OBVIOUS
  <1>5. \E f : Rec(f)
    <2>1. PICK f \in [0 .. N -> Seq(W)] :
            f[0] = << >> /\ \A i \in 1 .. N : f[i] = step[<<i, f[i - 1]>>]
      <3>1. step \in Steps(Seq(W), N)  BY <1>2 DEF Steps
      <3>2. CanBuild(Seq(W), << >>, N, step)
        <4> HIDE DEF N, step
        <4> QED  BY <1>1, <1>4, <3>1, Recursion
      <3> HIDE DEF N, step
      <3> QED  BY <3>2 DEF CanBuild
    <2>2. \A i \in 1 .. N :
            f[i] = IF list[i].rarity = r THEN Append(f[i - 1], list[i].weight) ELSE f[i - 1]
      <3> HIDE DEF N, step
      <3> TAKE i \in 1 .. N
      <3>1. i - 1 \in 0 .. N  BY <1>1
      <3>2. f[i - 1] \in Seq(W)  BY <3>1
      <3> QED  BY <1>3, <2>1, <3>2
    <2>3. f = [i \in 0 .. N |-> f[i]]  OBVIOUS
    <2>4. \A i \in 0 .. N : f[i] = IF i = 0 THEN << >>
            ELSE IF list[i].rarity = r THEN Append(f[i - 1], list[i].weight) ELSE f[i - 1]
      <3> HIDE DEF N
      <3> TAKE i \in 0 .. N
      <3>1. CASE i = 0  BY <2>1, <3>1
      <3>2. CASE i # 0
        <4>1. i \in 1 .. N  BY <1>1, <3>2
        <4> QED  BY <2>2, <3>2, <4>1, Zenon
      <3> QED  BY <3>1, <3>2
    <2>5. Rec(f)  BY <2>3, <2>4
    <2> QED  BY <2>5
  <1> DEFINE own == CHOOSE f : Rec(f)
  <1>6. OwnItems(list, r) = own[N]  BY DEF OwnItems
  <1>7. Rec(own)
    <2> HIDE DEF Rec
    <2> QED  BY <1>5, Zenon
  <1> HIDE DEF own
  <1>8. /\ own[0] = << >>
        /\ \A i \in 1 .. N : own[i] =
             IF list[i].rarity = r THEN Append(own[i - 1], list[i].weight) ELSE own[i - 1]
    <2> DEFINE next(i) ==
          IF list[i].rarity = r THEN Append(own[i - 1], list[i].weight) ELSE own[i - 1]
    <2>1. own = [i \in 0 .. N |-> IF i = 0 THEN << >> ELSE next(i)]  BY <1>7
    <2>2. own[0] = << >> /\ \A i \in 1 .. N : own[i] = next(i)
      <3> HIDE DEF N, next
      <3> QED  BY <1>1, <2>1
    <2> QED  BY <2>2
  <1> DEFINE S == {i \in Nat : i <= N => own[i] \in Seq(W)}
  <1>9. 0 \in S  BY <1>4, <1>8
  <1>10. ASSUME NEW i \in Nat, i \in S PROVE i + 1 \in S
    <2> HIDE DEF N
    <2> SUFFICES ASSUME i + 1 <= N PROVE own[i + 1] \in Seq(W)  OBVIOUS
    <2>1. i + 1 \in 1 .. N /\ (i + 1) - 1 = i  BY <1>1
    <2>2. own[i] \in Seq(W)  BY <1>1, <1>10
    <2>3. list[i + 1].weight \in W  BY <1>1, <2>1
    <2>4. own[i + 1] = IF list[i + 1].rarity = r THEN Append(own[i], list[i + 1].weight) ELSE own[i]
      BY <1>8, <2>1
    <2>5. Append(own[i], list[i + 1].weight) \in Seq(W)  BY <2>2, <2>3
    <2> QED  BY <2>2, <2>4, <2>5
  <1>11. Nat \subseteq S
    <2> HIDE DEF S
    <2> QED  BY <1>9, <1>10, Induction
  <1> QED  BY <1>1, <1>6, <1>11

\* The weights of the groups are above 0.
LEMMA GroupItemsType ==
  ASSUME NEW entry, IsEntry(entry), NEW r \in Rarities
  PROVE  GroupItems(entry, r) \in Seq(Nat \ {0})
  <1>1. ASSUME NEW group \in {entry.all, entry.up, entry.standard}, NEW w \in Nat \ {0}
        PROVE  Weights(group, r, w) \in Seq(Nat \ {0})
    <2>1. CASE group = NoKey  BY <2>1 DEF Weights
    <2>2. CASE group # NoKey
      <3>1. group[r] \in Nat  BY <2>2 DEF IsEntry, Group
      <3> QED  BY <2>2, <3>1 DEF Weights
    <2> QED  BY <2>1, <2>2
  <1>2. ASSUME NEW p \in Seq(Nat \ {0}), NEW q \in Seq(Nat \ {0}) PROVE p \o q \in Seq(Nat \ {0})
    OBVIOUS
  <1> DEFINE up == IF r = 3 THEN << >> ELSE Weights(entry.up, r, IF r = 5 THEN 800 ELSE 700)
             w == CASE r = 5 -> 200 [] r = 4 -> 300 [] r = 3 -> 100
             standard == Weights(entry.standard, r, w)
             all == Weights(entry.all, r, 100)
  <1>3. all \in Seq(Nat \ {0})  BY <1>1
  <1>4. up \in Seq(Nat \ {0})
    <2>1. Weights(entry.up, r, IF r = 5 THEN 800 ELSE 700) \in Seq(Nat \ {0})  BY <1>1
    <2> QED  BY <2>1
  <1>5. standard \in Seq(Nat \ {0})
    <2>1. w \in Nat \ {0}  BY DEF Rarities
    <2> HIDE DEF w
    <2> QED  BY <1>1, <2>1
  <1>6. GroupItems(entry, r) = all \o up \o standard  BY DEF GroupItems
  <1> HIDE DEF all, up, standard
  <1> QED  BY <1>2, <1>3, <1>4, <1>5, <1>6

\* The pools in use are those of the file.
LoadedInv == file \in Files /\ pools = LoadConfig(file)

LEMMA PoolsStay == Spec => []LoadedInv
  <1>1. Init => LoadedInv  BY DEF Init, LoadedInv
  <1>2. LoadedInv /\ [Next]_vars => LoadedInv'
    BY DEF LoadedInv, Next, Handle, vars, poolVars, Receive, LetThrough, LockNew, LockTaken,
       LockUnanswered, Refuse, Replay, Spend, InsufficientFunds, DrawOnce, DrawThrows, Grant,
       SaveResult, SaveResultFails, Unlock, UnlockFails, Expire
  <1> QED  BY <1>1, <1>2, PTL DEF Spec

\* Each pool is made of one entry, the last with its id that has items.
LEMMA PoolIsOfEntry ==
  ASSUME LoadedInv
  PROVE  /\ Len(file) \in Nat
         /\ \A i \in Entries(file) :
              /\ i \in 1 .. Len(file) /\ IsEntry(file[i])
              /\ file[i].id \in DOMAIN pools /\ pools[file[i].id] = PoolOf(file[i])
         /\ \A id \in DOMAIN pools : \E i \in Entries(file) : file[i].id = id
  <1>1. Len(file) \in Nat /\ \A i \in 1 .. Len(file) : IsEntry(file[i])
    BY FilesAssumption DEF LoadedInv
  <1>2. \A i \in Entries(file) : i \in 1 .. Len(file)  BY DEF Entries
  <1>3. ASSUME NEW i \in Entries(file), NEW j \in Entries(file), file[i].id = file[j].id
        PROVE  i = j
    <2>1. ASSUME NEW k \in Entries(file), NEW m \in Entries(file), file[k].id = file[m].id, k < m
          PROVE  FALSE
      <3>1. k \in 1 .. Len(file) /\ m \in k + 1 .. Len(file)  BY <1>1, <1>2, <2>1
      <3>2. Empty(file[m]) /\ ~Empty(file[m])  BY <2>1, <3>1 DEF Entries
      <3> QED  BY <3>2
    <2>2. ~(i < j) /\ ~(j < i)  BY <1>3, <2>1
    <2> QED  BY <1>1, <1>2, <2>2
  <1>4. pools = LoadConfig(file)  BY DEF LoadedInv
  <1>5. DOMAIN pools = {file[i].id : i \in Entries(file)}  BY <1>4 DEF LoadConfig
  <1>6. ASSUME NEW i \in Entries(file)
        PROVE  pools[file[i].id] = PoolOf(file[i])
    <2> DEFINE k == CHOOSE k \in Entries(file) : file[k].id = file[i].id
    <2>1. k \in Entries(file) /\ file[k].id = file[i].id  OBVIOUS
    <2>2. pools[file[i].id] = PoolOf(file[k])  BY <1>4 DEF LoadConfig
    <2> HIDE DEF k
    <2>3. k = i  BY <1>3, <2>1
    <2> QED  BY <2>2, <2>3
  <1> QED  BY <1>1, <1>2, <1>5, <1>6

\* No list of the file has an item with a negative weight.
NaturalWeights ==
  \A f \in Files : \A i \in 1 .. Len(f) :
    f[i].items = NoKey \/ f[i].items \in Seq([rarity : Int, weight : Nat])

\* The items of a pool have the weights of the file, or those of the groups.
LEMMA PoolType ==
  ASSUME NaturalWeights, LoadedInv, NEW id \in DOMAIN pools, NEW r \in Rarities
  PROVE  pools[id][r] \in Seq(Nat)
  <1>1. PICK i \in Entries(file) : file[i].id = id  BY PoolIsOfEntry
  <1>2. /\ i \in 1 .. Len(file) /\ IsEntry(file[i]) /\ pools[id] = PoolOf(file[i])
        /\ file \in Files
    BY <1>1, PoolIsOfEntry DEF LoadedInv
  <1> DEFINE e == file[i]
  <1>3. e.items = NoKey \/ e.items \in Seq([rarity : Int, weight : Nat])
    BY <1>2 DEF NaturalWeights
  <1>4. CASE e.items # NoKey
    <2>1. pools[id][r] = OwnItems(e.items, r)  BY <1>2, <1>4 DEF PoolOf
    <2> HIDE DEF e
    <2> QED  BY <1>3, <1>4, <2>1, OwnItemsType
  <1>5. CASE e.items = NoKey
    <2>1. GroupItems(e, r) \in Seq(Nat \ {0})  BY <1>2, GroupItemsType
    <2>2. GroupItems(e, r) \in Seq(Nat)  BY <2>1
    <2>3. [k \in 1 .. DefaultThreeStars |-> 100] \in Seq(Nat)  BY DEF DefaultThreeStars
    <2>4. \/ pools[id][r] = GroupItems(e, r)
          \/ pools[id][r] = [k \in 1 .. DefaultThreeStars |-> 100]
      BY <1>2, <1>5 DEF PoolOf
    <2> HIDE DEF e
    <2> QED  BY <2>2, <2>3, <2>4
  <1> QED  BY <1>4, <1>5

\* The random numbers between two sums, and how many there are.
Between(low, w, total) == {n \in 1 .. total : low < n /\ n <= low + w}

LEMMA NumbersBetween ==
  ASSUME NEW low \in Nat, NEW w \in Nat, NEW total \in Nat, low + w <= total
  PROVE  Cardinality(Between(low, w, total)) = w
  <1>1. Between(low, w, total) = low + 1 .. low + w  BY DEF Between
  <1> DEFINE a == low + 1
             b == low + w
  <1>2. Cardinality(a .. b) = IF a > b THEN 0 ELSE b - a + 1
    <2>1. a \in Int /\ b \in Int  OBVIOUS
    <2> HIDE DEF a, b
    <2> QED  BY <2>1, FS_Interval
  <1>3. (IF a > b THEN 0 ELSE b - a + 1) = w  OBVIOUS
  <1> QED  BY <1>1, <1>2, <1>3

\* Each item of weights is drawn for as many numbers as its weight says.
LEMMA ShareIsWeight ==
  ASSUME NEW weights \in Seq(Nat), NEW i \in 1 .. Len(weights)
  PROVE  Cardinality({n \in 1 .. Total(weights) : DrawByRarity(weights, n) = i}) = weights[i]
  <1> DEFINE low == Cumulative(weights)[i - 1]
             high == Cumulative(weights)[i]
             total == Total(weights)
  <1>1. /\ i - 1 \in 0 .. Len(weights) /\ i \in 0 .. Len(weights)
        /\ Len(weights) \in i .. Len(weights)
    BY CumulativeFacts
  <1>2. /\ low \in Nat /\ high \in Nat /\ high = low + weights[i] /\ weights[i] \in Nat
        /\ high <= total /\ total \in Nat
    BY <1>1, CumulativeFacts, CumulativeGrows DEF Total
  <1>3. {n \in 1 .. Total(weights) : DrawByRarity(weights, n) = i}
          = {n \in 1 .. Total(weights) : low < n /\ n <= high}
    BY DrawIs
  <1>4. {n \in 1 .. Total(weights) : DrawByRarity(weights, n) = i}
          = Between(low, weights[i], total)
    BY <1>2, <1>3 DEF Between
  <1> HIDE DEF low, high, total
  <1>5. low + weights[i] <= total  BY <1>2
  <1> QED  BY <1>2, <1>4, <1>5, NumbersBetween

\* Whatever pools the file has, if no weight is negative, each item of a pool is
\* drawn for as many of the random numbers as its weight says: WeightIsShare.
THEOREM WeightsAreShares == ASSUME NaturalWeights PROVE Spec => []WeightIsShare
  <1>1. LoadedInv => WeightIsShare
    BY PoolType, ShareIsWeight DEF WeightIsShare
  <1> QED  BY <1>1, PoolsStay, PTL

-----------------------------------------------------------------------------
(* Grouped pools serve every draw *)

\* A grouped entry has three-stars, and its items have weights above 0.
LEMMA GroupedServes ==
  ASSUME NEW entry, IsEntry(entry), Grouped(entry)
  PROVE  /\ HasRarity(PoolOf(entry), 3)
         /\ \A r \in Rarities : PoolOf(entry)[r] \in Seq(Nat \ {0})
  <1>1. entry.items = NoKey  BY DEF Grouped
  <1>2. [k \in 1 .. DefaultThreeStars |-> 100] \in Seq(Nat \ {0})
          /\ [k \in 1 .. DefaultThreeStars |-> 100] # << >>
    BY DEF DefaultThreeStars
  <1>3. ASSUME NEW r \in Rarities PROVE PoolOf(entry)[r] \in Seq(Nat \ {0})
    <2>1. GroupItems(entry, r) \in Seq(Nat \ {0})  BY GroupItemsType
    <2>2. \/ PoolOf(entry)[r] = GroupItems(entry, r)
          \/ PoolOf(entry)[r] = [k \in 1 .. DefaultThreeStars |-> 100]
      BY <1>1 DEF PoolOf
    <2> QED  BY <1>2, <2>1, <2>2
  <1>4. HasRarity(PoolOf(entry), 3)
    <2>1. PoolOf(entry)[3] = IF GroupItems(entry, 3) = << >>
                             THEN [k \in 1 .. DefaultThreeStars |-> 100] ELSE GroupItems(entry, 3)
      BY <1>1 DEF PoolOf, Rarities
    <2> QED  BY <1>2, <2>1 DEF HasRarity
  <1> QED  BY <1>3, <1>4

\* Weights above 0 add up to more than 0.
LEMMA TotalIsPositive ==
  ASSUME NEW weights \in Seq(Nat \ {0}), weights # << >>
  PROVE  Total(weights) > 0
  <1>1. weights \in Seq(Nat) /\ Len(weights) \in Nat /\ Len(weights) # 0
    OBVIOUS
  <1>2. weights[1] \in Nat \ {0} /\ 1 \in 1 .. Len(weights)  BY <1>1
  <1>3. Cumulative(weights)[1] = Cumulative(weights)[0] + weights[1] /\ Cumulative(weights)[0] = 0
    BY <1>1, <1>2, CumulativeFacts
  <1>4. Cumulative(weights)[1] <= Cumulative(weights)[Len(weights)]
          /\ Cumulative(weights)[Len(weights)] \in Nat
    BY <1>1, <1>2, CumulativeFacts, CumulativeGrows
  <1> QED  BY <1>2, <1>3, <1>4 DEF Total

\* Every rarity that can be rolled has an item at or below it.
LEMMA SomethingIsDrawn ==
  ASSUME NEW h \in Handlers, NEW r \in Rarities, HasRarity(Pool(h), 3),
         \A s \in Rarities : Pool(h)[s] \in Seq(Nat \ {0})
  PROVE  Drawn(h, r) # {}
  <1>1. \A s \in Rarities : s \in {3, 4, 5}  BY DEF Rarities
  <1>2. \E s \in Fallback(h, r) : TRUE
    <2>1. CASE HasRarity(Pool(h), r)  BY <2>1 DEF Fallback, Rarities
    <2>2. CASE ~HasRarity(Pool(h), r) /\ r = 4
      <3>1. 3 \in Fallback(h, r)
        <4>1. \A q \in 3 + 1 .. r : q = r  BY <2>2
        <4> QED  BY <2>2, <4>1 DEF Fallback, Rarities
      <3> QED  BY <3>1
    <2>3. CASE ~HasRarity(Pool(h), r) /\ r = 5 /\ HasRarity(Pool(h), 4)
      <3>1. 4 \in Fallback(h, r)
        <4>1. \A q \in 4 + 1 .. r : q = r  BY <2>3
        <4> QED  BY <2>3, <4>1 DEF Fallback, Rarities
      <3> QED  BY <3>1
    <2>4. CASE ~HasRarity(Pool(h), r) /\ r = 5 /\ ~HasRarity(Pool(h), 4)
      <3>1. 3 \in Fallback(h, r)
        <4>1. \A q \in 3 + 1 .. r : q = r \/ q = 4  BY <2>4
        <4> QED  BY <2>4, <4>1 DEF Fallback, Rarities
      <3> QED  BY <3>1
    <2> QED  BY <1>1, <2>1, <2>2, <2>3, <2>4
  <1>3. PICK s \in Fallback(h, r) : TRUE  BY <1>2
  <1>4. s \in Rarities /\ Pool(h)[s] # << >> /\ Pool(h)[s] \in Seq(Nat \ {0})
    BY <1>3 DEF Fallback, HasRarity
  <1>5. Total(Pool(h)[s]) > 0  BY <1>4, TotalIsPositive
  <1> QED  BY <1>3, <1>5 DEF Drawn

\* A pool in the grouped form refuses no draw, be it asked for by its id or taken for a
\* missing one, whatever its groups list and whatever the file has besides.
THEOREM GroupedPoolsServe == Spec => PoolServes
  <1> DEFINE Serves_(h) == pc[h] = "draw" /\ pc'[h] = "unlock" =>
        ~\E i \in Entries(file) : Grouped(file[i]) /\ Pool(h) = pools[file[i].id]
  <1>1. ASSUME TypeOK, LoadedInv, [Next]_vars PROVE [\A h \in Handlers : Serves_(h)]_vars
    <2> SUFFICES ASSUME NEW h \in Handlers, pc[h] = "draw", pc'[h] = "unlock",
                        NEW i \in Entries(file), Grouped(file[i]), Pool(h) = pools[file[i].id]
                 PROVE  FALSE
      OBVIOUS
    <2>1. \E r \in Rarities : Drawn(h, r) = {}
      <3>1. PICK k \in Handlers : DrawThrows(k) /\ k = h
        BY <1>1 DEF TypeOK, Go, Next, Handle, vars, Receive, LetThrough, LockNew, LockTaken,
           LockUnanswered, Refuse, Replay, Spend, InsufficientFunds, DrawOnce, DrawThrows, Grant,
           SaveResult, SaveResultFails, Unlock, UnlockFails, Expire
      <3>2. \E r \in RollRarity(pity[h]) : Drawn(h, r) = {}  BY <3>1 DEF DrawThrows
      <3>3. RollRarity(pity[h]) \subseteq Rarities  BY DEF RollRarity, Rarities
      <3> QED  BY <3>2, <3>3
    <2>2. /\ HasRarity(Pool(h), 3)
          /\ \A s \in Rarities : Pool(h)[s] \in Seq(Nat \ {0})
      BY <1>1, PoolIsOfEntry, GroupedServes
    <2> QED  BY <2>1, <2>2, SomethingIsDrawn
  <1> QED  BY TypeCorrect, PoolsStay, <1>1, PTL DEF Spec, PoolServes
=============================================================================
