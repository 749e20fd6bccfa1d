------------------------------ MODULE GachaDraw ------------------------------
(* A draw request from the idempotency check to the answer: GachaService,      *)
(* IdempotencyService over Redis, GachaSystem, PitySystem and GachaHistory.    *)
(* A handler runs on its player's actor, one request at a time; after a second *)
(* login two actors may serve the same player, each with its own Player        *)
(* object, and share only the Redis keys.  A client repeats a request under    *)
(* the trace id of the first one.                                              *)
EXTENDS GachaPools, FiniteSets

CONSTANTS Handlers,     \* the actors that serve this player
          Traces,       \* client_trace_id values
          NoTrace,      \* the empty trace id, a member of Traces or not
          Draws,        \* for each trace, the draws it asks for (1 or 10)
          PoolId,       \* ... and the pool it asks for
          Files,        \* what gacha_pool.yaml may hold
          SoftPity,     \* 75: from here on no 4 is rolled any more
          HardPity,     \* 89: from here on every roll is a 5
          Money,        \* a player's money at the start, in draws
          MaxRequests,  \* bound: requests in a run
          MaxFaults,    \* bound: Redis calls that fail
          MayExpire     \* do Redis keys reach their time to live?

ASSUME GachaAssumption ==
  /\ Traces # {} /\ Draws \in [Traces -> Nat \ {0}] /\ PoolId \in [Traces -> Nat]
  /\ {SoftPity, HardPity, Money, MaxRequests, MaxFaults} \subseteq Nat
  /\ SoftPity <= HardPity /\ MayExpire \in BOOLEAN

ASSUME FilesAssumption ==
  \A f \in Files : Len(f) \in Nat /\ \A i \in 1 .. Len(f) : IsEntry(f[i])

Absent == -1       \* no Redis key
Processing == 0    \* the value "P"; k > 0 is the answer of the trace's k-th run

VARIABLES file, pools, first,           \* the file read at the start, its pools, the first of them
          money, items, pity, records,  \* each Player object
          pc, trace, got, answer,       \* each handler: where it is, its request, draws made,
                                        \* the run it has answered and is to store
          redis,                        \* the key of each trace
          requests, faults,             \* requests and faults so far
          runs, sent,                   \* history: draws granted and answers sent per trace
          unsure, expired               \* history: traces of a SETNX or DEL that failed, traces
                                        \* whose key has expired

poolVars == <<file, pools, first>>
playerVars == <<money, items, pity, records>>
historyVars == <<runs, sent, unsure, expired>>
requestVars == <<trace, got, answer>>
vars == <<poolVars, playerVars, historyVars, pc, requestVars, redis, requests, faults>>

Init ==
  /\ file \in Files /\ pools = LoadConfig(file)
  /\ first \in IF DOMAIN pools = {} THEN {0} ELSE DOMAIN pools
  /\ money = [h \in Handlers |-> Money] /\ items = [h \in Handlers |-> 0]
  /\ pity \in {[h \in Handlers |-> p] : p \in 0 .. HardPity}   \* as loaded from the history
  /\ records = [h \in Handlers |-> 0]
  /\ pc = [h \in Handlers |-> "idle"] /\ got = [h \in Handlers |-> 0]
  /\ answer = [h \in Handlers |-> 0]
  /\ trace \in [Handlers -> {CHOOSE t \in Traces : TRUE}]
  /\ redis = [t \in Traces |-> Absent]
  /\ requests = 0 /\ faults = 0
  /\ runs = [t \in Traces |-> 0] /\ sent = {}
  /\ unsure = {} /\ expired = {}

Go(h, from, to) == pc[h] = from /\ pc' = [pc EXCEPT ![h] = to]
Fault == faults < MaxFaults /\ faults' = faults + 1
SetKey(h, value) == redis' = [redis EXCEPT ![trace[h]] = value]
Price(h) == Draws[trace[h]]
AnswerIs(h, k) == answer' = [answer EXCEPT ![h] = k]

Receive(h, t) ==
  /\ requests < MaxRequests /\ requests' = requests + 1
  /\ Go(h, "idle", "check")
  /\ trace' = [trace EXCEPT ![h] = t]
  /\ UNCHANGED <<poolVars, playerVars, historyVars, got, answer, redis, faults>>

-----------------------------------------------------------------------------
(* CheckAndLock *)

\* Without a trace id, or when no Redis connection is free within 2 ms, the
\* request is let through as if it were the first.
LetThrough(h) ==
  /\ Go(h, "check", "spend")
  /\ \/ trace[h] = NoTrace /\ UNCHANGED faults
     \/ trace[h] # NoTrace /\ Fault
  /\ UNCHANGED <<poolVars, playerVars, historyVars, requestVars, redis, requests>>

\* Mutant: a key that was set is taken for one that was there.
LockNew_Misread(h) ==
  /\ trace[h] # NoTrace /\ redis[trace[h]] = Absent
  /\ Go(h, "check", "get")
  /\ UNCHANGED <<poolVars, playerVars, historyVars, redis, requestVars, requests, faults>>

\* SETNX sets the key.
LockNew(h) ==
  /\ trace[h] # NoTrace /\ redis[trace[h]] = Absent
  /\ Go(h, "check", "spend")
  /\ SetKey(h, Processing)
  /\ UNCHANGED <<poolVars, playerVars, historyVars, requestVars, requests, faults>>

\* Mutant: a request that is being handled is handled again.
LockTaken_Again(h) ==
  /\ trace[h] # NoTrace /\ redis[trace[h]] # Absent
  /\ Go(h, "check", "spend")
  /\ UNCHANGED <<poolVars, playerVars, historyVars, requestVars, redis, requests, faults>>

\* SETNX does not set the key, because there is one.
LockTaken(h) ==
  /\ trace[h] # NoTrace /\ redis[trace[h]] # Absent
  /\ Go(h, "check", "get")
  /\ UNCHANGED <<poolVars, playerVars, historyVars, requestVars, redis, requests, faults>>

\* SETNX gets no reply, be it done or not; it looks as if the key were there.
LockUnanswered(h) ==
  /\ trace[h] # NoTrace /\ Fault
  /\ Go(h, "check", "get")
  /\ \/ UNCHANGED redis
     \/ redis[trace[h]] = Absent /\ SetKey(h, Processing)
  /\ unsure' = unsure \cup {trace[h]}
  /\ UNCHANGED <<poolVars, playerVars, runs, sent, expired, requestVars, requests>>

\* GET finds "P", nothing any more, or fails: "Request in progress".
Refuse(h) ==
  /\ Go(h, "get", "idle")
  /\ \/ redis[trace[h]] \in {Absent, Processing} /\ UNCHANGED faults
     \/ redis[trace[h]] \notin {Absent, Processing} /\ Fault
  /\ UNCHANGED <<poolVars, playerVars, historyVars, requestVars, redis, requests>>

\* GET finds the answer of an earlier run, which is sent again.
Replay(h) ==
  /\ redis[trace[h]] > Processing
  /\ Go(h, "get", "idle")
  /\ sent' = sent \cup {<<trace[h], redis[trace[h]]>>}
  /\ UNCHANGED <<poolVars, playerVars, runs, unsure, expired, requestVars, redis, requests, faults>>

-----------------------------------------------------------------------------
(* Paying and drawing *)

Spend(h) ==
  /\ money[h] >= Price(h)
  /\ Go(h, "spend", "draw")
  /\ money' = [money EXCEPT ![h] = @ - Price(h)]
  /\ got' = [got EXCEPT ![h] = 0]
  /\ UNCHANGED <<poolVars, items, pity, records, historyVars, trace, answer, redis, requests, faults>>

InsufficientFunds(h) ==
  /\ money[h] < Price(h)
  /\ Go(h, "spend", "unlock")
  /\ UNCHANGED <<poolVars, playerVars, historyVars, requestVars, redis, requests, faults>>

\* RollRarity: what can be rolled.  From SoftPity on the chance of a 5 exceeds
\* the bound 0.051 below which a roll is a 4.
RollRarity(n) == IF n >= HardPity THEN {5} ELSE IF n >= SoftPity THEN {3, 5} ELSE {3, 4, 5}

\* A missing rarity falls back to the next lower one that has items; an item of
\* it can be drawn if their weights add up to more than 0.
Pool(h) == GetPool(pools, first, PoolId[trace[h]])
Fallback(h, r) == {s \in Rarities : /\ s <= r /\ HasRarity(Pool(h), s)
                                    /\ \A q \in s + 1 .. r : ~HasRarity(Pool(h), q)}
Drawn(h, r) == {s \in Fallback(h, r) : Total(Pool(h)[s]) > 0}

\* One draw succeeds: Record counts it under the rarity it really had.
DrawOnce(h) ==
  /\ Go(h, "draw", IF got[h] + 1 = Price(h) THEN "grant" ELSE "draw")
  /\ \E r \in RollRarity(pity[h]) : \E s \in Drawn(h, r) :
       pity' = [pity EXCEPT ![h] = IF s = 5 THEN 0 ELSE @ + 1]
  /\ records' = [records EXCEPT ![h] = @ + 1]
  /\ got' = [got EXCEPT ![h] = @ + 1]
  /\ UNCHANGED <<poolVars, money, items, historyVars, trace, answer, redis, requests, faults>>

\* Mutant: the price of one draw is paid back, whatever was asked for.
DrawThrows_RefundsOne(h) ==
  /\ Go(h, "draw", "unlock")
  /\ \E r \in RollRarity(pity[h]) : Drawn(h, r) = {}
  /\ money' = [money EXCEPT ![h] = @ + 1]
  /\ UNCHANGED <<poolVars, items, pity, records, historyVars, requestVars, redis, requests, faults>>

\* No pool, or nothing of the rolled rarity or below: the draw throws, and the handler
\* pays everything back.
DrawThrows(h) ==
  /\ Go(h, "draw", "unlock")
  /\ \E r \in RollRarity(pity[h]) : Drawn(h, r) = {}
  /\ money' = [money EXCEPT ![h] = @ + Price(h)]
  /\ UNCHANGED <<poolVars, items, pity, records, historyVars, requestVars, redis, requests, faults>>

\* The items drawn are added and the answer is sent, before it is stored.
Grant(h) ==
  /\ Go(h, "grant", "save")
  /\ items' = [items EXCEPT ![h] = @ + got[h]]
  /\ runs' = [runs EXCEPT ![trace[h]] = @ + 1]
  /\ AnswerIs(h, runs[trace[h]] + 1)
  /\ sent' = sent \cup {<<trace[h], answer'[h]>>}
  /\ UNCHANGED <<poolVars, money, pity, records, unsure, expired, trace, got, redis, requests, faults>>

-----------------------------------------------------------------------------
(* SaveResult and Unlock *)

SaveResult(h) ==
  /\ Go(h, "save", "idle")
  /\ IF trace[h] = NoTrace THEN UNCHANGED redis ELSE SetKey(h, answer[h])
  /\ AnswerIs(h, 0)
  /\ UNCHANGED <<poolVars, playerVars, historyVars, trace, got, requests, faults>>

\* Mutant: the handler gives up when the answer could not be stored.
SaveResultFails_KeepsLock(h) ==
  /\ trace[h] # NoTrace /\ Fault
  /\ Go(h, "save", "idle")
  /\ UNCHANGED redis \/ SetKey(h, answer[h])
  /\ AnswerIs(h, 0)
  /\ UNCHANGED <<poolVars, playerVars, historyVars, trace, got, requests>>

\* No connection or no reply; the answer may be stored all the same.
SaveResultFails(h) ==
  /\ trace[h] # NoTrace /\ Fault
  /\ Go(h, "save", "unlock")
  /\ UNCHANGED redis \/ SetKey(h, answer[h])
  /\ AnswerIs(h, 0)
  /\ UNCHANGED <<poolVars, playerVars, historyVars, trace, got, requests>>

Unlock(h) ==
  /\ Go(h, "unlock", "idle")
  /\ IF trace[h] = NoTrace THEN UNCHANGED redis ELSE SetKey(h, Absent)
  /\ UNCHANGED <<poolVars, playerVars, historyVars, requestVars, requests, faults>>

UnlockFails(h) ==
  /\ trace[h] # NoTrace /\ Fault
  /\ Go(h, "unlock", "idle")
  /\ UNCHANGED redis \/ SetKey(h, Absent)
  /\ unsure' = unsure \cup {trace[h]}
  /\ UNCHANGED <<poolVars, playerVars, runs, sent, expired, requestVars, requests>>

\* A key reaches its time to live (10 s for a lock, 60 s for an answer).
Expire(t) ==
  /\ MayExpire /\ redis[t] # Absent
  /\ redis' = [redis EXCEPT ![t] = Absent] /\ expired' = expired \cup {t}
  /\ UNCHANGED <<poolVars, playerVars, runs, sent, unsure, pc, requestVars, requests, faults>>

-----------------------------------------------------------------------------
Handle(h) ==
  \/ LetThrough(h) \/ LockNew(h) \/ LockTaken(h) \/ LockUnanswered(h) \/ Refuse(h) \/ Replay(h)
  \/ Spend(h) \/ InsufficientFunds(h) \/ DrawOnce(h) \/ DrawThrows(h) \/ Grant(h)
  \/ SaveResult(h) \/ SaveResultFails(h) \/ Unlock(h) \/ UnlockFails(h)

Next == \/ \E h \in Handlers : Handle(h) \/ \E t \in Traces : Receive(h, t)
        \/ \E t \in Traces : Expire(t)

Spec == Init /\ [][Next]_vars

-----------------------------------------------------------------------------
(* What a draw must do *)

\* The variables keep their types.
TypeOK ==
  /\ {money, items, pity, records, got, answer} \subseteq [Handlers -> Nat]
  /\ pc \in [Handlers -> {"idle", "check", "get", "spend", "draw", "grant", "save", "unlock"}]
  /\ trace \in [Handlers -> Traces]
  /\ redis \in [Traces -> Nat \cup {Absent}] /\ runs \in [Traces -> Nat]
  /\ requests \in 0 .. MaxRequests /\ faults \in 0 .. MaxFaults
  /\ sent \subseteq Traces \X Nat
  /\ unsure \subseteq Traces /\ expired \subseteq Traces

\* As long as no Redis call has failed and the key lives, a request is carried
\* out once, however often it is repeated and whichever actor gets it, and the
\* repetitions get the same answer.
OncePerTrace ==
  \A t \in Traces \ {NoTrace} : faults = 0 /\ t \notin expired =>
    runs[t] <= 1 /\ \A x, y \in sent : x[1] = t /\ y[1] = t => x = y

\* What a handler has taken from its player and not yet granted or paid back.
InHand(h) == IF pc[h] \in {"draw", "grant"} THEN Price(h) ELSE 0

Buying == INSTANCE Purchase WITH
            Buyers <- Handlers, Orders <- Traces, Cost <- Draws,
            money <- [h \in Handlers |-> money[h] + InHand(h)]

\* Whatever calls fail, keys expire and draws of a request are refused: payment, items
\* and answer come as one, with the money in a handler's hand counted as the
\* player's until then, and an answer that is sent again is one that was sent before.
ImplementsPurchase == Buying!Spec

\* A pool in the grouped form refuses no draw, be it asked for by its id or taken
\* for a missing one (GachaPoolManager.cpp:121).
PoolServes ==
  [][\A h \in Handlers : pc[h] = "draw" /\ pc'[h] = "unlock" =>
       ~\E i \in Entries(file) : Grouped(file[i]) /\ Pool(h) = pools[file[i].id]]_vars

\* Every item of a pool is drawn for as many random numbers as its weight says; the
\* pools do not change after the start (GachaPool.cpp:34).
WeightIsShare ==
  requests = 0 => \A id \in DOMAIN pools, r \in Rarities :
    LET weights == pools[id][r]
    IN \A i \in 1 .. Len(weights) :
         Cardinality({n \in 1 .. Total(weights) : DrawByRarity(weights, n) = i}) = weights[i]

\* A handler that has let the request t pass and not ended it.
Serves(h, t) == trace[h] = t /\ pc[h] \in {"spend", "draw", "grant", "save", "unlock"}

\* A request is refused as one in progress, or answered from the key, only if its trace
\* is with another handler at that moment or has been carried out before, unless a SETNX
\* or DEL of its key has failed: the player can go on (IdempotencyService.cpp:52, :75).
RefusedRightly ==
  [][\A h \in Handlers : pc[h] = "check" /\ pc'[h] = "get" /\ trace[h] \notin unsure' =>
       runs[trace[h]] > 0 \/ \E k \in Handlers \ {h} : Serves(k, trace[h])]_vars

\* A lock is the lock of a handler that will replace or remove it, be it this handler's
\* or set after this handler's had expired: no way out of a handler leaves one behind,
\* an answer that cannot be stored included (GachaService.cpp:145).  Only a SETNX that
\* was done without a reply, or a DEL that failed, leaves one until it expires.
LockHasHandler ==
  \A t \in Traces : redis[t] = Processing /\ t \notin unsure => \E h \in Handlers : Serves(h, t)
=============================================================================
