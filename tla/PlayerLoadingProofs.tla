------------------------- MODULE PlayerLoadingProofs -------------------------
(* Theorems about PlayerLoading, for any number of loading threads and         *)
(* connections, and any bounds.                                                *)
EXTENDS PlayerLoading, TLAPS

-----------------------------------------------------------------------------
(* Type correctness *)

\* Loads and the database worker have a connection exactly where they need one.
HandsFit ==
  /\ \A l \in Loaders : (redis[l] # None) = HasRedis(l)
  /\ \A u \in Users : (mysql[u] # None) = HasMySQL(u)

TypeInv == TypeOK /\ HandsFit

\* A version in memory or in the database may also stand in a Player, a key or an entry.
LEMMA VersionTypes ==
  ASSUME TypeOK
  PROVE  /\ Nothing \in Versions /\ live \in Versions /\ db \in Versions
         /\ key # Absent => key \in Versions
         /\ NewPlayer \in [money : Versions, items : Versions, records : Versions]
         /\ NoEntry \in [money : Versions, items : Versions, short : BOOLEAN]
  <1>1. Nothing \in Versions /\ live \in Versions /\ db \in Versions
    BY LoadingAssumption DEF TypeOK, Versions, Nothing
  <1>2. key # Absent => key \in Versions  BY DEF TypeOK
  <1> QED  BY <1>1, <1>2 DEF NewPlayer, NoEntry

Parts == [money : Versions, items : Versions, records : Versions]

\* A part of a loaded Player is set.
LEMMA SetType ==
  ASSUME TypeOK, NEW l \in Loaders, NEW part \in {"money", "items", "records"},
         NEW version \in Versions, Set(l, part, version)
  PROVE  obj' \in [Loaders -> Parts]
  <1>1. obj \in [Loaders -> Parts]  BY DEF TypeOK, Parts
  <1>2. [obj[l] EXCEPT ![part] = version] \in Parts
    <2>1. obj[l] \in Parts  BY <1>1
    <2>2. CASE part = "money"  BY <2>1, <2>2 DEF Parts
    <2>3. CASE part = "items"  BY <2>1, <2>3 DEF Parts
    <2>4. CASE part = "records"  BY <2>1, <2>4 DEF Parts
    <2> QED  BY <2>2, <2>3, <2>4
  <1>3. obj' = [obj EXCEPT ![l] = [obj[l] EXCEPT ![part] = version]]  BY <1>1 DEF Set
  <1> QED  BY <1>1, <1>2, <1>3

\* No load is promised anything any more.
LEMMA ReleaseType == ASSUME TypeOK, Release PROVE promised' \in [Loaders -> Versions]
  BY VersionTypes DEF TypeOK, Release

\* A load that fails drops its Player and what it was promised.
LEMMA FailType ==
  ASSUME TypeOK, NEW l \in Loaders, NEW from, Fail(l, from)
  PROVE  /\ obj' \in [Loaders -> Parts] /\ promised' \in [Loaders -> Versions]
         /\ Go(l, from, "failed")
  BY VersionTypes DEF TypeOK, Fail, Parts

\* The type invariant is kept by the steps of a load.
LEMMA LoadType == ASSUME TypeInv, NEW l \in Loaders, Load(l) PROVE TypeInv'
  <1> USE LoadingAssumption, VersionTypes DEF TypeInv, TypeOK, HandsFit, HasRedis, HasMySQL, Users,
          Go, Fail, Fault, Set, Release, TakeRedis, GiveRedis, TakeMySQL, GiveMySQL, NoMySQL,
          Ended, saveVars, redisVars, poolVars, loaderVars, historyVars
  <1>1. CASE CacheHit(l)
    <2>1. obj' \in [Loaders -> Parts]  BY <1>1 DEF CacheHit, Parts
    <2>2. \E from \in {"lookup", "retry"} : Go(l, from, "cached")  BY <1>1 DEF CacheHit
    <2> QED  BY <1>1, <2>1, <2>2 DEF CacheHit, Parts
  <1>2. CASE CacheMiss(l)
    <2>1. promised' \in [Loaders -> Versions] /\ faults' \in 0 .. MaxFaults /\ suspect' \in BOOLEAN
      <3>1. CASE UNCHANGED <<historyVars, faults>>  BY <3>1
      <3>2. CASE Fault /\ suspect' = TRUE /\ Release  BY <3>2, ReleaseType
      <3> QED  BY <1>2, <3>1, <3>2 DEF CacheMiss
    <2>2. Go(l, "lookup", "lock") \/ Go(l, "retry", "currency")  BY <1>2 DEF CacheMiss
    <2>3. UNCHANGED <<saveVars, redisVars, poolVars, obj, spins, loads>>  BY <1>2 DEF CacheMiss
    <2>4. CASE Go(l, "lookup", "lock")  BY <2>1, <2>3, <2>4
    <2>5. CASE Go(l, "retry", "currency")  BY <2>1, <2>3, <2>5
    <2> QED  BY <2>2, <2>4, <2>5
  <1>3. CASE LockLoad(l)  BY <1>3 DEF LockLoad
  <1>4. CASE LoadLocked(l)  BY <1>4 DEF LoadLocked
  <1>5. CASE LockCurrency(l)  BY <1>5 DEF LockCurrency
  <1>6. CASE CurrencyLocked(l)  BY <1>6 DEF CurrencyLocked
  <1>7. CASE AcquireForMoney(l)  BY <1>7 DEF AcquireForMoney
  <1>8. CASE NoneForMoney(l)  BY <1>8 DEF NoneForMoney
  <1>9. CASE ReadMoney(l)
    <2>1. obj' \in [Loaders -> Parts]  BY <1>9, SetType DEF ReadMoney
    <2>2. promised' \in [Loaders -> Versions] /\ suspect' \in BOOLEAN /\ faults' \in 0 .. MaxFaults
      <3>1. CASE UNCHANGED <<faults, historyVars>>  BY <3>1
      <3>2. CASE Fault /\ suspect' = TRUE /\ Release  BY <3>2, ReleaseType
      <3> QED  BY <1>9, <3>1, <3>2 DEF ReadMoney
    <2>3. Go(l, "money", "setKey") /\ UNCHANGED <<saveVars, redisVars, poolVars, spins, loads>>
      BY <1>9 DEF ReadMoney
    <2> QED  BY <2>1, <2>2, <2>3 DEF Parts
  <1>10. CASE SetKey(l)
    <2>1. obj[l].money \in Versions  OBVIOUS
    <2>2. key' \in Versions \cup {Absent} /\ keyOlder' \in BOOLEAN /\ faults' \in 0 .. MaxFaults
      <3>1. CASE key' = obj[l].money /\ keyOlder' = FALSE /\ UNCHANGED faults
        <4>1. key' \in Versions \cup {Absent} /\ faults' \in 0 .. MaxFaults  BY <2>1, <3>1
        <4>2. keyOlder' \in BOOLEAN  BY <3>1, Zenon
        <4> QED  BY <4>1, <4>2
      <3>2. CASE Fault /\ UNCHANGED <<key, keyOlder>>  BY <3>2
      <3> QED  BY <1>10, <3>1, <3>2 DEF SetKey
    <2>3. /\ Go(l, "setKey", "inventory") /\ GiveRedis(l) /\ GiveMySQL(l)
          /\ UNCHANGED <<saveVars, cache, loadLock, curLock, obj, spins, loads, historyVars>>
      BY <1>10 DEF SetKey
    <2> QED  BY <2>2, <2>3
  <1>11. CASE KeyFound(l)  BY <1>11, SMTT(30) DEF KeyFound
  <1>12. CASE KeyMissing(l)  BY <1>12, SMTT(30) DEF KeyMissing
  <1>13. CASE AcquireForFallback(l)  BY <1>13 DEF AcquireForFallback
  <1>14. CASE NoneForFallback(l)  BY <1>14 DEF NoneForFallback
  <1>15. CASE ReadFallback(l)
    <2>1. obj' \in [Loaders -> Parts]
      <3>1. CASE Set(l, "money", db)  BY <3>1, SetType
      <3>2. CASE UNCHANGED obj  BY <3>2 DEF Parts
      <3> QED  BY <1>15, <3>1, <3>2 DEF ReadFallback
    <2>2. promised' \in [Loaders -> Versions] /\ suspect' \in BOOLEAN /\ faults' \in 0 .. MaxFaults
      <3>1. CASE UNCHANGED <<faults, historyVars>>  BY <3>1
      <3>2. CASE Fault /\ suspect' = TRUE /\ Release  BY <3>2, ReleaseType
      <3> QED  BY <1>15, <3>1, <3>2 DEF ReadFallback
    <2>3. /\ Go(l, "readFallback", "inventory") /\ GiveMySQL(l)
          /\ UNCHANGED <<saveVars, redisVars, freeRedis, redis, spins, loads>>
      BY <1>15 DEF ReadFallback
    <2> QED  BY <2>1, <2>2, <2>3 DEF Parts
  <1>16. CASE AcquireForRows(l)
    <2>1. TakeMySQL(l) /\ UNCHANGED <<saveVars, redisVars, freeRedis, redis, obj, spins, loads>>
            /\ UNCHANGED <<historyVars, faults>>
      BY <1>16 DEF AcquireForRows
    <2>2. CASE Go(l, "inventory", "readItems")  BY <2>1, <2>2
    <2>3. CASE Go(l, "history", "readRecords")  BY <2>1, <2>3
    <2> QED  BY <1>16, <2>2, <2>3 DEF AcquireForRows
  <1>17. CASE NoneForRows(l)
    <2>1. obj' \in [Loaders -> Parts] /\ promised' \in [Loaders -> Versions]
      BY <1>17, FailType DEF NoneForRows
    <2>2. Go(l, "inventory", "failed") \/ Go(l, "history", "failed")
      BY <1>17, FailType DEF NoneForRows
    <2>3. NoMySQL /\ UNCHANGED <<saveVars, redisVars, freeRedis, redis, mysql, spins, loads, suspect>>
      BY <1>17 DEF NoneForRows
    <2>4. CASE Go(l, "inventory", "failed")  BY <2>1, <2>3, <2>4 DEF Parts
    <2>5. CASE Go(l, "history", "failed")  BY <2>1, <2>3, <2>5 DEF Parts
    <2> QED  BY <2>2, <2>4, <2>5
  <1>18. CASE ReadItems(l)  BY <1>18, SMTT(30) DEF ReadItems
  <1>19. CASE ReadRecords(l)  BY <1>19, SMTT(30) DEF ReadRecords
  <1>20. CASE ReadFails(l)
    <2>1. obj' \in [Loaders -> Parts] /\ promised' \in [Loaders -> Versions]
      BY <1>20, FailType DEF ReadFails
    <2>2. Go(l, "readItems", "failed") \/ Go(l, "readRecords", "failed")
      BY <1>20, FailType DEF ReadFails
    <2>3. /\ Fault /\ GiveMySQL(l)
          /\ UNCHANGED <<saveVars, redisVars, freeRedis, redis, spins, loads, suspect>>
      BY <1>20 DEF ReadFails
    <2>4. CASE Go(l, "readItems", "failed")  BY <2>1, <2>3, <2>4 DEF Parts
    <2>5. CASE Go(l, "readRecords", "failed")  BY <2>1, <2>3, <2>5 DEF Parts
    <2> QED  BY <2>2, <2>4, <2>5
  <1>21. CASE Backfill(l)
    <2>1. cache' \in [money : Versions, items : Versions, short : BOOLEAN]
      <3>1. obj[l].money \in Versions /\ obj[l].items \in Versions  OBVIOUS
      <3>2. [money |-> obj[l].money, items |-> obj[l].items, short |-> TRUE]
              \in [money : Versions, items : Versions, short : BOOLEAN]
        BY <3>1
      <3> QED  BY <1>21, <3>2 DEF Backfill
    <2>2. keyOlder' \in BOOLEAN  BY <1>21, Zenon DEF Backfill
    <2>3. faults' \in 0 .. MaxFaults  BY <1>21 DEF Backfill
    <2>4. /\ Go(l, "backfill", "done")
          /\ UNCHANGED <<saveVars, loadLock, curLock, key, poolVars, obj, spins, loads, historyVars>>
      BY <1>21 DEF Backfill
    <2> QED  BY <2>1, <2>2, <2>3, <2>4
  <1> QED
    BY <1>1, <1>2, <1>3, <1>4, <1>5, <1>6, <1>7, <1>8, <1>9, <1>10, <1>11,
       <1>12, <1>13, <1>14, <1>15, <1>16, <1>17, <1>18, <1>19, <1>20, <1>21 DEF Load

\* The type invariant is kept by every other step.
LEMMA OtherType ==
  ASSUME TypeInv, (\E l \in Loaders : BeginLoad(l)) \/ Draw \/ Save
                    \/ ExpireLocks \/ ExpireKey \/ ExpireCache \/ UNCHANGED vars
  PROVE  TypeInv'
  <1> USE LoadingAssumption, VersionTypes DEF TypeInv, TypeOK, HandsFit, HasRedis, HasMySQL, Users,
          GoW, Fault, TakeMySQL, GiveMySQL, NoMySQL,
          Ended, saveVars, redisVars, poolVars, loaderVars, historyVars
  <1>1. CASE \E l \in Loaders : BeginLoad(l)  BY <1>1 DEF BeginLoad, Promise
  <1>2. CASE Draw
    <2>1. promised' \in [Loaders -> Versions]  BY <1>2, ReleaseType DEF Draw
    <2>2. dirty' \in BOOLEAN /\ forgotten' \in BOOLEAN  BY <1>2, Zenon DEF Draw
    <2>3. /\ live' \in 0 .. MaxDraws /\ db' \in 0 .. live'
          /\ UNCHANGED <<wpc, redisVars, poolVars, loaderVars, suspect, faults>>
      BY <1>2 DEF Draw
    <2> QED  BY <2>1, <2>2, <2>3
  <1>3. CASE TakeFlags \/ AcquireForSave
    <2>1. CASE TakeFlags
      <3>1. dirty' \in BOOLEAN  BY <2>1, Zenon DEF TakeFlags
      <3>2. /\ GoW("idle", "queued")
            /\ UNCHANGED <<live, db, forgotten, redisVars, poolVars, loaderVars, historyVars, faults>>
        BY <2>1 DEF TakeFlags
      <3> QED  BY <3>1, <3>2
    <2>2. CASE AcquireForSave  BY <2>2 DEF AcquireForSave
    <2> QED  BY <1>3, <2>1, <2>2
  <1>4. CASE NoneForSave  BY <1>4 DEF NoneForSave
  <1>5. CASE Commit \/ SaveFails
    <2>1. CASE Commit
      <3>1. promised' \in [Loaders -> Versions]  BY <2>1, ReleaseType DEF Commit
      <3> QED  BY <2>1, <3>1 DEF Commit
    <2>2. CASE SaveFails
      <3>1. promised' \in [Loaders -> Versions]  BY <2>2, ReleaseType DEF SaveFails
      <3>2. forgotten' \in BOOLEAN /\ suspect' \in BOOLEAN /\ db' \in 0 .. live
        <4>1. forgotten' \in BOOLEAN  BY <2>2, Zenon DEF SaveFails
        <4>2. UNCHANGED <<db, suspect>> \/ (db' = live /\ suspect' = TRUE)
          BY <2>2, Zenon DEF SaveFails
        <4>3. suspect \in BOOLEAN /\ db \in 0 .. live /\ live \in 0 .. live  OBVIOUS
        <4>4. suspect' \in BOOLEAN /\ db' \in 0 .. live  BY <4>2, <4>3, Zenon
        <4> QED  BY <4>1, <4>4
      <3>3. /\ GoW("commit", "idle") /\ Fault /\ GiveMySQL(Worker)
            /\ UNCHANGED <<live, dirty, redisVars, freeRedis, redis, loaderVars>>
        BY <2>2 DEF SaveFails
      <3> QED  BY <3>1, <3>2, <3>3
    <2> QED  BY <1>5, <2>1, <2>2
  <1>6. CASE WriteCache
    <2>1. /\ cache' \in [money : Versions, items : Versions, short : BOOLEAN]
          /\ promised' \in [Loaders -> Versions] /\ faults' \in 0 .. MaxFaults
      <3>1. CASE Fault /\ suspect' = TRUE /\ Release /\ UNCHANGED <<cache, keyOlder>>
        BY <3>1, ReleaseType
      <3>2. CASE cache' = [money |-> live, items |-> live, short |-> FALSE]
                   /\ UNCHANGED <<promised, faults>>
        <4>1. live \in Versions  OBVIOUS
        <4> QED  BY <3>2, <4>1
      <3> QED  BY <1>6, <3>1, <3>2 DEF WriteCache
    <2>2. keyOlder' \in BOOLEAN /\ suspect' \in BOOLEAN
      <3>1. keyOlder \in BOOLEAN  OBVIOUS
      <3> QED  BY <1>6, <3>1, Zenon DEF WriteCache
    <2>3. /\ GoW("cache", "idle") /\ GiveMySQL(Worker)
          /\ UNCHANGED <<live, db, dirty, forgotten, loadLock, curLock, key, freeRedis, redis>>
          /\ UNCHANGED loaderVars
      BY <1>6 DEF WriteCache
    <2> QED  BY <2>1, <2>2, <2>3
  <1>7. CASE ExpireLocks
    <2>1. loadLock' \in BOOLEAN /\ curLock' \in BOOLEAN
      <3>1. loadLock \in BOOLEAN /\ curLock \in BOOLEAN  OBVIOUS
      <3> QED  BY <1>7, <3>1, Zenon DEF ExpireLocks
    <2>2. UNCHANGED <<saveVars, cache, key, keyOlder, poolVars, loaderVars, historyVars, faults>>
      BY <1>7 DEF ExpireLocks
    <2> QED  BY <2>1, <2>2
  <1>8. CASE ExpireKey
    <2>1. keyOlder' \in BOOLEAN  BY <1>8, Zenon DEF ExpireKey
    <2> QED  BY <1>8, <2>1 DEF ExpireKey
  <1>9. CASE ExpireCache
    <2>1. keyOlder' \in BOOLEAN  BY <1>9, Zenon DEF ExpireCache
    <2> QED  BY <1>9, <2>1 DEF ExpireCache
  <1>10. CASE UNCHANGED vars  BY <1>10 DEF vars
  <1> QED  BY <1>1, <1>2, <1>3, <1>4, <1>5, <1>6, <1>7, <1>8, <1>9, <1>10 DEF Save

\* Nobody has a connection at first.
LEMMA InitType == Init => TypeInv
  <1> SUFFICES ASSUME Init PROVE TypeInv  OBVIOUS
  <1>1. Versions = Nothing .. MaxDraws /\ Nothing = -1  BY DEF Versions, Nothing
  <1>2. NoEntry \in [money : Versions, items : Versions, short : BOOLEAN]
    BY <1>1, LoadingAssumption DEF NoEntry
  <1>3. NewPlayer \in [money : Versions, items : Versions, records : Versions]
    BY <1>1, LoadingAssumption DEF NewPlayer
  <1>4. /\ loadLock \in BOOLEAN /\ curLock \in BOOLEAN /\ keyOlder \in BOOLEAN
        /\ suspect \in BOOLEAN /\ dirty \in BOOLEAN /\ forgotten \in BOOLEAN
    BY Zenon DEF Init
  <1>5. TypeOK  BY <1>1, <1>2, <1>3, <1>4, LoadingAssumption DEF Init, TypeOK, Ended
  <1>6. HandsFit  BY LoadingAssumption DEF Init, HandsFit, HasRedis, HasMySQL, Users
  <1> QED  BY <1>5, <1>6 DEF TypeInv

\* The variables keep their types, and a user has a connection exactly where it
\* needs one.
LEMMA TypeInvHolds == Spec => []TypeInv
  <1>1. TypeInv /\ [Next]_vars => TypeInv'
    BY LoadType, OtherType DEF Next
  <1> QED  BY InitType, <1>1, PTL DEF Spec

\* The variables keep their types.
THEOREM TypeCorrect == Spec => []TypeOK
  <1>1. TypeInv => TypeOK  BY DEF TypeInv
  <1> QED  BY TypeInvHolds, <1>1, PTL

-----------------------------------------------------------------------------
(* No connection is lost or shared *)

\* A Redis connection is in the pool, or with one load.
RedisOwned ==
  \A c \in RedisConns :
    \/ c \in freeRedis /\ \A l \in Loaders : redis[l] # c
    \/ c \notin freeRedis /\ \E l \in Loaders : redis[l] = c
                              /\ \A m \in Loaders : redis[m] = c => m = l

\* Taking a connection out of the pool keeps it with one owner, and so does
\* giving it back.
LEMMA RedisMoves ==
  ASSUME TypeInv, RedisOwned, NEW l \in Loaders, 
         (redis[l] = None /\ TakeRedis(l)) \/ (redis[l] # None /\ GiveRedis(l))
           \/ UNCHANGED <<freeRedis, redis>>
  PROVE  RedisOwned'
  <1> USE LoadingAssumption DEF TypeInv, TypeOK, RedisOwned
  <1>1. CASE redis[l] = None /\ TakeRedis(l)  BY <1>1 DEF TakeRedis
  <1>2. CASE redis[l] # None /\ GiveRedis(l)  BY <1>2 DEF GiveRedis
  <1>3. CASE UNCHANGED <<freeRedis, redis>>  BY <1>3
  <1> QED  BY <1>1, <1>2, <1>3

\* Each step takes or gives back at most one connection.
LEMMA RedisStep == ASSUME TypeInv, RedisOwned, [Next]_vars PROVE RedisOwned'
  <1> USE DEF poolVars, redisVars, loaderVars, TypeInv, HandsFit, HasRedis
  <1>1. CASE UNCHANGED <<freeRedis, redis>>  BY <1>1 DEF RedisOwned
  <1>2. CASE \E l \in Loaders : LockCurrency(l)
    <2>1. PICK l \in Loaders : LockCurrency(l)  BY <1>2
    <2>2. redis[l] = None /\ TakeRedis(l)  BY <2>1 DEF LockCurrency, Go
    <2> QED  BY <2>2, RedisMoves
  <1>3. CASE \E l \in Loaders : NoneForMoney(l) \/ SetKey(l)
    <2>1. PICK l \in Loaders : NoneForMoney(l) \/ SetKey(l)  BY <1>3
    <2>2. redis[l] # None /\ GiveRedis(l)  BY <2>1 DEF NoneForMoney, SetKey, Fail, Go
    <2> QED  BY <2>2, RedisMoves
  <1>4. CASE \E l \in Loaders : Load(l) /\ ~LockCurrency(l) /\ ~NoneForMoney(l) /\ ~SetKey(l)
    <2>1. UNCHANGED <<freeRedis, redis>>
      BY <1>4 DEF Load, CacheHit, CacheMiss, LockLoad, LoadLocked, CurrencyLocked,
         AcquireForMoney, ReadMoney, KeyFound, KeyMissing, AcquireForFallback, NoneForFallback,
         ReadFallback, AcquireForRows, NoneForRows, ReadItems, ReadRecords, ReadFails, Backfill
    <2> QED  BY <1>1, <2>1
  <1>5. CASE (\E l \in Loaders : BeginLoad(l)) \/ Draw \/ Save
               \/ ExpireLocks \/ ExpireKey \/ ExpireCache \/ UNCHANGED vars
    <2>1. UNCHANGED <<freeRedis, redis>>
      BY <1>5 DEF BeginLoad, Draw, Save, TakeFlags, AcquireForSave, NoneForSave, Commit, SaveFails,
         WriteCache,
         ExpireLocks, ExpireKey, ExpireCache, vars
    <2> QED  BY <1>1, <2>1
  <1> QED  BY <1>2, <1>3, <1>4, <1>5 DEF Next

\* A Redis connection is in the pool or with one load that will give it back.
THEOREM RedisKept == Spec => []RedisConserved
  <1>1. Init => RedisOwned  BY LoadingAssumption DEF Init, RedisOwned
  <1>2. TypeInv /\ RedisOwned /\ [Next]_vars => RedisOwned'  BY RedisStep
  <1>3. TypeInv /\ RedisOwned => RedisConserved
    BY DEF TypeInv, HandsFit, RedisOwned, RedisConserved
  <1> QED  BY TypeInvHolds, <1>1, <1>2, <1>3, PTL DEF Spec

\* A MySQL connection that somebody has is neither in the pool nor with another.
MySQLOwned ==
  \A c \in MySQLConns : \A u \in Users :
    mysql[u] = c => c \notin freeMySQL /\ \A v \in Users : mysql[v] = c => v = u

\* The same of the MySQL pool, which may also lose a connection.
LEMMA MySQLMoves ==
  ASSUME TypeInv, MySQLOwned, NEW u \in Users,
         (mysql[u] = None /\ TakeMySQL(u)) \/ (mysql[u] # None /\ GiveMySQL(u))
           \/ (NoMySQL /\ UNCHANGED mysql) \/ UNCHANGED <<freeMySQL, mysql>>
  PROVE  MySQLOwned'
  <1> USE LoadingAssumption DEF TypeInv, TypeOK, MySQLOwned
  <1>1. CASE mysql[u] = None /\ TakeMySQL(u)  BY <1>1 DEF TakeMySQL
  <1>2. CASE mysql[u] # None /\ GiveMySQL(u)  BY <1>2 DEF GiveMySQL
  <1>3. CASE NoMySQL /\ UNCHANGED mysql  BY <1>3 DEF NoMySQL
  <1>4. CASE UNCHANGED <<freeMySQL, mysql>>  BY <1>4
  <1> QED  BY <1>1, <1>2, <1>3, <1>4

\* Each step of a load moves its own connection only.
LEMMA MySQLLoadStep ==
  ASSUME TypeInv, MySQLOwned, NEW l \in Loaders, Load(l)
  PROVE  MySQLOwned'
  <1> USE LoadingAssumption, MySQLMoves
      DEF poolVars, redisVars, loaderVars, TypeInv, HandsFit, HasMySQL, Users, Go, Fail
  <1>1. CASE AcquireForMoney(l) \/ AcquireForFallback(l) \/ AcquireForRows(l)
    <2>1. mysql[l] = None /\ TakeMySQL(l)
      BY <1>1 DEF AcquireForMoney, AcquireForFallback, AcquireForRows
    <2> QED  BY <2>1
  <1>2. CASE NoneForMoney(l) \/ NoneForFallback(l) \/ NoneForRows(l)
    <2>1. NoMySQL /\ UNCHANGED mysql
      BY <1>2 DEF NoneForMoney, NoneForFallback, NoneForRows
    <2> QED  BY <2>1
  <1>3. CASE SetKey(l) \/ ReadFallback(l) \/ ReadItems(l) \/ ReadRecords(l) \/ ReadFails(l)
    <2>1. mysql[l] # None /\ GiveMySQL(l)
      BY <1>3 DEF SetKey, ReadFallback, ReadItems, ReadRecords, ReadFails
    <2> QED  BY <2>1
  <1>4. CASE CacheHit(l) \/ CacheMiss(l) \/ LockLoad(l) \/ LoadLocked(l) \/ LockCurrency(l)
               \/ CurrencyLocked(l) \/ ReadMoney(l) \/ KeyFound(l) \/ KeyMissing(l) \/ Backfill(l)
    <2>1. UNCHANGED <<freeMySQL, mysql>>
      BY <1>4 DEF CacheHit, CacheMiss, LockLoad, LoadLocked, LockCurrency, CurrencyLocked,
         ReadMoney, KeyFound, KeyMissing, Backfill
    <2> QED  BY <2>1
  <1> QED  BY <1>1, <1>2, <1>3, <1>4 DEF Load

\* Each step of the database worker moves its connection only.
LEMMA MySQLStep == ASSUME TypeInv, MySQLOwned, [Next]_vars PROVE MySQLOwned'
  <1>1. CASE \E l \in Loaders : Load(l)  BY <1>1, MySQLLoadStep
  <1>2. CASE Save
    <2> USE LoadingAssumption, MySQLMoves DEF poolVars, TypeInv, HandsFit, HasMySQL, Users, GoW
    <2>1. CASE AcquireForSave
      <3>1. mysql[Worker] = None /\ TakeMySQL(Worker)  BY <2>1 DEF AcquireForSave
      <3> QED  BY <3>1
    <2>2. CASE NoneForSave
      <3>1. NoMySQL /\ UNCHANGED mysql  BY <2>2 DEF NoneForSave
      <3> QED  BY <3>1
    <2>3. CASE Commit
      <3>1. UNCHANGED <<freeMySQL, mysql>>  BY <2>3 DEF Commit
      <3> QED  BY <3>1
    <2>4. CASE WriteCache \/ SaveFails
      <3>1. mysql[Worker] # None /\ GiveMySQL(Worker)  BY <2>4 DEF WriteCache, SaveFails
      <3> QED  BY <3>1
    <2>5. CASE TakeFlags
      <3>1. UNCHANGED <<freeMySQL, mysql>>  BY <2>5 DEF TakeFlags
      <3> QED  BY <3>1
    <2> QED  BY <1>2, <2>1, <2>2, <2>3, <2>4, <2>5 DEF Save
  <1>3. CASE (\E l \in Loaders : BeginLoad(l)) \/ Draw
               \/ ExpireLocks \/ ExpireKey \/ ExpireCache \/ UNCHANGED vars
    <2>1. UNCHANGED <<freeMySQL, mysql>>
      BY <1>3 DEF BeginLoad, Draw, ExpireLocks, ExpireKey, ExpireCache, vars, poolVars
    <2> QED  BY <2>1 DEF MySQLOwned
  <1> QED  BY <1>1, <1>2, <1>3 DEF Next

\* A MySQL connection is never with two users, nor in the pool while it is used,
\* although the pool may lose one.
THEOREM MySQLKept == Spec => []MySQLConserved
  <1>1. Init => MySQLOwned  BY LoadingAssumption DEF Init, MySQLOwned
  <1>2. TypeInv /\ MySQLOwned /\ [Next]_vars => MySQLOwned'  BY MySQLStep
  <1>3. TypeInv /\ MySQLOwned => MySQLConserved
    BY DEF TypeInv, HandsFit, MySQLOwned, MySQLConserved
  <1> QED  BY TypeInvHolds, <1>1, <1>2, <1>3, PTL DEF Spec

-----------------------------------------------------------------------------
(* A settled load returns everything *)

\* The cache cannot be behind the database: no save is between its commit and its
\* write to the cache, and none has passed loads under way, or failed there, since
\* the cache was last right.
Fresh == ~suspect /\ wpc # "cache"

PastLookup(l) == Loading(l) /\ pc[l] # "lookup"

\* Then an entry is no older than the rows.
CacheFresh == cache # NoEntry => cache.money \in db .. live /\ cache.items \in db .. live

\* A key may be older than the rows, but only behind an entry that outlives it.
KeyFresh == key \in {Absent, db} \/ (cache # NoEntry /\ keyOlder /\ ~cache.short)

\* What a load has read of the rows, or taken from the key, is what the rows hold.
ObjFresh(l) ==
  /\ pc[l] \in {"setKey", "inventory", "readItems", "history", "readRecords", "backfill"}
       => obj[l].money = db
  /\ pc[l] \in {"history", "readRecords", "backfill"} => obj[l].items = db
  /\ pc[l] = "backfill" => obj[l].records = db

\* A load that has missed the entry meets no old key.
LoadFresh(l) == ObjFresh(l) /\ (PastLookup(l) => key \in {Absent, db})

FreshInv == Fresh => CacheFresh /\ KeyFresh /\ \A l \in Loaders : LoadFresh(l)

\* While a load is owed something, nothing has changed since it began; a save may
\* have begun, of flags set by a draw that an earlier save has already written.
PromiseInv ==
  \A l \in Loaders : Loading(l) /\ promised[l] # Nothing =>
    promised[l] = db /\ live = db /\ wpc # "cache" /\ ~suspect

\* A step of one load leaves the Players of the others alone, and moves on from
\* where the load is.
LEMMA LoadFrame ==
  ASSUME TypeInv, NEW l \in Loaders, Load(l)
  PROVE  /\ UNCHANGED <<live, db, wpc>>
         /\ pc' = [pc EXCEPT ![l] = pc'[l]]
         /\ obj' = [obj EXCEPT ![l] = obj'[l]]
         /\ suspect => suspect'
  <1> USE DEF TypeInv, TypeOK, Go, Fail, Set, saveVars, loaderVars, historyVars
  <1>1. CASE CacheHit(l)  BY <1>1 DEF CacheHit
  <1>2. CASE CacheMiss(l)  BY <1>2 DEF CacheMiss
  <1>3. CASE LockLoad(l)  BY <1>3 DEF LockLoad
  <1>4. CASE LoadLocked(l)  BY <1>4 DEF LoadLocked
  <1>5. CASE LockCurrency(l)  BY <1>5 DEF LockCurrency
  <1>6. CASE CurrencyLocked(l)  BY <1>6 DEF CurrencyLocked
  <1>7. CASE AcquireForMoney(l)  BY <1>7 DEF AcquireForMoney
  <1>8. CASE NoneForMoney(l)  BY <1>8 DEF NoneForMoney
  <1>9. CASE ReadMoney(l)  BY <1>9 DEF ReadMoney
  <1>10. CASE SetKey(l)  BY <1>10 DEF SetKey
  <1>11. CASE KeyFound(l)  BY <1>11 DEF KeyFound
  <1>12. CASE KeyMissing(l)  BY <1>12 DEF KeyMissing
  <1>13. CASE AcquireForFallback(l)  BY <1>13 DEF AcquireForFallback
  <1>14. CASE NoneForFallback(l)  BY <1>14 DEF NoneForFallback
  <1>15. CASE ReadFallback(l)  BY <1>15 DEF ReadFallback
  <1>16. CASE AcquireForRows(l)  BY <1>16 DEF AcquireForRows
  <1>17. CASE NoneForRows(l)  BY <1>17 DEF NoneForRows
  <1>18. CASE ReadItems(l)  BY <1>18 DEF ReadItems
  <1>19. CASE ReadRecords(l)  BY <1>19 DEF ReadRecords
  <1>20. CASE ReadFails(l)  BY <1>20 DEF ReadFails
  <1>21. CASE Backfill(l)  BY <1>21 DEF Backfill
  <1> QED
    BY <1>1, <1>2, <1>3, <1>4, <1>5, <1>6, <1>7, <1>8, <1>9, <1>10, <1>11,
       <1>12, <1>13, <1>14, <1>15, <1>16, <1>17, <1>18, <1>19, <1>20, <1>21 DEF Load

\* A step that leaves entry and key alone keeps what is fresh, if the load that
\* takes it reads fresh data.
LEMMA FreshMove ==
  ASSUME TypeInv, FreshInv, NEW l \in Loaders, Load(l), UNCHANGED <<cache, key, keyOlder>>,
         Fresh /\ Fresh' => LoadFresh(l)'
  PROVE  FreshInv'
  <1> SUFFICES ASSUME Fresh'
               PROVE  (CacheFresh /\ KeyFresh /\ \A m \in Loaders : LoadFresh(m))'
    BY DEF FreshInv
  <1>1. Fresh  BY LoadFrame DEF Fresh
  <1>2. CacheFresh' /\ KeyFresh'  BY <1>1, LoadFrame DEF FreshInv, CacheFresh, KeyFresh
  <1>3. ASSUME NEW m \in Loaders, m # l PROVE LoadFresh(m)'
    <2>1. pc'[m] = pc[m] /\ obj'[m] = obj[m]  BY <1>3, LoadFrame DEF TypeInv, TypeOK
    <2>2. LoadFresh(m)  BY <1>1 DEF FreshInv
    <2> QED  BY <2>1, <2>2, LoadFrame DEF LoadFresh, ObjFresh, PastLookup, Loading
  <1> QED  BY <1>1, <1>2, <1>3

\* Cache misses that find no entry meet no old key; reads return what the rows hold.
LEMMA FreshLoad == ASSUME TypeInv, FreshInv, NEW l \in Loaders, Load(l) PROVE FreshInv'
  <1> USE LoadingAssumption DEF TypeInv, TypeOK, LoadFresh, ObjFresh, PastLookup, Loading, Ended,
          Go, Fail, Set, saveVars, redisVars, loaderVars, historyVars
  <1>0. Fresh => CacheFresh /\ KeyFresh /\ LoadFresh(l)  BY DEF FreshInv
  <1>1. CASE CacheHit(l) \/ LockLoad(l) \/ LoadLocked(l) \/ LockCurrency(l) \/ CurrencyLocked(l)
               \/ AcquireForMoney(l) \/ NoneForMoney(l) \/ KeyMissing(l) \/ AcquireForFallback(l)
               \/ NoneForFallback(l) \/ NoneForRows(l) \/ ReadFails(l)
    <2>1. UNCHANGED <<db, cache, key, keyOlder>> /\ (PastLookup(l)' => PastLookup(l))
      BY <1>1 DEF CacheHit, LockLoad, LoadLocked, LockCurrency, CurrencyLocked,
         AcquireForMoney, NoneForMoney, KeyMissing, AcquireForFallback,
         NoneForFallback, NoneForRows, ReadFails
    <2>2. pc'[l] \in Ended \cup {"retry", "currency", "acquire", "money", "spin", "fallback",
                                 "readFallback"}
      BY <1>1 DEF CacheHit, LockLoad, LoadLocked, LockCurrency, CurrencyLocked,
         AcquireForMoney, NoneForMoney, KeyMissing, AcquireForFallback,
         NoneForFallback, NoneForRows, ReadFails
    <2>3. Fresh => LoadFresh(l)'  BY <1>0, <2>1, <2>2
    <2> QED  BY <2>1, <2>3, FreshMove
  <1>2. CASE CacheMiss(l)
    <2>1. Fresh /\ Fresh' => key \in {Absent, db}
      BY <1>0, <1>2 DEF CacheMiss, Fresh, KeyFresh
    <2>2. UNCHANGED <<db, cache, key, keyOlder>> /\ pc'[l] \in {"lock", "currency"}
      BY <1>2 DEF CacheMiss
    <2> QED  BY <2>1, <2>2, FreshMove
  <1>3. CASE ReadMoney(l)
    <2>1. UNCHANGED <<db, cache, key, keyOlder>> /\ pc'[l] = "setKey" /\ pc[l] = "money"
      BY <1>3 DEF ReadMoney
    <2>2. Fresh' => obj'[l].money = db  BY <1>3 DEF ReadMoney, Fresh
    <2> QED  BY <1>0, <2>1, <2>2, FreshMove
  <1>4. CASE KeyFound(l)
    <2>1. /\ UNCHANGED <<db, cache, key, keyOlder>> /\ pc'[l] = "inventory" /\ pc[l] = "spin"
          /\ obj'[l].money = key /\ key # Absent
      BY <1>4 DEF KeyFound
    <2> QED  BY <1>0, <2>1, FreshMove
  <1>5. CASE ReadFallback(l)
    <2>1. UNCHANGED <<db, cache, key, keyOlder>> /\ pc'[l] = "inventory" /\ pc[l] = "readFallback"
      BY <1>5 DEF ReadFallback
    <2>2. Fresh' => obj'[l].money = db  BY <1>5 DEF ReadFallback, Fresh
    <2> QED  BY <1>0, <2>1, <2>2, FreshMove
  <1>6. CASE AcquireForRows(l)
    <2>1. UNCHANGED <<db, cache, key, keyOlder, obj>>
      BY <1>6 DEF AcquireForRows
    <2>2. (pc[l] = "inventory" /\ pc'[l] = "readItems") \/ (pc[l] = "history" /\ pc'[l] = "readRecords")
      BY <1>6 DEF AcquireForRows
    <2> QED  BY <1>0, <2>1, <2>2, FreshMove
  <1>7. CASE ReadItems(l)
    <2>1. /\ UNCHANGED <<db, cache, key, keyOlder>> /\ pc'[l] = "history" /\ pc[l] = "readItems"
          /\ obj'[l].money = obj[l].money /\ obj'[l].items = db
      BY <1>7 DEF ReadItems
    <2> QED  BY <1>0, <2>1, FreshMove
  <1>8. CASE ReadRecords(l)
    <2>1. /\ UNCHANGED <<db, cache, key, keyOlder>> /\ pc'[l] = "backfill" /\ pc[l] = "readRecords"
          /\ obj'[l].money = obj[l].money /\ obj'[l].items = obj[l].items
          /\ obj'[l].records = db
      BY <1>8 DEF ReadRecords
    <2> QED  BY <1>0, <2>1, FreshMove
  <1>9. CASE SetKey(l)
    <2>1. UNCHANGED <<saveVars, cache, suspect, obj>> /\ pc[l] = "setKey" /\ pc'[l] = "inventory"
      BY <1>9 DEF SetKey
    <2>2. UNCHANGED <<key, keyOlder>> \/ key' = obj[l].money  BY <1>9 DEF SetKey
    <2>3. CASE UNCHANGED <<key, keyOlder>>  BY <1>0, <2>1, <2>3, FreshMove
    <2>4. CASE key' = obj[l].money
      <3> SUFFICES ASSUME Fresh'
                   PROVE  CacheFresh' /\ KeyFresh' /\ \A m \in Loaders : LoadFresh(m)'
        BY DEF FreshInv
      <3>1. Fresh  BY <2>1 DEF Fresh
      <3>2. key' = db  BY <1>0, <2>1, <2>4, <3>1
      <3>3. CacheFresh'  BY <1>0, <2>1, <3>1 DEF CacheFresh
      <3>4. KeyFresh'  BY <2>1, <3>2 DEF KeyFresh
      <3>5. ASSUME NEW m \in Loaders PROVE LoadFresh(m)'
        <4>1. LoadFresh(m)  BY <3>1 DEF FreshInv
        <4>2. CASE m = l  BY <1>0, <2>1, <3>1, <3>2, <4>2
        <4>3. CASE m # l
          <5>1. pc'[m] = pc[m]  BY <4>3, LoadFrame
          <5> QED  BY <2>1, <3>2, <4>1, <5>1
        <4> QED  BY <4>2, <4>3
      <3> QED  BY <3>3, <3>4, <3>5
    <2> QED  BY <2>2, <2>3, <2>4
  <1>10. CASE Backfill(l)
    <2>1. /\ UNCHANGED <<saveVars, key, suspect, obj>> /\ pc[l] = "backfill" /\ pc'[l] = "done"
      BY <1>10 DEF Backfill
    <2>2. UNCHANGED <<cache, keyOlder>>
            \/ cache' = [money |-> obj[l].money, items |-> obj[l].items, short |-> TRUE]
      BY <1>10 DEF Backfill
    <2>3. CASE UNCHANGED <<cache, keyOlder>>  BY <1>0, <2>1, <2>3, FreshMove
    <2>4. CASE cache' = [money |-> obj[l].money, items |-> obj[l].items, short |-> TRUE]
      <3> SUFFICES ASSUME Fresh'
                   PROVE  CacheFresh' /\ KeyFresh' /\ \A m \in Loaders : LoadFresh(m)'
        BY DEF FreshInv
      <3>1. Fresh  BY <2>1 DEF Fresh
      <3>2. obj[l].money = db /\ obj[l].items = db /\ key \in {Absent, db}  BY <1>0, <2>1, <3>1
      <3>3. CacheFresh'  BY <2>1, <2>4, <3>2 DEF CacheFresh
      <3>4. KeyFresh'  BY <2>1, <3>2 DEF KeyFresh
      <3>5. ASSUME NEW m \in Loaders PROVE LoadFresh(m)'
        <4>1. LoadFresh(m)  BY <3>1 DEF FreshInv
        <4>2. CASE m = l  BY <2>1, <4>2
        <4>3. CASE m # l
          <5>1. pc'[m] = pc[m]  BY <4>3, LoadFrame
          <5> QED  BY <2>1, <4>1, <5>1
        <4> QED  BY <4>2, <4>3
      <3> QED  BY <3>3, <3>4, <3>5
    <2> QED  BY <2>2, <2>3, <2>4
  <1> QED  BY <1>1, <1>2, <1>3, <1>4, <1>5, <1>6, <1>7, <1>8, <1>9, <1>10 DEF Load

\* A save that passes no load makes the cache right again; time makes nothing older.
LEMMA FreshOther ==
  ASSUME TypeInv, FreshInv, (\E l \in Loaders : BeginLoad(l)) \/ Draw \/ Save
                              \/ ExpireLocks \/ ExpireKey \/ ExpireCache \/ UNCHANGED vars
  PROVE  FreshInv'
  <1> USE LoadingAssumption DEF TypeInv, TypeOK, LoadFresh, ObjFresh, PastLookup, Loading, Ended,
          GoW, saveVars, redisVars, loaderVars, historyVars
  <1> SUFFICES ASSUME Fresh'
               PROVE  CacheFresh' /\ KeyFresh' /\ \A m \in Loaders : LoadFresh(m)'
    BY DEF FreshInv
  <1>1. CASE \E l \in Loaders : BeginLoad(l)
    <2>1. PICK l \in Loaders : BeginLoad(l)  BY <1>1
    <2>2. /\ UNCHANGED <<saveVars, redisVars, suspect>> /\ pc'[l] = "lookup"
          /\ \A m \in Loaders \ {l} : pc'[m] = pc[m] /\ obj'[m] = obj[m]
      BY <2>1 DEF BeginLoad
    <2>3. CacheFresh /\ KeyFresh /\ \A m \in Loaders : LoadFresh(m)
      BY <2>2 DEF Fresh, FreshInv
    <2>4. CacheFresh' /\ KeyFresh'  BY <2>2, <2>3 DEF CacheFresh, KeyFresh
    <2>5. \A m \in Loaders : LoadFresh(m)'  BY <2>2, <2>3
    <2> QED  BY <2>4, <2>5
  <1>2. CASE Draw
    <2>1. UNCHANGED <<db, wpc, redisVars, loaderVars, suspect>> /\ live' = live + 1
      BY <1>2 DEF Draw
    <2>2. CacheFresh /\ KeyFresh /\ \A m \in Loaders : LoadFresh(m)
      BY <2>1 DEF Fresh, FreshInv
    <2> QED  BY <2>1, <2>2 DEF CacheFresh, KeyFresh
  <1>3. CASE TakeFlags \/ AcquireForSave \/ NoneForSave \/ SaveFails
    <2>1. UNCHANGED <<db, live, redisVars, loaderVars, suspect>> /\ wpc # "cache"
      BY <1>3 DEF TakeFlags, AcquireForSave, NoneForSave, SaveFails, Fresh
    <2>2. CacheFresh /\ KeyFresh /\ \A m \in Loaders : LoadFresh(m)
      BY <2>1 DEF Fresh, FreshInv
    <2> QED  BY <2>1, <2>2 DEF CacheFresh, KeyFresh
  <1>4. CASE Commit  BY <1>4 DEF Commit, Fresh
  <1>5. CASE WriteCache
    <2>1. /\ cache' = [money |-> live, items |-> live, short |-> FALSE]
          /\ keyOlder' = (key # Absent)
          /\ suspect' = (\E l \in Loaders : Loading(l))
      BY <1>5 DEF WriteCache, Fresh
    <2>2. UNCHANGED <<live, db, key, loaderVars>>  BY <1>5 DEF WriteCache
    <2>3. \A m \in Loaders : ~Loading(m)  BY <2>1 DEF Fresh
    <2>4. CacheFresh'  BY <2>1, <2>2 DEF CacheFresh
    <2>5. cache' # NoEntry
      <3>1. live # Nothing  BY DEF Nothing
      <3> QED  BY <2>1, <3>1 DEF NoEntry
    <2>6. KeyFresh'
      <3>1. CASE key = Absent  BY <2>2, <3>1 DEF KeyFresh
      <3>2. CASE key # Absent  BY <2>1, <2>5, <3>2 DEF KeyFresh
      <3> QED  BY <3>1, <3>2
    <2>7. \A m \in Loaders : LoadFresh(m)'  BY <2>2, <2>3
    <2> QED  BY <2>4, <2>6, <2>7
  <1>6. CASE ExpireLocks \/ UNCHANGED vars
    <2>1. UNCHANGED <<saveVars, cache, key, keyOlder, pc, obj, suspect>>
      BY <1>6 DEF ExpireLocks, vars
    <2>2. CacheFresh /\ KeyFresh /\ \A m \in Loaders : LoadFresh(m)
      BY <2>1 DEF Fresh, FreshInv
    <2> QED  BY <2>1, <2>2 DEF CacheFresh, KeyFresh
  <1>7. CASE ExpireKey
    <2>1. UNCHANGED <<saveVars, cache, loaderVars, suspect>> /\ key' = Absent
      BY <1>7 DEF ExpireKey
    <2>2. CacheFresh /\ \A m \in Loaders : LoadFresh(m)
      BY <2>1 DEF Fresh, FreshInv
    <2> QED  BY <2>1, <2>2 DEF CacheFresh, KeyFresh
  <1>8. CASE ExpireCache
    <2>1. UNCHANGED <<saveVars, key, loaderVars, suspect>> /\ cache' = NoEntry
            /\ (cache.short \/ ~keyOlder)
      BY <1>8 DEF ExpireCache
    <2>2. KeyFresh /\ \A m \in Loaders : LoadFresh(m)
      BY <2>1 DEF Fresh, FreshInv
    <2> QED  BY <2>1, <2>2 DEF CacheFresh, KeyFresh
  <1> QED  BY <1>1, <1>2, <1>3, <1>4, <1>5, <1>6, <1>7, <1>8 DEF Save

\* Only a load that is under way takes a step.
LEMMA LoadGoes == ASSUME NEW l \in Loaders, Load(l) PROVE Loading(l)
  BY DEF Load, CacheHit, CacheMiss, LockLoad, LoadLocked, LockCurrency, CurrencyLocked,
     AcquireForMoney, NoneForMoney, ReadMoney, SetKey, KeyFound, KeyMissing,
     AcquireForFallback, NoneForFallback, ReadFallback, AcquireForRows, NoneForRows,
     ReadItems, ReadRecords, ReadFails, Backfill, Fail, Go, Loading, Ended

\* What a load is owed it keeps only while nothing changes.
LEMMA PromiseStep == ASSUME TypeInv, PromiseInv, [Next]_vars PROVE PromiseInv'
  <1> USE DEF TypeInv, TypeOK, PromiseInv, Loading, saveVars, redisVars, loaderVars, historyVars
  <1>1. CASE \E l \in Loaders : Load(l)
    <2>1. PICK l \in Loaders : Load(l)  BY <1>1
    <2>2. /\ Loading(l) /\ \A m \in Loaders \ {l} : pc'[m] = pc[m]
          /\ UNCHANGED <<live, db, wpc>>
      BY <2>1, LoadFrame, LoadGoes
    <2>3. \/ UNCHANGED <<suspect, promised>>
          \/ Release
          \/ UNCHANGED suspect /\ promised' = [promised EXCEPT ![l] = Nothing]
      BY <2>1 DEF Load, CacheHit, CacheMiss, LockLoad, LoadLocked, LockCurrency, CurrencyLocked,
         AcquireForMoney, NoneForMoney, ReadMoney, SetKey, KeyFound, KeyMissing,
         AcquireForFallback, NoneForFallback, ReadFallback, AcquireForRows, NoneForRows,
         ReadItems, ReadRecords, ReadFails, Backfill, Fail
    <2>4. \A m \in Loaders : Loading(m)' => Loading(m)  BY <2>2
    <2>5. CASE UNCHANGED <<suspect, promised>>  BY <2>2, <2>4, <2>5
    <2>6. CASE Release  BY <2>4, <2>6 DEF Release
    <2>7. CASE UNCHANGED suspect /\ promised' = [promised EXCEPT ![l] = Nothing]
      BY <2>2, <2>4, <2>7
    <2> QED  BY <2>3, <2>5, <2>6, <2>7
  <1>2. CASE \E l \in Loaders : BeginLoad(l)
    <2>1. PICK l \in Loaders : BeginLoad(l)  BY <1>2
    <2>2. /\ UNCHANGED <<live, db, wpc, suspect>>
          /\ pc' = [pc EXCEPT ![l] = "lookup"] /\ Promise(l)
      BY <2>1 DEF BeginLoad
    <2> QED  BY <2>2 DEF Promise
  <1>3. CASE Draw  BY <1>3 DEF Draw, Release
  <1>4. CASE TakeFlags \/ AcquireForSave \/ NoneForSave
    BY <1>4 DEF TakeFlags, AcquireForSave, NoneForSave, GoW
  <1>5. CASE SaveFails
    <2>1. UNCHANGED <<live, loaderVars>> /\ wpc' = "idle"  BY <1>5 DEF SaveFails, GoW
    <2>2. CASE UNCHANGED <<db, historyVars>>  BY <2>1, <2>2
    <2>3. CASE Release  BY <2>1, <2>3 DEF Release
    <2> QED  BY <1>5, <2>2, <2>3 DEF SaveFails
  <1>6. CASE Commit  BY <1>6 DEF Commit, Release
  <1>7. CASE WriteCache
    <2>1. wpc = "cache" /\ UNCHANGED <<loaderVars>> /\ (UNCHANGED promised \/ Release)
      BY <1>7 DEF WriteCache, GoW
    <2> QED  BY <2>1 DEF Release
  <1>8. CASE ExpireLocks \/ ExpireKey \/ ExpireCache \/ UNCHANGED vars
    BY <1>8 DEF ExpireLocks, ExpireKey, ExpireCache, vars
  <1> QED  BY <1>1, <1>2, <1>3, <1>4, <1>5, <1>6, <1>7, <1>8 DEF Next, Save

\* A load that ends finds, in an entry or in the rows, what it is owed; afterwards
\* its Player and its promise do not change.
LEMMA SettledStep ==
  ASSUME TypeInv, FreshInv, PromiseInv, SettledLoadIsComplete, [Next]_vars
  PROVE  SettledLoadIsComplete'
  <1> USE DEF TypeInv, TypeOK, saveVars, redisVars, loaderVars, historyVars
  <1> DEFINE Complete(l) == pc[l] \in {"done", "cached"} /\ promised[l] # Nothing =>
               /\ obj[l].money = promised[l] /\ obj[l].items = promised[l]
               /\ pc[l] = "done" => obj[l].records = promised[l]
  <1>1. \A l \in Loaders : Complete(l)  BY DEF SettledLoadIsComplete
  <1> SUFFICES ASSUME NEW m \in Loaders PROVE Complete(m)'  BY DEF SettledLoadIsComplete
  <1>2. CASE /\ pc'[m] = pc[m] /\ obj'[m] = obj[m]
             /\ pc[m] \in {"done", "cached"} => promised'[m] = promised[m]
    BY <1>1, <1>2
  <1>3. CASE Load(m)
    <2>1. Loading(m)  BY <1>3, LoadGoes
    <2>2. CASE CacheHit(m)
      <3>1. /\ cache # NoEntry /\ pc'[m] = "cached" /\ UNCHANGED promised
            /\ obj'[m] = [money |-> cache.money, items |-> cache.items, records |-> Nothing]
        BY <2>2 DEF CacheHit, Go
      <3>2. ASSUME promised[m] # Nothing
            PROVE  cache.money = promised[m] /\ cache.items = promised[m]
        <4>1. promised[m] = db /\ live = db /\ Fresh  BY <2>1, <3>2 DEF PromiseInv, Fresh
        <4> QED  BY <3>1, <4>1 DEF FreshInv, CacheFresh
      <3> QED  BY <3>1, <3>2
    <2>3. CASE Backfill(m)
      <3>1. pc[m] = "backfill" /\ UNCHANGED <<obj, promised>>  BY <2>3 DEF Backfill, Go
      <3>2. ASSUME promised[m] # Nothing
            PROVE  /\ obj[m].money = promised[m] /\ obj[m].items = promised[m]
                   /\ obj[m].records = promised[m]
        <4>1. promised[m] = db /\ Fresh  BY <2>1, <3>2 DEF PromiseInv, Fresh
        <4> QED  BY <3>1, <4>1 DEF FreshInv, LoadFresh, ObjFresh
      <3> QED  BY <3>1, <3>2
    <2>4. CASE ~CacheHit(m) /\ ~Backfill(m)
      <3>1. pc'[m] \notin {"done", "cached"}
        BY <1>3, <2>4 DEF Load, CacheMiss, LockLoad, LoadLocked, LockCurrency, CurrencyLocked,
           AcquireForMoney, NoneForMoney, ReadMoney, SetKey, KeyFound, KeyMissing,
           AcquireForFallback, NoneForFallback, ReadFallback, AcquireForRows, NoneForRows,
           ReadItems, ReadRecords, ReadFails, Fail, Go
      <3> QED  BY <3>1
    <2> QED  BY <2>2, <2>3, <2>4
  <1>4. CASE \E l \in Loaders : l # m /\ Load(l)
    <2>1. PICK l \in Loaders : l # m /\ Load(l)  BY <1>4
    <2>2. pc'[m] = pc[m] /\ obj'[m] = obj[m]  BY <2>1, LoadFrame
    <2>3. \/ UNCHANGED promised
          \/ Release
          \/ promised' = [promised EXCEPT ![l] = Nothing]
      BY <2>1 DEF Load, CacheHit, CacheMiss, LockLoad, LoadLocked, LockCurrency, CurrencyLocked,
         AcquireForMoney, NoneForMoney, ReadMoney, SetKey, KeyFound, KeyMissing,
         AcquireForFallback, NoneForFallback, ReadFallback, AcquireForRows, NoneForRows,
         ReadItems, ReadRecords, ReadFails, Backfill, Fail
    <2>4. pc[m] \in {"done", "cached"} => promised'[m] = promised[m]
      BY <2>1, <2>3 DEF Release, Loading, Ended
    <2> QED  BY <1>2, <2>2, <2>4
  <1>5. CASE \E l \in Loaders : BeginLoad(l)
    <2>1. PICK l \in Loaders : BeginLoad(l)  BY <1>5
    <2>2. CASE l = m  BY <2>1, <2>2 DEF BeginLoad
    <2>3. CASE l # m
      <3>1. pc'[m] = pc[m] /\ obj'[m] = obj[m] /\ promised'[m] = promised[m]
        BY <2>1, <2>3 DEF BeginLoad, Promise
      <3> QED  BY <1>2, <3>1
    <2> QED  BY <2>2, <2>3
  <1>6. CASE Draw \/ Save \/ ExpireLocks \/ ExpireKey \/ ExpireCache \/ UNCHANGED vars
    <2>1. UNCHANGED <<pc, obj>> /\ (UNCHANGED promised \/ Release)
      BY <1>6 DEF Draw, Save, TakeFlags, AcquireForSave, NoneForSave, Commit, SaveFails,
         WriteCache, ExpireLocks,
         ExpireKey, ExpireCache, vars
    <2>2. pc[m] \in {"done", "cached"} => promised'[m] = promised[m]
      BY <2>1 DEF Release, Loading, Ended
    <2> QED  BY <1>2, <2>1, <2>2
  <1> QED  BY <1>3, <1>4, <1>5, <1>6 DEF Next

\* A load that begins when everything is saved, and during which there is no draw, save
\* or failed balance query, GET or cache write, returns the player's whole progress,
\* provided that the last save that wrote the cache while nobody was loading was followed
\* by none that wrote it during a load and by no such failure.  Other logins may load at
\* the same time, locks, key and entry may expire, and everything else may fail.
THEOREM SettledLoadHolds == Spec => []SettledLoadIsComplete
  <1>1. Init => FreshInv
    BY DEF Init, FreshInv, CacheFresh, KeyFresh, LoadFresh, ObjFresh, PastLookup, Loading, Ended
  <1>2. Init => PromiseInv  BY DEF Init, PromiseInv
  <1>3. Init => SettledLoadIsComplete  BY DEF Init, SettledLoadIsComplete
  <1>4. TypeInv /\ FreshInv /\ [Next]_vars => FreshInv'  BY FreshLoad, FreshOther DEF Next
  <1>5. TypeInv /\ PromiseInv /\ [Next]_vars => PromiseInv'  BY PromiseStep
  <1>6. TypeInv /\ FreshInv /\ PromiseInv /\ SettledLoadIsComplete /\ [Next]_vars
          => SettledLoadIsComplete'
    BY SettledStep
  <1> QED  BY TypeInvHolds, <1>1, <1>2, <1>3, <1>4, <1>5, <1>6, PTL DEF Spec

-----------------------------------------------------------------------------
(* A load does not go in a circle, and loads do not wait for each other *)

\* How many steps a load still has at most.
LoadRank(l) ==
  CASE pc[l] \in Ended -> 0
    [] pc[l] = "backfill" -> 1
    [] pc[l] = "readRecords" -> 2
    [] pc[l] = "history" -> 3
    [] pc[l] = "readItems" -> 4
    [] pc[l] = "inventory" -> 5
    [] pc[l] \in {"readFallback", "setKey"} -> 6
    [] pc[l] \in {"fallback", "money"} -> 7
    [] pc[l] = "acquire" -> 8
    [] pc[l] = "spin" -> 8 + MaxSpins - spins[l]
    [] pc[l] = "currency" -> 9 + MaxSpins
    [] pc[l] = "retry" -> 10 + MaxSpins
    [] pc[l] = "lock" -> 11 + MaxSpins
    [] pc[l] = "lookup" -> 12 + MaxSpins

LoadAdvances(l) ==
  /\ LoadRank(l) \in Nat
  /\ Load(l) => LoadRank(l)' < LoadRank(l)
  /\ ~Load(l) /\ Loading(l) => LoadRank(l)' = LoadRank(l)
LoadsAdvance == [][\A l \in Loaders : LoadAdvances(l)]_vars

\* Only its own steps move a load.
LEMMA OthersLeaveLoad ==
  ASSUME TypeOK, [Next]_vars, NEW l \in Loaders, ~Load(l), Loading(l)
  PROVE  pc'[l] = pc[l] /\ spins'[l] = spins[l]
  <1> USE DEF TypeOK, Go, Fail, GoW, Loading, saveVars, redisVars, poolVars, loaderVars, historyVars
  <1>1. ASSUME NEW m \in Loaders, BeginLoad(m) PROVE pc'[l] = pc[l] /\ spins'[l] = spins[l]
    BY <1>1 DEF BeginLoad
  <1>2. ASSUME NEW m \in Loaders, Load(m) PROVE pc'[l] = pc[l] /\ spins'[l] = spins[l]
    <2>1. m # l  BY <1>2
    <2>2. \/ pc' = [pc EXCEPT ![m] = pc'[m]]
          \/ UNCHANGED pc
      BY <1>2 DEF Load, CacheHit, CacheMiss, LockLoad, LoadLocked, LockCurrency, CurrencyLocked,
         AcquireForMoney, NoneForMoney, ReadMoney, SetKey, KeyFound, KeyMissing,
         AcquireForFallback, NoneForFallback, ReadFallback, AcquireForRows, NoneForRows, ReadItems,
         ReadRecords, ReadFails, Backfill
    <2>3. \/ UNCHANGED spins
          \/ \E s : spins' = [spins EXCEPT ![m] = s]
      BY <1>2 DEF Load, CacheHit, CacheMiss, LockLoad, LoadLocked, LockCurrency, CurrencyLocked,
         AcquireForMoney, NoneForMoney, ReadMoney, SetKey, KeyFound, KeyMissing,
         AcquireForFallback, NoneForFallback, ReadFallback, AcquireForRows, NoneForRows, ReadItems,
         ReadRecords, ReadFails, Backfill
    <2> QED  BY <2>1, <2>2, <2>3
  <1>3. CASE Draw  BY <1>3 DEF Draw
  <1>4. CASE Save  BY <1>4 DEF Save, TakeFlags, AcquireForSave, NoneForSave, Commit, SaveFails,
         WriteCache
  <1>5. CASE ExpireLocks \/ ExpireKey \/ ExpireCache
    BY <1>5 DEF ExpireLocks, ExpireKey, ExpireCache
  <1>6. CASE UNCHANGED vars  BY <1>6 DEF vars
  <1> QED  BY <1>1, <1>2, <1>3, <1>4, <1>5, <1>6 DEF Next

\* A step of a load brings it nearer to its end, and only such a step moves it.
LEMMA LoadAdvanceStep ==
  ASSUME TypeOK, [Next]_vars, NEW l \in Loaders
  PROVE  LoadAdvances(l)
  <1> USE LoadingAssumption DEF TypeOK, LoadRank, Ended, Go, Fail
  <1>1. MaxSpins \in Nat /\ spins[l] \in 0 .. MaxSpins  OBVIOUS
  <1>2. LoadRank(l) \in Nat  BY <1>1
  <1>3. ASSUME Load(l) PROVE LoadRank(l)' < LoadRank(l)
    <2>1. CASE CacheHit(l)  BY <1>1, <2>1 DEF CacheHit
    <2>2. CASE CacheMiss(l)  BY <1>1, <2>2 DEF CacheMiss
    <2>3. CASE LockLoad(l)  BY <1>1, <2>3 DEF LockLoad
    <2>4. CASE LoadLocked(l)  BY <1>1, <2>4 DEF LoadLocked
    <2>5. CASE LockCurrency(l)  BY <1>1, <2>5 DEF LockCurrency
    <2>6. CASE CurrencyLocked(l)  BY <1>1, <2>6 DEF CurrencyLocked
    <2>7. CASE AcquireForMoney(l)  BY <2>7 DEF AcquireForMoney
    <2>8. CASE NoneForMoney(l)  BY <2>8 DEF NoneForMoney
    <2>9. CASE ReadMoney(l)  BY <2>9 DEF ReadMoney
    <2>10. CASE SetKey(l)  BY <2>10 DEF SetKey
    <2>11. CASE KeyFound(l)  BY <1>1, <2>11 DEF KeyFound
    <2>12. CASE KeyMissing(l)  BY <1>1, <2>12 DEF KeyMissing
    <2>13. CASE AcquireForFallback(l)  BY <2>13 DEF AcquireForFallback
    <2>14. CASE NoneForFallback(l)  BY <2>14 DEF NoneForFallback
    <2>15. CASE ReadFallback(l)  BY <2>15 DEF ReadFallback
    <2>16. CASE AcquireForRows(l)  BY <2>16 DEF AcquireForRows
    <2>17. CASE NoneForRows(l)  BY <2>17 DEF NoneForRows
    <2>18. CASE ReadItems(l)  BY <2>18 DEF ReadItems
    <2>19. CASE ReadRecords(l)  BY <2>19 DEF ReadRecords
    <2>20. CASE ReadFails(l)  BY <2>20 DEF ReadFails
    <2>21. CASE Backfill(l)  BY <2>21 DEF Backfill
    <2> QED
      BY <1>3, <2>1, <2>2, <2>3, <2>4, <2>5, <2>6, <2>7, <2>8, <2>9, <2>10, <2>11,
         <2>12, <2>13, <2>14, <2>15, <2>16, <2>17, <2>18, <2>19, <2>20, <2>21 DEF Load
  <1>4. ASSUME ~Load(l), Loading(l) PROVE LoadRank(l)' = LoadRank(l)
    <2>1. pc'[l] = pc[l] /\ spins'[l] = spins[l]  BY <1>4, OthersLeaveLoad
    <2> QED  BY <2>1
  <1> QED  BY <1>2, <1>3, <1>4 DEF LoadAdvances

\* Whatever the locks, keys, connections and other loads do, a load takes at most
\* 12 + MaxSpins steps: each ends it or brings it nearer to its end.
THEOREM LoadsGoOn == Spec => LoadsAdvance
  <1>1. TypeOK /\ [Next]_vars => [\A l \in Loaders : LoadAdvances(l)]_vars  BY LoadAdvanceStep
  <1> QED  BY TypeCorrect, <1>1, PTL DEF Spec, LoadsAdvance

\* Who waits for a Redis connection, with no time limit.
WaitsForRedis(u) ==
  IF u = Worker THEN wpc = "cache"
  ELSE pc[u] \in {"lookup", "retry", "lock", "currency", "spin", "backfill"}

\* When no Redis connection is free, a load has one that does not wait for another, and
\* that waits for MySQL, if at all, with a time limit: the waits form no circle, though
\* loads wait for MySQL with a Redis connection and the worker for Redis with a MySQL one.
NoCircle ==
  freeRedis = {} =>
    \E l \in Loaders : HasRedis(l) /\ ~WaitsForRedis(l) /\ (pc[l] = "acquire" \/ HasMySQL(l))

\* Loads and saves never all wait for each other (PlayerLoader.cpp:97,
\* SavePlayerTask.cpp:33).
THEOREM WaitsEnd == Spec => []NoCircle
  <1>1. RedisConserved => NoCircle
    <2> SUFFICES ASSUME RedisConserved, freeRedis = {} PROVE NoCircle  BY DEF NoCircle
    <2>1. PICK c \in RedisConns : TRUE  BY LoadingAssumption
    <2>2. PICK l \in Loaders : redis[l] = c  BY <2>1 DEF RedisConserved
    <2>3. HasRedis(l) /\ l # Worker
      BY <2>1, <2>2, LoadingAssumption DEF RedisConserved
    <2> QED  BY <2>3 DEF NoCircle, HasRedis, HasMySQL, WaitsForRedis
  <1> QED  BY <1>1, RedisKept, PTL
=============================================================================
