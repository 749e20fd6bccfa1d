---------------------------- MODULE PlayerLoading ----------------------------
(* How a login gets a player's progress: PlayerLoader over the Redis entry of  *)
(* PlayerCache, the two short Redis locks, the fine-grained balance key and    *)
(* MySQL, with the connection pools of both.  Several logins of one player     *)
(* load at once on the database thread pool, while the shard's database worker *)
(* saves the Player that is in memory and writes it to the cache.              *)
(* Progress is a version: each draw makes the next one, and money, items and   *)
(* records of a version belong together.                                       *)
EXTENDS Integers, FiniteSets

CONSTANTS Loaders,      \* threads that carry out logins
          RedisConns,   \* the connections of RedisPool
          MySQLConns,   \* the connections of MySQLConnectionPool
          MaxSpins,     \* how often LoadCurrency looks for the key (5)
          MaxDraws,     \* bound: draws in a run
          MaxLoads,     \* bound: logins in a run
          MaxFaults,    \* bound: commands, queries and reconnections that fail
          Worker, None  \* the database worker; no connection

ASSUME LoadingAssumption ==
  /\ RedisConns # {} /\ MySQLConns # {} /\ IsFiniteSet(MySQLConns) /\ IsFiniteSet(Loaders)
  /\ {MaxSpins, MaxDraws, MaxLoads, MaxFaults} \subseteq Nat
  /\ Worker \notin Loaders /\ None \notin RedisConns \cup MySQLConns

Users == Loaders \cup {Worker}
Nothing == -1                            \* what a new Player holds of a part, 0 for a balance
Absent == -2                             \* no key
Versions == Nothing .. MaxDraws
NewPlayer == [money |-> Nothing, items |-> Nothing, records |-> Nothing]
NoEntry == [money |-> Nothing, items |-> Nothing, short |-> FALSE]

VARIABLES
  live, db,                 \* versions of the Player in memory and of the committed rows
  dirty,                    \* is the Player in memory marked?
  cache,                    \* the Redis entry of the player; short: it lives 300 s, not 3600 s
  loadLock, curLock,        \* the locks of Load and LoadCurrency, each for 3 s
  key, keyOlder,            \* the balance key; was it set before the cache entry?
  freeRedis, freeMySQL,     \* what the pools hold
  redis, mysql,             \* the connection that a user has
  pc, obj, spins,           \* each loader: where it is, the new Player, looks at the key
  wpc,                      \* the player's save: where it is
  loads, faults,            \* logins and failures so far
  suspect, promised,        \* history: may the cache be behind, see Promise; the version
                            \* that a load has to find
  forgotten                 \* history: a save has failed, and nothing was marked since

redisVars == <<cache, loadLock, curLock, key, keyOlder>>
poolVars == <<freeRedis, freeMySQL, redis, mysql>>
loaderVars == <<pc, obj, spins, loads>>
historyVars == <<suspect, promised>>
saveVars == <<live, db, dirty, wpc, forgotten>>
vars == <<saveVars, redisVars, poolVars, loaderVars, historyVars, faults>>

Init ==
  /\ live = 0 /\ db = 0 /\ dirty = FALSE /\ wpc = "idle" /\ forgotten = FALSE
  /\ cache = NoEntry /\ loadLock = FALSE /\ curLock = FALSE /\ key = Absent /\ keyOlder = FALSE
  /\ freeRedis = RedisConns /\ freeMySQL = MySQLConns
  /\ redis = [l \in Loaders |-> None] /\ mysql = [u \in Users |-> None]
  /\ pc = [l \in Loaders |-> "idle"] /\ spins = [l \in Loaders |-> 0]
  /\ obj = [l \in Loaders |-> NewPlayer]
  /\ loads = 0 /\ faults = 0
  /\ suspect = FALSE /\ promised = [l \in Loaders |-> Nothing]

Ended == {"idle", "done", "cached", "failed", "crashed"}
Loading(l) == pc[l] \notin Ended
Crashed == \E l \in Loaders : pc[l] = "crashed"   \* the server process has ended
Go(l, from, to) == ~Crashed /\ pc[l] = from /\ pc' = [pc EXCEPT ![l] = to]
GoW(from, to) == ~Crashed /\ wpc = from /\ wpc' = to
\* A load that fails: its new Player is dropped.
Fail(l, from) == /\ Go(l, from, "failed") /\ obj' = [obj EXCEPT ![l] = NewPlayer]
                 /\ promised' = [promised EXCEPT ![l] = Nothing]
Fault == faults < MaxFaults /\ faults' = faults + 1
Set(l, part, version) == obj' = [obj EXCEPT ![l][part] = version]

\* What a load owes its player: all of it, when all is saved as it begins and
\* nothing changes before it ends.
Promise(l) == promised' = [promised EXCEPT ![l] =
                IF live = db /\ wpc = "idle" /\ ~suspect THEN db ELSE Nothing]
Release == promised' = [l \in Loaders |-> IF Loading(l) THEN Nothing ELSE promised[l]]

-----------------------------------------------------------------------------
(* The pools *)

\* RedisPool::Acquire waits until there is a connection; a command between
\* Acquire and Release, with no other wait, needs one to be free.
RedisFree == freeRedis # {}

TakeRedis(l) == \E c \in freeRedis :
  freeRedis' = freeRedis \ {c} /\ redis' = [redis EXCEPT ![l] = c]

GiveRedis(l) == freeRedis' = freeRedis \cup {redis[l]} /\ redis' = [redis EXCEPT ![l] = None]

\* MySQLConnectionPool::Acquire finds a connection that answers.
TakeMySQL(u) == \E c \in freeMySQL :
  freeMySQL' = freeMySQL \ {c} /\ mysql' = [mysql EXCEPT ![u] = c]

GiveMySQL(u) == freeMySQL' = freeMySQL \cup {mysql[u]} /\ mysql' = [mysql EXCEPT ![u] = None]

\* Acquire returns nullptr: after 3 s without a connection, or because the one
\* it found is dead and cannot be opened again, which discards it.
NoMySQL ==
  \/ freeMySQL = {} /\ UNCHANGED <<freeMySQL, faults>>
  \/ Fault /\ \E c \in freeMySQL : freeMySQL' = freeMySQL \ {c}

-----------------------------------------------------------------------------
(* PlayerLoader::Load *)

BeginLoad(l) ==
  /\ ~Crashed /\ pc[l] \in Ended /\ loads < MaxLoads
  /\ loads' = loads + 1
  /\ pc' = [pc EXCEPT ![l] = "lookup"]
  /\ obj' = [obj EXCEPT ![l] = NewPlayer]
  /\ Promise(l)
  /\ UNCHANGED <<saveVars, redisVars, poolVars, spins, faults, suspect>>

\* PlayerCache::Load finds the entry, which holds no records.
CacheHit(l) ==
  /\ RedisFree /\ cache # NoEntry
  /\ Go(l, "lookup", "cached") \/ Go(l, "retry", "cached")
  /\ obj' = [obj EXCEPT ![l] = [money |-> cache.money, items |-> cache.items, records |-> Nothing]]
  /\ UNCHANGED <<saveVars, redisVars, poolVars, spins, loads, historyVars, faults>>

\* There is no entry, or GET fails: then an old balance key may still be there.
CacheMiss(l) ==
  /\ RedisFree
  /\ Go(l, "lookup", "lock") \/ Go(l, "retry", "currency")
  /\ \/ cache = NoEntry /\ UNCHANGED <<historyVars, faults>>
     \/ cache # NoEntry /\ Fault /\ suspect' = TRUE /\ Release
  /\ UNCHANGED <<saveVars, redisVars, poolVars, obj, spins, loads>>

\* SETNX of lock:player:load, which nobody deletes.
LockLoad(l) ==
  /\ RedisFree /\ ~loadLock
  /\ Go(l, "lock", "currency")
  /\ loadLock' = TRUE
  /\ UNCHANGED <<saveVars, cache, curLock, key, keyOlder, poolVars, obj, spins, loads,
                 historyVars, faults>>

\* Somebody else loads, or SETNX fails, be it done or not: wait 50 ms, look again.
LoadLocked(l) ==
  /\ RedisFree
  /\ \/ loadLock /\ UNCHANGED <<loadLock, faults>>
     \/ ~loadLock /\ Fault /\ loadLock' \in BOOLEAN
  /\ Go(l, "lock", "retry")
  /\ UNCHANGED <<saveVars, cache, curLock, key, keyOlder, poolVars, obj, spins, loads, historyVars>>

-----------------------------------------------------------------------------
(* LoadCurrency *)

\* SETNX of the key's lock; the Redis connection is kept.
LockCurrency(l) ==
  /\ ~curLock /\ curLock' = TRUE
  /\ Go(l, "currency", "acquire") /\ TakeRedis(l)
  /\ UNCHANGED <<saveVars, cache, loadLock, key, keyOlder, freeMySQL, mysql, obj, spins, loads,
                 historyVars, faults>>

CurrencyLocked(l) ==
  /\ RedisFree
  /\ \/ curLock /\ UNCHANGED <<curLock, faults>>
     \/ ~curLock /\ Fault /\ curLock' \in BOOLEAN
  /\ Go(l, "currency", "spin")
  /\ UNCHANGED <<saveVars, cache, loadLock, key, keyOlder, poolVars, obj, spins, loads, historyVars>>

\* A MySQL connection while the Redis connection is held.
AcquireForMoney(l) ==
  /\ Go(l, "acquire", "money") /\ TakeMySQL(l)
  /\ UNCHANGED <<saveVars, redisVars, freeRedis, redis, obj, spins, loads, historyVars, faults>>

\* Mutant: the early return forgets the Redis connection.
NoneForMoney_Leaks(l) ==
  /\ Fail(l, "acquire") /\ NoMySQL
  /\ UNCHANGED <<saveVars, redisVars, mysql, freeRedis, redis, spins, loads, suspect>>

\* Mutant: the acquisition has no timeout.
NoneForMoney_Waits(l) ==
  /\ Fail(l, "acquire") /\ freeMySQL # {} /\ NoMySQL /\ GiveRedis(l)
  /\ UNCHANGED <<saveVars, redisVars, mysql, spins, loads, suspect>>

\* None: the Redis connection is given back and the login fails.
NoneForMoney(l) ==
  /\ Fail(l, "acquire") /\ NoMySQL /\ GiveRedis(l)
  /\ UNCHANGED <<saveVars, redisVars, mysql, spins, loads, suspect>>

\* The balance is read; a query that fails counts as no money.
ReadMoney(l) ==
  /\ Go(l, "money", "setKey")
  /\ \/ Set(l, "money", db) /\ UNCHANGED <<faults, historyVars>>
     \/ Fault /\ Set(l, "money", Nothing) /\ suspect' = TRUE /\ Release
  /\ UNCHANGED <<saveVars, redisVars, poolVars, spins, loads>>

\* SET of the key, for an hour: to 0 when the query has failed; both connections go
\* back.
SetKey(l) ==
  /\ Go(l, "setKey", "inventory") /\ GiveRedis(l) /\ GiveMySQL(l)
  /\ \/ key' = obj[l].money /\ keyOlder' = FALSE /\ UNCHANGED faults
     \/ Fault /\ UNCHANGED <<key, keyOlder>>
  /\ UNCHANGED <<saveVars, cache, loadLock, curLock, obj, spins, loads, historyVars>>

\* Another login has the lock: whatever the key holds is taken for its result.
KeyFound(l) ==
  /\ RedisFree /\ key # Absent
  /\ Go(l, "spin", "inventory")
  /\ Set(l, "money", key) /\ spins' = [spins EXCEPT ![l] = 0]
  /\ UNCHANGED <<saveVars, redisVars, poolVars, loads, historyVars, faults>>

KeyMissing(l) ==
  /\ RedisFree
  /\ \/ key = Absent /\ UNCHANGED faults
     \/ key # Absent /\ Fault
  /\ \/ Go(l, "spin", "spin") /\ spins[l] + 1 < MaxSpins /\ spins' = [spins EXCEPT ![l] = @ + 1]
     \/ Go(l, "spin", "fallback") /\ spins[l] + 1 >= MaxSpins /\ spins' = [spins EXCEPT ![l] = 0]
  /\ UNCHANGED <<saveVars, redisVars, poolVars, obj, loads, historyVars>>

AcquireForFallback(l) ==
  /\ Go(l, "fallback", "readFallback") /\ TakeMySQL(l)
  /\ UNCHANGED <<saveVars, redisVars, freeRedis, redis, obj, spins, loads, historyVars, faults>>

\* The null pointer is used without a look: the process ends.
NoneForFallback(l) ==
  /\ Go(l, "fallback", "crashed") /\ NoMySQL
  /\ UNCHANGED <<saveVars, redisVars, freeRedis, redis, mysql, obj, spins, loads, historyVars>>

\* The query of the fallback; when it fails the new Player's 0 stays.
ReadFallback(l) ==
  /\ Go(l, "readFallback", "inventory") /\ GiveMySQL(l)
  /\ \/ Set(l, "money", db) /\ UNCHANGED <<faults, historyVars>>
     \/ Fault /\ UNCHANGED obj /\ suspect' = TRUE /\ Release
  /\ UNCHANGED <<saveVars, redisVars, freeRedis, redis, spins, loads>>

-----------------------------------------------------------------------------
(* LoadInventory, LoadGachaHistory, and the cache filled again *)

AcquireForRows(l) ==
  /\ Go(l, "inventory", "readItems") \/ Go(l, "history", "readRecords")
  /\ TakeMySQL(l)
  /\ UNCHANGED <<saveVars, redisVars, freeRedis, redis, obj, spins, loads, historyVars, faults>>

NoneForRows(l) ==
  /\ Fail(l, "inventory") \/ Fail(l, "history")
  /\ NoMySQL
  /\ UNCHANGED <<saveVars, redisVars, freeRedis, redis, mysql, spins, loads, suspect>>

ReadItems(l) ==
  /\ Go(l, "readItems", "history") /\ GiveMySQL(l)
  /\ Set(l, "items", db)
  /\ UNCHANGED <<saveVars, redisVars, freeRedis, redis, spins, loads, historyVars, faults>>

ReadRecords(l) ==
  /\ Go(l, "readRecords", "backfill") /\ GiveMySQL(l)
  /\ Set(l, "records", db)
  /\ UNCHANGED <<saveVars, redisVars, freeRedis, redis, spins, loads, historyVars, faults>>

\* A query of items or records that fails ends the load.
ReadFails(l) ==
  /\ Fail(l, "readItems") \/ Fail(l, "readRecords")
  /\ Fault /\ GiveMySQL(l)
  /\ UNCHANGED <<saveVars, redisVars, freeRedis, redis, spins, loads, suspect>>

\* The new Player's progress goes to the cache, for 300 s.
Backfill(l) ==
  /\ RedisFree
  /\ Go(l, "backfill", "done")
  /\ \/ cache' = [money |-> obj[l].money, items |-> obj[l].items, short |-> TRUE]
        /\ keyOlder' = (key # Absent) /\ UNCHANGED faults
     \/ Fault /\ UNCHANGED <<cache, keyOlder>>
  /\ UNCHANGED <<saveVars, loadLock, curLock, key, poolVars, obj, spins, loads, historyVars>>

Load(l) ==
  \/ CacheHit(l) \/ CacheMiss(l) \/ LockLoad(l) \/ LoadLocked(l)
  \/ LockCurrency(l) \/ CurrencyLocked(l) \/ AcquireForMoney(l) \/ NoneForMoney(l)
  \/ ReadMoney(l) \/ SetKey(l) \/ KeyFound(l) \/ KeyMissing(l)
  \/ AcquireForFallback(l) \/ NoneForFallback(l) \/ ReadFallback(l)
  \/ AcquireForRows(l) \/ NoneForRows(l) \/ ReadItems(l) \/ ReadRecords(l) \/ ReadFails(l)
  \/ Backfill(l)

-----------------------------------------------------------------------------
(* The Player in memory, and its saves *)

\* A draw changes the Player and marks it.
Draw ==
  /\ ~Crashed /\ live < MaxDraws /\ live' = live + 1
  /\ dirty' = TRUE /\ forgotten' = FALSE
  /\ Release
  /\ UNCHANGED <<db, wpc, redisVars, poolVars, loaderVars, suspect, faults>>

\* AsyncSavePlayer takes the flags and queues a task.
TakeFlags ==
  /\ GoW("idle", "queued")
  /\ dirty /\ dirty' = FALSE
  /\ UNCHANGED <<live, db, forgotten, redisVars, poolVars, loaderVars, historyVars, faults>>

\* The task is popped, and a connection acquired for its batch.
AcquireForSave ==
  /\ GoW("queued", "commit")
  /\ TakeMySQL(Worker)
  /\ UNCHANGED <<live, db, dirty, forgotten, redisVars, freeRedis, redis, loaderVars, historyVars,
                 faults>>

\* Mutant: the batch is dropped.
NoneForSave_Drops ==
  /\ GoW("queued", "idle")
  /\ freeMySQL # {} /\ NoMySQL
  /\ UNCHANGED <<live, db, dirty, forgotten, redisVars, freeRedis, redis, mysql, loaderVars,
                 historyVars>>

\* The connection cannot be opened again: the batch is put back.
NoneForSave ==
  /\ GoW("queued", "queued")
  /\ freeMySQL # {} /\ NoMySQL
  /\ UNCHANGED <<saveVars, redisVars, freeRedis, redis, mysql, loaderVars, historyVars>>

\* The transaction is committed.
Commit ==
  /\ GoW("commit", "cache")
  /\ db' = live
  /\ Release
  /\ UNCHANGED <<live, dirty, forgotten, redisVars, poolVars, loaderVars, suspect, faults>>

\* A statement or the COMMIT fails, and all is rolled back; or only the answer to the
\* COMMIT is lost.  The cache is not written, and the flags are not restored.
SaveFails ==
  /\ GoW("commit", "idle")
  /\ Fault /\ GiveMySQL(Worker)
  /\ \/ UNCHANGED <<db, historyVars>>
     \/ db' = live /\ suspect' = TRUE /\ Release
  /\ forgotten' = ~dirty
  /\ UNCHANGED <<live, dirty, redisVars, freeRedis, redis, loaderVars>>

\* Mutant: the entry of a save lives no longer than that of a load.
WriteCache_Short ==
  /\ GoW("cache", "idle")
  /\ RedisFree /\ GiveMySQL(Worker)
  /\ cache' = [money |-> live, items |-> live, short |-> TRUE] /\ keyOlder' = (key # Absent)
  /\ suspect' = (\E l \in Loaders : Loading(l))
  /\ UNCHANGED <<live, db, dirty, forgotten, loadLock, curLock, key, freeRedis, redis, loaderVars,
                 promised, faults>>

\* PlayerCache::Save waits for a Redis connection while the worker holds its MySQL
\* connection.  A load under way may have read older rows or an older key, and put
\* them over this entry; with none the cache is right again.
WriteCache ==
  /\ GoW("cache", "idle")
  /\ RedisFree /\ GiveMySQL(Worker)
  /\ \/ cache' = [money |-> live, items |-> live, short |-> FALSE] /\ keyOlder' = (key # Absent)
        /\ suspect' = (\E l \in Loaders : Loading(l))
        /\ UNCHANGED <<promised, faults>>
     \/ Fault /\ suspect' = TRUE /\ Release /\ UNCHANGED <<cache, keyOlder>>
  /\ UNCHANGED <<live, db, dirty, forgotten, loadLock, curLock, key, freeRedis, redis, loaderVars>>

Save == TakeFlags \/ AcquireForSave \/ NoneForSave \/ Commit \/ SaveFails \/ WriteCache

-----------------------------------------------------------------------------
(* Time to live: an entry written by a save outlives a key set before it *)

ExpireLocks ==
  /\ \/ loadLock /\ loadLock' = FALSE /\ UNCHANGED curLock
     \/ curLock /\ curLock' = FALSE /\ UNCHANGED loadLock
  /\ UNCHANGED <<saveVars, cache, key, keyOlder, poolVars, loaderVars, historyVars, faults>>

ExpireKey ==
  /\ key # Absent
  /\ key' = Absent /\ keyOlder' = FALSE
  /\ UNCHANGED <<saveVars, cache, loadLock, curLock, poolVars, loaderVars, historyVars, faults>>

ExpireCache ==
  /\ cache # NoEntry /\ (cache.short \/ ~keyOlder)
  /\ cache' = NoEntry /\ keyOlder' = FALSE
  /\ UNCHANGED <<saveVars, loadLock, curLock, key, poolVars, loaderVars, historyVars, faults>>

-----------------------------------------------------------------------------
Next == \/ \E l \in Loaders : BeginLoad(l) \/ Load(l)
        \/ Draw \/ Save \/ ExpireLocks \/ ExpireKey \/ ExpireCache

Spec == Init /\ [][Next]_vars

\* A thread that can go on does; a wait for a MySQL connection ends after 3 s.
FairSpec == /\ Spec /\ \A l \in Loaders : WF_vars(Load(l))
            /\ WF_vars(Save)

-----------------------------------------------------------------------------
(* What loading must do *)

\* The variables keep their types.
TypeOK ==
  /\ live \in 0 .. MaxDraws /\ db \in 0 .. live /\ key \in Versions \cup {Absent}
  /\ dirty \in BOOLEAN /\ forgotten \in BOOLEAN
  /\ cache \in [money : Versions, items : Versions, short : BOOLEAN]
  /\ loadLock \in BOOLEAN /\ curLock \in BOOLEAN /\ keyOlder \in BOOLEAN /\ suspect \in BOOLEAN
  /\ freeRedis \subseteq RedisConns /\ redis \in [Loaders -> RedisConns \cup {None}]
  /\ freeMySQL \subseteq MySQLConns /\ mysql \in [Users -> MySQLConns \cup {None}]
  /\ pc \in [Loaders -> Ended \cup {"lookup", "lock", "retry", "currency", "acquire", "money",
                          "setKey", "spin", "fallback", "readFallback", "inventory", "readItems",
                          "history", "readRecords", "backfill"}]
  /\ obj \in [Loaders -> [money : Versions, items : Versions, records : Versions]]
  /\ spins \in [Loaders -> 0 .. MaxSpins] /\ wpc \in {"idle", "queued", "commit", "cache"}
  /\ loads \in 0 .. MaxLoads /\ faults \in 0 .. MaxFaults /\ promised \in [Loaders -> Versions]

\* Who has a connection, by where it is.
HasRedis(l) == pc[l] \in {"acquire", "money", "setKey"}
HasMySQL(u) == IF u = Worker THEN wpc \in {"commit", "cache"}
               ELSE pc[u] \in {"money", "setKey", "readFallback", "readItems", "readRecords"}

\* A Redis connection is in the pool or with one load that will give it back: no
\* return of LoadCurrency leaks one (PlayerLoader.cpp:100, :118, :124).
RedisConserved ==
  /\ \A l \in Loaders : (redis[l] # None) = HasRedis(l)
  /\ \A c \in RedisConns :
       \/ c \in freeRedis /\ \A l \in Loaders : redis[l] # c
       \/ c \notin freeRedis /\ \E l \in Loaders : redis[l] = c
                                 /\ \A m \in Loaders : redis[m] = c => m = l

\* The same holds of MySQL connections and all their users, except that one which
\* cannot be opened again leaves the pool (MySQLConnectionPool.cpp:73).
MySQLConserved ==
  /\ \A u \in Users : (mysql[u] # None) = HasMySQL(u)
  /\ \A c \in MySQLConns : \A u \in Users :
       mysql[u] = c => c \notin freeMySQL /\ \A v \in Users : mysql[v] = c => v = u

\* A load returns the player's whole progress, from MySQL also the records that the
\* pity is counted from, however it is interleaved with other loads and whichever of
\* cache, key and locks expires (PlayerLoader.cpp:123), provided that
\*   - all draws were saved and no save was on its way when it began, and no draw,
\*     save or failure of the next kind came before it ended; and
\*   - since the last save that wrote its cache entry while nobody was loading, no
\*     save has written the cache during a load, and none of these has failed: a
\*     query of the balance, a GET of the cache entry, a write of it by a save, or
\*     the answer to a COMMIT.
\* Without the second condition older progress, or a false balance of 0, may have got
\* into the cache or the key, and a later load does return it.
SettledLoadIsComplete ==
  \A l \in Loaders : pc[l] \in {"done", "cached"} /\ promised[l] # Nothing =>
    /\ obj[l].money = promised[l] /\ obj[l].items = promised[l]
    /\ pc[l] = "done" => obj[l].records = promised[l]

\* Every login that has begun to load ends, or the process does: no load goes on for
\* ever, although loads wait for MySQL with a Redis connection in hand and the worker
\* for Redis with a MySQL connection (PlayerLoader.cpp:97, SavePlayerTask.cpp:33).
LoadEnds == \A l \in Loaders : []<>(~Loading(l) \/ Crashed)

\* Every draw reaches the database as long as one MySQL connection is left, although
\* the pool loses one with every reconnection that fails (MySQLConnectionPool.cpp:73),
\* and no save fails after the last draw was marked: a failed save takes its flags
\* with it (SavePlayerTask.cpp:38), and only the next draw makes up for it.
Lost == MySQLConns \ (freeMySQL \cup {mysql[u] : u \in Users})
DrawIsSaved ==
  \A v \in 1 .. MaxDraws :
    []<>(live >= v => db >= v \/ forgotten \/ Lost = MySQLConns \/ Crashed)
=============================================================================
