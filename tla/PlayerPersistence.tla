-------------------------- MODULE PlayerPersistence --------------------------
(* How one player's progress reaches MySQL: the draw handler on the actor's    *)
(* worker changes the player and marks parts dirty; the autosave timer, the    *)
(* session timeout and Logout take the dirty flags and queue a save task; the  *)
(* shard's database worker writes the parts in a transaction and then the     *)
(* Redis cache (PlayerManager, Player, GachaHistory, SavePlayerTask,           *)
(* PlayerSaver, PlayerCache, and the draw of GachaService).                   *)
(* All of them share the Player object, without a lock; a walk over a map      *)
(* that another thread changes is a data race, see Counted.                   *)
EXTENDS Integers, Sequences, FiniteSets, Functions

CONSTANTS MaxDraws,     \* bound: draws in a run; also the money at the start
          MaxStored,    \* bound: items, and draws in the tables, at the start
          MaxHistory,   \* GachaHistory::MAX_HISTORY (1000)
          MaxFaults,    \* bound: SQL statements and cache writes that fail
          DrawsFail,    \* can the gacha pool refuse a draw?
          MayLogout,    \* does the player log out?
          MayShutdown   \* does the server get a stop signal?

ASSUME PersistenceAssumption ==
  /\ MaxDraws \in Nat \ {0} /\ MaxHistory \in Nat \ {0} /\ MaxFaults \in Nat
  /\ MaxStored \in 0 .. MaxHistory    \* a load reads 500 records at most
  /\ {DrawsFail, MayLogout, MayShutdown} \subseteq BOOLEAN

Parts == {"CURRENCY", "INVENTORY", "HISTORY"}
Savers == {"main", "logout"}  \* who calls AsyncSavePlayer: the thread of the timers, Logout
Seqs == 1 .. MaxStored + MaxDraws    \* sequence numbers of records

VARIABLES
  money, items, records, persisted,  \* currency, item count, nextSeq_ - 1, persistedSeq_
  dirty, saving, loggingOut,         \* the atomics of Player
  online, timedOut, stopping,        \* in the player map; timeout and signal seen
  hpc, draws,                        \* the handler: where it is, draws started
  spc, flags,                        \* each saver: where it is, and the flags it took
  queue,                             \* the player's tasks in the save queue
  wpc, work, txn,                    \* the database worker: where it is, its task's flags,
                                     \* the rows as its transaction sees them
  db, cache,                         \* the committed rows, and the Redis entry that was
                                     \* written last, whether or not it has expired
  faults,                            \* faults so far
  loaded, lost, finished             \* history: records the load replayed, those that no
                                     \* save will insert any more, those done at logout

playerVars == <<money, items, records>>
handlerVars == <<playerVars, hpc, draws, loaded, lost>>
saverVars == <<online, timedOut, stopping, loggingOut, spc, flags, finished>>
workerVars == <<wpc, work, txn, db, cache, persisted, faults>>
vars == <<handlerVars, saverVars, workerVars, dirty, saving, queue>>

\* Stored(k): how often the table holds the record k of the load.
Stored(k) == IF k <= loaded THEN 1 ELSE 0

\* The player as a login leaves it.  A load from MySQL replays the records of the
\* table with new sequence numbers and none of them marked as persisted; one from
\* the cache has no records, and may be ahead of the tables by draws that changed
\* the player between the commit and the write of the cache.
Init ==
  /\ money = MaxDraws /\ items \in 0 .. MaxStored /\ loaded \in {0, items}
  /\ records = loaded /\ persisted = 0
  /\ dirty = {} /\ saving = FALSE /\ loggingOut = FALSE
  /\ online = TRUE /\ timedOut = FALSE /\ stopping = FALSE
  /\ hpc = "idle" /\ draws = 0
  /\ spc = [t \in Savers |-> "idle"] /\ flags = [t \in Savers |-> {}]
  /\ queue = << >>
  /\ wpc = "idle" /\ work = {}
  /\ \E ahead \in 0 .. items - loaded :
       db = [money |-> money + ahead, items |-> items - ahead, rows |-> [k \in Seqs |-> Stored(k)]]
  /\ txn = db /\ cache = [money |-> money, items |-> items]
  /\ faults = 0 /\ lost = {} /\ finished = 0

-----------------------------------------------------------------------------
(* HandleGacha, on the actor's worker: one access at a time *)

GoH(from, to) == hpc = from /\ hpc' = to

\* Spend succeeds; it marks nothing dirty.
Spend ==
  /\ draws < MaxDraws /\ money > 0
  /\ GoH("idle", "draw")
  /\ draws' = draws + 1 /\ money' = money - 1
  /\ UNCHANGED <<items, records, loaded, lost, saverVars, workerVars, dirty, saving, queue>>

\* DrawOnce throws: the price is given back, and nothing is marked dirty.
Refund ==
  /\ DrawsFail
  /\ GoH("draw", "idle")
  /\ money' = money + 1
  /\ UNCHANGED <<draws, items, records, loaded, lost, saverVars, workerVars, dirty, saving, queue>>

\* Record appends to the history before it marks it; a full history loses its
\* oldest record, inserted or not.
Record ==
  /\ GoH("draw", "markHistory")
  /\ records' = records + 1
  /\ lost' = lost \cup (persisted + 1 .. records + 1 - MaxHistory)
  /\ UNCHANGED <<draws, money, items, loaded, saverVars, workerVars, dirty, saving, queue>>

\* AddItem changes the map before it marks it.
AddItem ==
  /\ GoH("adding", "markInventory")
  /\ items' = items + 1
  /\ UNCHANGED <<draws, money, records, loaded, lost, saverVars, workerVars, dirty, saving, queue>>

\* MarkDirty: of the history by Record, of the inventory by AddItem, of the
\* currency and again of the inventory by the handler.
MarkDirty(part, from, to) ==
  /\ GoH(from, to)
  /\ dirty' = dirty \cup {part}
  /\ UNCHANGED <<draws, playerVars, loaded, lost, saverVars, workerVars, saving, queue>>

\* Mutant: Record does not mark the history.
MarkHistory_Other == MarkDirty("INVENTORY", "markHistory", "adding")

MarkHistory == MarkDirty("HISTORY", "markHistory", "adding")
MarkInventory == MarkDirty("INVENTORY", "markInventory", "markCurrency")
MarkCurrency == MarkDirty("CURRENCY", "markCurrency", "markAgain")
MarkAgain == MarkDirty("INVENTORY", "markAgain", "idle")

Handler == \/ Spend \/ Refund \/ Record \/ AddItem
           \/ MarkHistory \/ MarkInventory \/ MarkCurrency \/ MarkAgain

-----------------------------------------------------------------------------
(* The callers of AsyncSavePlayer, and AsyncSavePlayer *)

GoS(t, from, to) == spc[t] = from /\ spc' = [spc EXCEPT ![t] = to]

\* OnAutoSaveTick picks the player: in the map, dirty, and not being saved.  Both
\* timers and the signal are handled by the thread that runs mainContext.
AutoSaveTick ==
  /\ ~stopping
  /\ online /\ dirty # {} /\ ~saving
  /\ GoS("main", "idle", "save")
  /\ UNCHANGED <<handlerVars, workerVars, online, timedOut, stopping, loggingOut, flags,
                 finished, dirty, saving, queue>>

\* CheckTimeout has removed the player's session.
CheckTimeout ==
  /\ ~stopping
  /\ ~timedOut /\ timedOut' = TRUE
  /\ GoS("main", "idle", "save")
  /\ UNCHANGED <<handlerVars, workerVars, online, stopping, loggingOut, flags, finished,
                 dirty, saving, queue>>

\* Logout finds the player and wins the right to log it out.
LogoutClaim ==
  /\ MayLogout /\ online /\ ~loggingOut
  /\ GoS("logout", "idle", "erase")
  /\ loggingOut' = TRUE
  /\ finished' = IF hpc \in {"idle", "draw"} THEN records ELSE records - 1
  /\ UNCHANGED <<handlerVars, workerVars, online, timedOut, stopping, flags, dirty, saving, queue>>

LogoutErase ==
  /\ GoS("logout", "erase", "save")
  /\ online' = FALSE
  /\ UNCHANGED <<handlerVars, workerVars, timedOut, stopping, loggingOut, flags, finished,
                 dirty, saving, queue>>

\* Mutant: a save that is on its way is not noticed.
SaveClaimed_Always(t) ==
  /\ GoS(t, "save", "fetch")
  /\ saving' = TRUE
  /\ UNCHANGED <<handlerVars, workerVars, online, timedOut, stopping, loggingOut, flags, finished,
                 dirty, queue>>

\* TryMarkSaving: of all savers one goes on, the others give up.
SaveClaimed(t) ==
  /\ GoS(t, "save", "fetch")
  /\ ~saving /\ saving' = TRUE
  /\ UNCHANGED <<handlerVars, workerVars, online, timedOut, stopping, loggingOut, flags, finished,
                 dirty, queue>>

SaveSkipped(t) ==
  /\ GoS(t, "save", "idle")
  /\ saving
  /\ UNCHANGED <<handlerVars, workerVars, online, timedOut, stopping, loggingOut, flags, finished,
                 dirty, saving, queue>>

\* FetchDirtyFlags takes all flags and clears them.
FetchDirtyFlags(t) ==
  /\ GoS(t, "fetch", IF dirty = {} THEN "clear" ELSE "push")
  /\ flags' = [flags EXCEPT ![t] = dirty]
  /\ dirty' = {}
  /\ UNCHANGED <<handlerVars, workerVars, online, timedOut, stopping, loggingOut, finished,
                 saving, queue>>

\* Nothing was dirty: ClearSaving.
NothingToSave(t) ==
  /\ GoS(t, "clear", "idle")
  /\ saving' = FALSE
  /\ UNCHANGED <<handlerVars, workerVars, online, timedOut, stopping, loggingOut, flags, finished,
                 dirty, queue>>

PushTask(t) ==
  /\ GoS(t, "push", "idle")
  /\ queue' = Append(queue, flags[t])
  /\ flags' = [flags EXCEPT ![t] = {}]
  /\ UNCHANGED <<handlerVars, workerVars, online, timedOut, stopping, loggingOut, finished,
                 dirty, saving>>

\* The stop signal queues a full save of every player, without TryMarkSaving; then
\* mainContext is stopped.
Flush ==
  /\ MayShutdown /\ online
  /\ spc["main"] = "idle"
  /\ ~stopping /\ stopping' = TRUE
  /\ queue' = Append(queue, Parts)
  /\ UNCHANGED <<handlerVars, workerVars, online, timedOut, loggingOut, spc, flags, finished,
                 dirty, saving>>

AsyncSavePlayer(t) == \/ SaveClaimed(t) \/ SaveSkipped(t) \/ FetchDirtyFlags(t)
                      \/ NothingToSave(t) \/ PushTask(t)

-----------------------------------------------------------------------------
(* The database worker: SavePlayerTask::Execute and PlayerSaver::Save *)

GoD(from, to) == wpc = from /\ wpc' = to

TakeTask ==
  /\ queue # << >> /\ GoD("idle", "begin")
  /\ work' = Head(queue) /\ queue' = Tail(queue)
  /\ UNCHANGED <<handlerVars, saverVars, txn, db, cache, persisted, faults, dirty, saving>>

BeginTransaction ==
  /\ GoD("begin", "currency")
  /\ txn' = db
  /\ UNCHANGED <<handlerVars, saverVars, work, db, cache, persisted, faults, dirty, saving, queue>>

SaveCurrency ==
  /\ GoD("currency", "inventory")
  /\ txn' = IF "CURRENCY" \in work THEN [txn EXCEPT !.money = money] ELSE txn
  /\ UNCHANGED <<handlerVars, saverVars, work, db, cache, persisted, faults, dirty, saving, queue>>

\* What a walk over the item map counts.  A walk that overlaps AddItem is a data
\* race: it sees the item or not, and misses others when the map is rehashed; of
\* those, what was written before remains.
Counted(written) == IF hpc = "adding" THEN written .. items + 1 ELSE {items}

\* The items are inserted, or updated where they are there.
SaveInventory ==
  /\ GoD("inventory", "history")
  /\ IF "INVENTORY" \in work THEN \E n \in Counted(txn.items) : txn' = [txn EXCEPT !.items = n]
                            ELSE UNCHANGED txn
  /\ UNCHANGED <<handlerVars, saverVars, work, db, cache, persisted, faults, dirty, saving, queue>>

\* GetUnpersisted: the records after persistedSeq_ that the history still holds.
Unpersisted == {k \in 1 .. records : k > persisted /\ k > records - MaxHistory}

\* The rows after one INSERT of all of them.
Inserted == [txn EXCEPT !.rows = [k \in Seqs |-> IF k \in Unpersisted THEN @[k] + 1 ELSE @[k]]]

\* Mutant: what was inserted is not marked.
SaveGachaHistory_Unmarked ==
  /\ GoD("history", "commit")
  /\ txn' = IF "HISTORY" \in work THEN Inserted ELSE txn
  /\ UNCHANGED <<handlerVars, saverVars, work, db, cache, persisted, faults, dirty, saving, queue>>

\* Mutant: all records are marked, also when none were to be inserted.
SaveGachaHistory_MarksAll ==
  /\ GoD("history", "commit")
  /\ txn' = IF "HISTORY" \in work THEN Inserted ELSE txn
  /\ persisted' = records
  /\ UNCHANGED <<handlerVars, saverVars, work, db, cache, faults, dirty, saving, queue>>

\* The new records are inserted, and marked as persisted before the commit.
SaveGachaHistory ==
  /\ GoD("history", "commit")
  /\ IF "HISTORY" \in work /\ Unpersisted # {}
     THEN txn' = Inserted /\ persisted' = records
     ELSE UNCHANGED <<txn, persisted>>
  /\ UNCHANGED <<handlerVars, saverVars, work, db, cache, faults, dirty, saving, queue>>

Commit ==
  /\ GoD("commit", "cache")
  /\ db' = txn
  /\ UNCHANGED <<handlerVars, saverVars, work, txn, cache, persisted, faults, dirty, saving, queue>>

\* Mutant: a failed save is left without ClearSaving.
SqlFails_NoClear ==
  /\ faults < MaxFaults /\ faults' = faults + 1
  /\ wpc \in {"begin", "commit"} /\ wpc' = "idle"
  /\ txn' = db /\ work' = {}
  /\ UNCHANGED <<handlerVars, saverVars, db, cache, persisted, dirty, saving, queue>>

\* A statement fails and the transaction is rolled back; a COMMIT whose answer
\* is lost may also have been done.  The flags of the task are not restored, and
\* the records it has marked stay marked.
SqlFails ==
  /\ faults < MaxFaults /\ faults' = faults + 1
  /\ wpc' = "clear"
  /\ \/ /\ \/ wpc \in {"begin", "commit"}
           \/ wpc = "currency" /\ "CURRENCY" \in work
           \/ wpc = "inventory" /\ "INVENTORY" \in work /\ items > 0
           \/ wpc = "history" /\ "HISTORY" \in work /\ Unpersisted # {}
        /\ UNCHANGED db
     \/ wpc = "commit" /\ db' = txn
  /\ txn' = db'
  /\ lost' = lost \cup {k \in 1 .. persisted : db'.rows[k] < txn.rows[k]}
  /\ UNCHANGED <<playerVars, hpc, draws, loaded, saverVars, work, cache, persisted, dirty, saving, queue>>

\* Mutant: an entry that is there already is not written again.
SaveCache_OnlyNew ==
  /\ GoD("cache", "clear")
  /\ UNCHANGED <<handlerVars, saverVars, work, txn, db, cache, persisted, faults, dirty, saving, queue>>

\* PlayerCache::Save writes the player as it is now.
SaveCache ==
  /\ GoD("cache", "clear")
  /\ \E n \in Counted(0) : cache' = [money |-> money, items |-> n]
  /\ UNCHANGED <<handlerVars, saverVars, work, txn, db, persisted, faults, dirty, saving, queue>>

\* No connection or no reply; the entry may be written all the same.
CacheFails ==
  /\ faults < MaxFaults /\ faults' = faults + 1
  /\ GoD("cache", "clear")
  /\ UNCHANGED cache \/ \E n \in Counted(0) : cache' = [money |-> money, items |-> n]
  /\ UNCHANGED <<handlerVars, saverVars, work, txn, db, persisted, dirty, saving, queue>>

\* Mutant: the dirty flags are cleared when the save is over.
ClearSaving_ClearsFlags ==
  /\ GoD("clear", "idle")
  /\ saving' = FALSE /\ work' = {} /\ dirty' = {}
  /\ UNCHANGED <<handlerVars, saverVars, txn, db, cache, persisted, faults, queue>>

\* ClearSaving, whatever the outcome was.
ClearSaving ==
  /\ GoD("clear", "idle")
  /\ saving' = FALSE /\ work' = {}
  /\ UNCHANGED <<handlerVars, saverVars, txn, db, cache, persisted, faults, dirty, queue>>

DBWorker == \/ TakeTask \/ BeginTransaction \/ SaveCurrency \/ SaveInventory \/ SaveGachaHistory
            \/ Commit \/ SqlFails \/ SaveCache \/ CacheFails \/ ClearSaving

-----------------------------------------------------------------------------
Callers == AutoSaveTick \/ CheckTimeout \/ LogoutClaim \/ LogoutErase \/ Flush

Next == \/ Handler \/ Callers \/ DBWorker
        \/ \E t \in Savers : AsyncSavePlayer(t)

Spec == Init /\ [][Next]_vars

\* A handler that runs finishes, the timer keeps ticking, threads run on.
FairSpec == /\ Spec /\ WF_vars(Handler /\ hpc # "idle") /\ WF_vars(DBWorker)
            /\ WF_vars(AutoSaveTick \/ AsyncSavePlayer("main"))
            /\ WF_vars(LogoutErase \/ AsyncSavePlayer("logout"))

-----------------------------------------------------------------------------
(* What persistence must do *)

Amounts == 0 .. MaxDraws + MaxStored
Tables == [money : Amounts, items : Amounts, rows : [Seqs -> Nat]]

\* The variables keep their types.
TypeOK ==
  /\ money \in 0 .. MaxDraws /\ items \in Amounts
  /\ records \in Amounts /\ persisted \in 0 .. records
  /\ dirty \subseteq Parts /\ work \subseteq Parts
  /\ saving \in BOOLEAN /\ loggingOut \in BOOLEAN /\ online \in BOOLEAN
  /\ timedOut \in BOOLEAN /\ stopping \in BOOLEAN
  /\ hpc \in {"idle", "draw", "markHistory", "adding", "markInventory", "markCurrency",
              "markAgain"}
  /\ draws \in 0 .. MaxDraws
  /\ spc \in [Savers -> {"idle", "erase", "save", "fetch", "clear", "push"}]
  /\ flags \in [Savers -> SUBSET Parts]
  /\ queue \in Seq(SUBSET Parts)
  /\ wpc \in {"idle", "begin", "currency", "inventory", "history", "commit", "cache", "clear"}
  /\ db \in Tables /\ txn \in Tables
  /\ cache \in [money : Amounts, items : Amounts]
  /\ faults \in 0 .. MaxFaults
  /\ loaded \in 0 .. MaxStored /\ lost \subseteq Seqs /\ finished \in Amounts

\* The savers, the queue and the worker that hold a save of the player.
InFlight == Cardinality({t \in Savers : spc[t] \in {"fetch", "clear", "push"}})
            + Len(queue) + (IF wpc = "idle" THEN 0 ELSE 1)

\* Until the flush of the stop signal, at most one save of a player is on its way,
\* and the flag says so (PlayerManager.cpp:86).
OneSaveInFlight == ~stopping => InFlight = (IF saving THEN 1 ELSE 0)

\* The worker has read all it will read, or has no task.
Unread == wpc \in {"begin", "currency", "inventory", "history", "commit"}
Resting == /\ hpc = "idle" /\ queue = << >> /\ ~Unread
           /\ \A t \in Savers : flags[t] = {}

\* A record is in the table exactly when it was drawn, those that are lost apart.
RowsExact == \A k \in Seqs \ lost : db.rows[k] >= 1 <=> k <= records

\* When no handler runs and no save is on its way, whatever was drawn and is not
\* in the database is marked dirty, as long as no save has failed: the flags are
\* a complete account of what Logout has to save (PlayerManager.cpp:76).  Changes
\* made while a save reads the player, or between the change and its mark, are the
\* hard part.  A refused draw is paid back without a mark, and excuses the balance.
NothingForgotten ==
  Resting /\ records > loaded /\ faults = 0 =>
     /\ "CURRENCY" \in dirty \/ db.money = money \/ draws > records - loaded
     /\ "INVENTORY" \in dirty \/ db.items = items
     /\ "HISTORY" \in dirty \/ RowsExact

\* One Player inserts a record into the history table once at most, whatever fails
\* and also when two of its saves are queued at shutdown; so a record that its load
\* has replayed (PlayerLoader.cpp:193) is there twice at most, any other one once.
InsertedOnce == \A k \in Seqs : db.rows[k] <= Stored(k) + 1

\* A record marked as persisted is in the table once the worker is done with its
\* task, or it is one of two kinds the code does lose: a record that a full history
\* drops before its first insert, and one that is marked when the COMMIT that would
\* have kept it fails (PlayerSaver.cpp:148).  A statement that fails earlier and is
\* rolled back takes no record along (PlayerSaver.cpp:54).
HistoryDurable == ~Unread => \A k \in (1 .. persisted) \ lost : db.rows[k] >= 1

\* What was finished before Logout is in the database when Logout has returned
\* and no save is on its way: Logout forces a last save (PlayerManager.h:22).
FinalSave ==
  ~online /\ spc["logout"] = "idle" /\ InFlight = 0 =>
    \A k \in 1 .. finished : db.rows[k] >= 1

\* Between two saves none of which failed, a cache that is behind the database,
\* which only a walk over a map in change can leave, is about to be written again:
\* so a login that finds the cache does not turn the player back.
CacheNotBehind ==
  Resting /\ wpc = "idle" /\ faults = 0 /\ "INVENTORY" \notin dirty => cache.items >= db.items

\* The flag that keeps other saves out is never left set without a save on its
\* way that will clear it, whatever fails (SavePlayerTask.cpp:52).
SavingEnds == saving => InFlight > 0

\* Every record of a player who stays online while the server runs reaches the
\* database, unless a save fails or the history is full before.
DrawReachesDatabase ==
  \A k \in Seqs : (records >= k) ~>
                   (db.rows[k] >= 1 \/ k \in lost \/ faults > 0 \/ ~online \/ stopping)
=============================================================================
