----------------------- MODULE PlayerPersistenceProofs -----------------------
(* Theorems about PlayerPersistence, for any number of draws, and where        *)
(* nothing else is said for any history size and any failures.                 *)
EXTENDS PlayerPersistence, FiniteSetTheorems, TLAPS

-----------------------------------------------------------------------------
(* Type correctness *)

\* Every draw paid for is recorded next, and then gives an item; a draw that was
\* started and is not recorded was refused, or comes next.
DrawsAgree ==
  /\ loaded <= records /\ items <= MaxStored + records - loaded
  /\ money + records - loaded + (IF hpc = "draw" THEN 1 ELSE 0) = MaxDraws
  /\ hpc \in {"markHistory", "adding"} => items < MaxStored + records - loaded
  /\ hpc \notin {"idle", "draw"} => records > loaded
  /\ draws >= records - loaded + (IF hpc = "draw" THEN 1 ELSE 0)

\* The rows count no item that is not there, or about to be.
NotAhead(rows) == rows.items <= items + (IF hpc = "adding" THEN 1 ELSE 0)

TypeInv == TypeOK /\ DrawsAgree /\ NotAhead(db) /\ NotAhead(txn)

\* Initially nothing is drawn.
LEMMA InitType == Init => TypeInv
  <1> SUFFICES ASSUME Init PROVE TypeInv  OBVIOUS
  <1>1. /\ saving \in BOOLEAN /\ loggingOut \in BOOLEAN /\ online \in BOOLEAN
        /\ timedOut \in BOOLEAN /\ stopping \in BOOLEAN
    BY Zenon DEF Init
  <1>2. queue \in Seq(SUBSET Parts)
    <2>1. queue = << >>  BY DEF Init
    <2> QED  BY <2>1
  <1>3. /\ money = MaxDraws /\ items \in 0 .. MaxStored /\ loaded \in 0 .. items
        /\ records = loaded /\ persisted = 0 /\ hpc = "idle" /\ draws = 0
    BY PersistenceAssumption DEF Init
  <1>4. db \in Tables /\ txn = db /\ db.items <= items
    <2>1. PICK ahead \in 0 .. items - loaded :
            db = [money |-> money + ahead, items |-> items - ahead,
                  rows |-> [k \in Seqs |-> Stored(k)]]
      BY DEF Init
    <2>2. [k \in Seqs |-> Stored(k)] \in [Seqs -> Nat]  BY DEF Stored
    <2>3. money + ahead \in Amounts /\ items - ahead \in Amounts
      BY <1>3, PersistenceAssumption DEF Amounts
    <2>4. db.items <= items  BY <1>3, <2>1
    <2> QED  BY <2>1, <2>2, <2>3, <2>4 DEF Init, Tables
  <1>5. cache \in [money : Amounts, items : Amounts]
    BY <1>3, PersistenceAssumption DEF Init, Amounts
  <1>6. TypeOK
    BY <1>1, <1>2, <1>3, <1>4, <1>5, PersistenceAssumption DEF Init, TypeOK, Parts, Amounts
  <1> QED  BY <1>3, <1>4, <1>6, PersistenceAssumption DEF TypeInv, DrawsAgree, NotAhead

\* What a walk over the items may count.
LEMMA CountedItems ==
  ASSUME TypeInv, NEW written \in Nat, NEW n \in Counted(written)
  PROVE  n \in Amounts /\ n <= items + (IF hpc = "adding" THEN 1 ELSE 0)
  BY PersistenceAssumption DEF TypeInv, TypeOK, Amounts, DrawsAgree, Counted

\* Every step keeps the draws in agreement.
LEMMA DrawsStep ==
  ASSUME TypeInv, [Next]_vars
  PROVE  DrawsAgree' /\ NotAhead(db)' /\ NotAhead(txn)'
  <1> DEFINE Agreed == DrawsAgree /\ NotAhead(db) /\ NotAhead(txn)
  <1> SUFFICES Agreed'  OBVIOUS
  <1>0. /\ Agreed /\ money \in Nat /\ items \in Nat /\ records \in Nat
        /\ loaded \in Nat /\ draws \in Nat /\ db \in Tables /\ txn \in Tables
    BY PersistenceAssumption DEF TypeInv, TypeOK, Amounts
  <1> USE PersistenceAssumption, <1>0 DEF DrawsAgree, NotAhead, Tables, Amounts, GoH,
          playerVars, handlerVars, saverVars, workerVars
  <1>1. CASE Spend  BY <1>1 DEF Spend
  <1>2. CASE Refund  BY <1>2 DEF Refund
  <1>3. CASE Record  BY <1>3 DEF Record
  <1>4. CASE AddItem  BY <1>4 DEF AddItem
  <1>5. CASE MarkHistory  BY <1>5 DEF MarkHistory, MarkDirty
  <1>6. CASE MarkInventory  BY <1>6 DEF MarkInventory, MarkDirty
  <1>7. CASE MarkCurrency  BY <1>7 DEF MarkCurrency, MarkDirty
  <1>8. CASE MarkAgain  BY <1>8 DEF MarkAgain, MarkDirty
  <1>9. CASE AutoSaveTick  BY <1>9 DEF AutoSaveTick
  <1>10. CASE CheckTimeout  BY <1>10 DEF CheckTimeout
  <1>11. CASE LogoutClaim  BY <1>11 DEF LogoutClaim
  <1>12. CASE LogoutErase  BY <1>12 DEF LogoutErase
  <1>13. CASE Flush  BY <1>13 DEF Flush
  <1>14. CASE TakeTask  BY <1>14 DEF TakeTask
  <1>15. CASE BeginTransaction  BY <1>15 DEF BeginTransaction
  <1>16. CASE SaveCurrency  BY <1>16 DEF SaveCurrency
  <1>17. CASE SaveInventory
    <2>1. CASE "INVENTORY" \in work
      <3>1. PICK n \in Counted(txn.items) : txn' = [txn EXCEPT !.items = n]
        BY <1>17, <2>1 DEF SaveInventory
      <3>2. txn.items \in Nat  OBVIOUS
      <3>3. n \in Nat /\ n <= items + (IF hpc = "adding" THEN 1 ELSE 0)
        BY <3>1, <3>2, CountedItems
      <3>4. txn'.items = n  BY <3>1
      <3> QED  BY <1>17, <3>3, <3>4 DEF SaveInventory
    <2>2. CASE "INVENTORY" \notin work  BY <1>17, <2>2 DEF SaveInventory
    <2> QED  BY <2>1, <2>2
  <1>18. CASE SaveGachaHistory
    <2>1. txn'.items = txn.items  BY <1>18 DEF SaveGachaHistory, Inserted
    <2> QED  BY <1>18, <2>1 DEF SaveGachaHistory
  <1>19. CASE Commit  BY <1>19 DEF Commit
  <1>20. CASE SqlFails  BY <1>20 DEF SqlFails
  <1>21. CASE SaveCache  BY <1>21 DEF SaveCache
  <1>22. CASE CacheFails  BY <1>22 DEF CacheFails
  <1>23. CASE ClearSaving  BY <1>23 DEF ClearSaving
  <1>24. ASSUME NEW t \in Savers, AsyncSavePlayer(t) PROVE Agreed'
    <2>1. CASE SaveClaimed(t)  BY <2>1 DEF SaveClaimed
    <2>2. CASE SaveSkipped(t)  BY <2>2 DEF SaveSkipped
    <2>3. CASE FetchDirtyFlags(t)  BY <2>3 DEF FetchDirtyFlags
    <2>4. CASE NothingToSave(t)  BY <2>4 DEF NothingToSave
    <2>5. CASE PushTask(t)  BY <2>5 DEF PushTask
    <2> QED  BY <1>24, <2>1, <2>2, <2>3, <2>4, <2>5 DEF AsyncSavePlayer
  <1>25. CASE UNCHANGED vars  BY <1>25 DEF vars
  <1> QED
    BY <1>1, <1>2, <1>3, <1>4, <1>5, <1>6, <1>7, <1>8, <1>9, <1>10, <1>11, <1>12, <1>13,
       <1>14, <1>15, <1>16, <1>17, <1>18, <1>19, <1>20, <1>21, <1>22, <1>23, <1>24,
       <1>25
       DEF Next, Handler, Callers, DBWorker

\* Every step keeps the types.
LEMMA TypeStep == ASSUME TypeInv, [Next]_vars PROVE TypeInv'
  <1> SUFFICES TypeOK'  BY DrawsStep DEF TypeInv
  <1>0. TypeOK  BY DEF TypeInv
  <1> USE PersistenceAssumption, <1>0 DEF TypeOK, Amounts, GoH, GoS, GoD,
          playerVars, handlerVars, saverVars, workerVars
  <1>1. CASE Spend  BY <1>1 DEF Spend, TypeInv, DrawsAgree
  <1>2. CASE Refund  BY <1>2 DEF Refund, TypeInv, DrawsAgree
  <1>3. CASE Record
    <2>1. records' \in Amounts /\ persisted \in 0 .. records'
      BY <1>3 DEF Record, TypeInv, DrawsAgree
    <2>2. lost' \subseteq Seqs  BY <1>3, <2>1 DEF Record, Seqs
    <2> QED  BY <1>3, <2>1, <2>2 DEF Record
  <1>4. CASE AddItem  BY <1>4 DEF AddItem, TypeInv, DrawsAgree
  <1>5. CASE MarkHistory  BY <1>5 DEF MarkHistory, MarkDirty, Parts
  <1>6. CASE MarkInventory  BY <1>6 DEF MarkInventory, MarkDirty, Parts
  <1>7. CASE MarkCurrency  BY <1>7 DEF MarkCurrency, MarkDirty, Parts
  <1>8. CASE MarkAgain  BY <1>8 DEF MarkAgain, MarkDirty, Parts
  <1>9. CASE AutoSaveTick  BY <1>9 DEF AutoSaveTick, Savers
  <1>10. CASE CheckTimeout  BY <1>10 DEF CheckTimeout, Savers
  <1>11. CASE LogoutClaim
    <2>1. finished' \in Amounts  BY <1>11 DEF LogoutClaim, TypeInv, DrawsAgree
    <2> QED  BY <1>11, <2>1 DEF LogoutClaim, Savers
  <1>12. CASE LogoutErase
    <2>1. online' = FALSE  BY <1>12 DEF LogoutErase
    <2>2. online' \in BOOLEAN  BY <2>1, Zenon
    <2> QED  BY <1>12, <2>2 DEF LogoutErase, Savers
  <1>13. CASE Flush  BY <1>13 DEF Flush
  <1>14. CASE TakeTask  BY <1>14 DEF TakeTask
  <1>15. CASE BeginTransaction  BY <1>15 DEF BeginTransaction
  <1>16. CASE SaveCurrency
    <2>1. txn' \in Tables
      <3>1. money \in Amounts  OBVIOUS
      <3> HIDE DEF Amounts
      <3> QED  BY <1>16, <3>1 DEF SaveCurrency, Tables
    <2> QED  BY <1>16, <2>1 DEF SaveCurrency
  <1>17. CASE SaveInventory
    <2>1. txn' \in Tables
      <3>1. CASE "INVENTORY" \in work
        <4>1. PICK n \in Counted(txn.items) : txn' = [txn EXCEPT !.items = n]
          BY <1>17, <3>1 DEF SaveInventory
        <4>2. n \in Amounts  BY <4>1, CountedItems DEF Tables
        <4> QED  BY <4>1, <4>2 DEF Tables
      <3>2. CASE "INVENTORY" \notin work  BY <1>17, <3>2 DEF SaveInventory
      <3> QED  BY <3>1, <3>2
    <2> QED  BY <1>17, <2>1 DEF SaveInventory
  <1>18. CASE SaveGachaHistory
    <2>1. txn' \in Tables /\ persisted' \in 0 .. records
      <3>1. Inserted \in Tables
        <4>1. \A k \in Seqs : txn.rows[k] \in Nat  BY DEF Tables
        <4>2. [k \in Seqs |-> IF k \in Unpersisted THEN txn.rows[k] + 1 ELSE txn.rows[k]]
                \in [Seqs -> Nat]
          BY <4>1
        <4> QED  BY <4>2 DEF Inserted, Tables
      <3> QED  BY <1>18, <3>1 DEF SaveGachaHistory
    <2> QED  BY <1>18, <2>1 DEF SaveGachaHistory
  <1>19. CASE Commit  BY <1>19 DEF Commit
  <1>20. CASE SqlFails
    <2>1. 1 .. persisted \subseteq Seqs  BY DEF Seqs
    <2>2. lost' \subseteq Seqs  BY <1>20, <2>1 DEF SqlFails
    <2> QED  BY <1>20, <2>2 DEF SqlFails
  <1>21. CASE SaveCache
    <2>1. cache' \in [money : Amounts, items : Amounts]
      <3>1. ASSUME NEW n \in Counted(0), cache' = [money |-> money, items |-> n]
            PROVE  cache' \in [money : Amounts, items : Amounts]
        <4>1. n \in Amounts  BY CountedItems
        <4> QED  BY <3>1, <4>1
      <3> QED  BY <1>21, <3>1 DEF SaveCache
    <2>2. /\ GoD("cache", "clear") /\ faults' \in 0 .. MaxFaults
          /\ UNCHANGED <<handlerVars, saverVars, work, txn, db, persisted, dirty, saving, queue>>
      BY <1>21 DEF SaveCache
    <2> QED  BY <2>1, <2>2
  <1>22. CASE CacheFails
    <2>1. cache' \in [money : Amounts, items : Amounts]
      <3>1. ASSUME NEW n \in Counted(0), cache' = [money |-> money, items |-> n]
            PROVE  cache' \in [money : Amounts, items : Amounts]
        <4>1. n \in Amounts  BY CountedItems
        <4> QED  BY <3>1, <4>1
      <3> QED  BY <1>22, <3>1 DEF CacheFails
    <2>2. /\ GoD("cache", "clear") /\ faults' \in 0 .. MaxFaults
          /\ UNCHANGED <<handlerVars, saverVars, work, txn, db, persisted, dirty, saving, queue>>
      BY <1>22 DEF CacheFails
    <2> QED  BY <2>1, <2>2
  <1>23. CASE ClearSaving  BY <1>23 DEF ClearSaving
  <1>24. ASSUME NEW t \in Savers, AsyncSavePlayer(t) PROVE TypeOK'
    <2>1. CASE SaveClaimed(t)  BY <2>1 DEF SaveClaimed
    <2>2. CASE SaveSkipped(t)  BY <2>2 DEF SaveSkipped
    <2>3. CASE FetchDirtyFlags(t)  BY <2>3 DEF FetchDirtyFlags
    <2>4. CASE NothingToSave(t)
      <3>1. spc' = [spc EXCEPT ![t] = "idle"] /\ saving' = FALSE  BY <2>4 DEF NothingToSave
      <3>2. saving' \in BOOLEAN  BY <3>1, Zenon
      <3> QED  BY <2>4, <3>1, <3>2 DEF NothingToSave
    <2>5. CASE PushTask(t)  BY <2>5 DEF PushTask
    <2> QED  BY <1>24, <2>1, <2>2, <2>3, <2>4, <2>5 DEF AsyncSavePlayer
  <1>25. CASE UNCHANGED vars  BY <1>25 DEF vars
  <1> QED
    BY <1>1, <1>2, <1>3, <1>4, <1>5, <1>6, <1>7, <1>8, <1>9, <1>10, <1>11, <1>12, <1>13,
       <1>14, <1>15, <1>16, <1>17, <1>18, <1>19, <1>20, <1>21, <1>22, <1>23, <1>24,
       <1>25
       DEF Next, Handler, Callers, DBWorker

\* The variables keep their types, and the draws agree.
LEMMA TypeInvHolds == Spec => []TypeInv
  BY InitType, TypeStep, PTL DEF Spec

\* The variables keep their types.
THEOREM TypeCorrect == Spec => []TypeOK
  <1>1. TypeInv => TypeOK  BY DEF TypeInv
  <1> QED  BY TypeInvHolds, <1>1, PTL

-----------------------------------------------------------------------------
(* What only the database worker does *)

\* The rows, committed or not, and the mark of the history are the worker's.
LEMMA RowsMove ==
  ASSUME TypeInv, [Next]_vars
  PROVE  \/ BeginTransaction \/ SaveCurrency \/ SaveInventory \/ SaveGachaHistory
         \/ Commit \/ SqlFails \/ UNCHANGED <<db, txn, persisted>>
  BY DEF Next, Handler, Spend, Refund, Record, AddItem, MarkHistory, MarkInventory, MarkCurrency,
     MarkAgain, MarkDirty, Callers, AutoSaveTick, CheckTimeout, LogoutClaim, LogoutErase, Flush,
     DBWorker, TakeTask, SaveCache, CacheFails, ClearSaving,
     AsyncSavePlayer, SaveClaimed, SaveSkipped, FetchDirtyFlags, NothingToSave, PushTask,
     vars, handlerVars, saverVars, workerVars

-----------------------------------------------------------------------------
(* The history table *)

\* A record has one row more than when it was loaded at most, and none more before it
\* is marked as persisted.
RowsInv == \A k \in Seqs :
  /\ db.rows[k] <= Stored(k) + 1 /\ txn.rows[k] <= Stored(k) + 1
  /\ k > persisted => db.rows[k] = Stored(k) /\ txn.rows[k] = Stored(k)

\* What a load replayed does not change any more.
LEMMA LoadIsOver == [Next]_vars => UNCHANGED loaded
  BY DEF Next, Handler, Spend, Refund, Record, AddItem, MarkHistory, MarkInventory, MarkCurrency,
     MarkAgain, MarkDirty, Callers, AutoSaveTick, CheckTimeout, LogoutClaim, LogoutErase, Flush,
     DBWorker, TakeTask, BeginTransaction, SaveCurrency, SaveInventory, SaveGachaHistory, Commit,
     SqlFails, SaveCache, CacheFails, ClearSaving,
     AsyncSavePlayer, SaveClaimed, SaveSkipped, FetchDirtyFlags, NothingToSave, PushTask,
     vars, handlerVars

\* Every step of the worker keeps that, failures included.
LEMMA RowsStep == ASSUME TypeInv, RowsInv, [Next]_vars PROVE RowsInv'
  <1>0. /\ persisted \in Nat /\ records \in Nat /\ loaded \in Nat
        /\ db \in Tables /\ txn \in Tables
    BY PersistenceAssumption DEF TypeInv, TypeOK, Amounts
  <1>l. UNCHANGED loaded  BY LoadIsOver
  <1> USE <1>0, <1>l DEF RowsInv, Tables, Stored
  <1>1. CASE BeginTransaction  BY <1>1 DEF BeginTransaction
  <1>2. CASE SaveCurrency
    <2>1. txn'.rows = txn.rows /\ UNCHANGED <<db, persisted>>  BY <1>2 DEF SaveCurrency, workerVars
    <2> QED  BY <2>1
  <1>3. CASE SaveInventory
    <2>1. txn'.rows = txn.rows /\ UNCHANGED <<db, persisted>>  BY <1>3 DEF SaveInventory, workerVars
    <2> QED  BY <2>1
  <1>4. CASE SaveGachaHistory
    <2>1. CASE UNCHANGED <<txn, persisted>>  BY <1>4, <2>1 DEF SaveGachaHistory
    <2>2. CASE txn' = Inserted /\ persisted' = records
      <3>1. \A k \in Seqs :
              txn'.rows[k] = IF k \in Unpersisted THEN txn.rows[k] + 1 ELSE txn.rows[k]
        BY <2>2 DEF Inserted
      <3>2. persisted <= records  BY DEF TypeInv, TypeOK
      <3>3. UNCHANGED db  BY <1>4 DEF SaveGachaHistory
      <3>4. \A k \in Seqs : k \in Unpersisted => k > persisted /\ k <= records
        BY DEF Unpersisted
      <3> QED  BY <2>2, <3>1, <3>2, <3>3, <3>4 DEF Seqs
    <2> QED  BY <1>4, <2>1, <2>2 DEF SaveGachaHistory
  <1>5. CASE Commit  BY <1>5 DEF Commit
  <1>6. CASE SqlFails  BY <1>6 DEF SqlFails
  <1>7. CASE UNCHANGED <<db, txn, persisted>>  BY <1>7
  <1> QED  BY RowsMove, <1>1, <1>2, <1>3, <1>4, <1>5, <1>6, <1>7

\* So does every behaviour.
LEMMA RowsInvHolds == Spec => []RowsInv
  <1>1. Init => RowsInv
    <2> SUFFICES ASSUME Init PROVE RowsInv  OBVIOUS
    <2>1. db.rows = [k \in Seqs |-> Stored(k)] /\ txn = db  BY DEF Init
    <2>2. \A k \in Seqs : Stored(k) \in Nat  BY DEF Stored
    <2> QED  BY <2>1, <2>2 DEF RowsInv
  <1>2. TypeInv /\ RowsInv /\ [Next]_vars => RowsInv'  BY RowsStep
  <1> QED  BY TypeInvHolds, <1>1, <1>2, PTL DEF Spec

\* One Player inserts a record into the history table once at most, be it new or
\* replayed by the load, whatever fails and however many saves are on their way.
THEOREM InsertsAreUnique == Spec => []InsertedOnce
  <1>1. RowsInv => InsertedOnce  BY DEF RowsInv, InsertedOnce
  <1> QED  BY RowsInvHolds, <1>1, PTL

\* The rows as they will be if nothing fails any more.
InTransaction == wpc \in {"currency", "inventory", "history", "commit"}
View == IF InTransaction THEN txn ELSE db

\* Marked records have a row or are lost; what a full history has dropped unmarked
\* is lost.
DurableInv ==
  /\ \A k \in 1 .. persisted : View.rows[k] >= 1 \/ k \in lost
  /\ \A k \in Seqs : persisted < k /\ k <= records - MaxHistory => k \in lost

\* A step marks what it writes; a COMMIT that fails, and the draw that finds the
\* history full, say what they lose.
LEMMA DurableStep == ASSUME TypeInv, DurableInv, [Next]_vars PROVE DurableInv'
  <1>0. /\ persisted \in Nat /\ records \in Nat /\ persisted <= records
        /\ db \in Tables /\ txn \in Tables /\ 1 .. records \subseteq Seqs
    BY PersistenceAssumption DEF TypeInv, TypeOK, DrawsAgree, Amounts, Seqs
  <1> USE <1>0, PersistenceAssumption DEF DurableInv, View, InTransaction, Tables, GoD
  <1>1. CASE BeginTransaction  BY <1>1 DEF BeginTransaction, handlerVars, playerVars
  <1>2. CASE SaveCurrency
    <2>1. /\ txn'.rows = txn.rows /\ UNCHANGED <<db, persisted, records, lost>>
          /\ wpc = "currency" /\ wpc' = "inventory"
      BY <1>2 DEF SaveCurrency, handlerVars, playerVars
    <2> QED  BY <2>1
  <1>3. CASE SaveInventory
    <2>1. /\ txn'.rows = txn.rows /\ UNCHANGED <<db, persisted, records, lost>>
          /\ wpc = "inventory" /\ wpc' = "history"
      BY <1>3 DEF SaveInventory, handlerVars, playerVars
    <2> QED  BY <2>1
  <1>4. CASE SaveGachaHistory
    <2>1. wpc = "history" /\ wpc' = "commit" /\ UNCHANGED <<records, lost>>
      BY <1>4 DEF SaveGachaHistory, handlerVars, playerVars
    <2>2. CASE UNCHANGED <<txn, persisted>>  BY <2>1, <2>2
    <2>3. CASE txn' = Inserted /\ persisted' = records
      <3>1. \A k \in Seqs :
              txn'.rows[k] = IF k \in Unpersisted THEN txn.rows[k] + 1 ELSE txn.rows[k]
        BY <2>3 DEF Inserted
      <3>2. \A k \in 1 .. records :
              k \in Unpersisted <=> k > persisted /\ k > records - MaxHistory
        BY DEF Unpersisted
      <3>3. ASSUME NEW k \in 1 .. records PROVE txn'.rows[k] >= 1 \/ k \in lost
        <4>0. txn.rows[k] \in Nat /\ k \in Seqs  OBVIOUS
        <4>1. CASE k \in Unpersisted  BY <3>1, <4>0, <4>1
        <4>2. CASE k <= persisted  BY <2>1, <3>1, <3>2, <4>0, <4>2
        <4>3. CASE k > persisted /\ k \notin Unpersisted  BY <3>2, <4>0, <4>3
        <4> QED  BY <4>1, <4>2, <4>3
      <3>4. View' = txn'  BY <2>1
      <3>5. \A k \in Seqs : ~(persisted' < k /\ k <= records' - MaxHistory)
        BY <2>1, <2>3 DEF Seqs
      <3> QED  BY <2>1, <2>3, <3>3, <3>4, <3>5
    <2> QED  BY <1>4, <2>2, <2>3 DEF SaveGachaHistory
  <1>5. CASE Commit  BY <1>5 DEF Commit, handlerVars, playerVars
  <1>6. CASE SqlFails
    <2>1. /\ UNCHANGED <<records, persisted>> /\ lost \subseteq lost' /\ wpc' = "clear"
          /\ \A k \in 1 .. persisted : db'.rows[k] < txn.rows[k] => k \in lost'
          /\ db' = db \/ (wpc = "commit" /\ db' = txn)
          /\ wpc \notin {"idle", "cache", "clear"}
      BY <1>6 DEF SqlFails, playerVars
    <2>2. ASSUME NEW k \in 1 .. persisted PROVE db'.rows[k] >= 1 \/ k \in lost'
      <3>1. db.rows[k] \in Nat /\ txn.rows[k] \in Nat  OBVIOUS
      <3> QED  BY <2>1, <3>1
    <2> QED  BY <2>1, <2>2
  <1>7. CASE Record
    <2>1. /\ UNCHANGED <<db, txn, wpc, persisted>> /\ records' = records + 1
          /\ lost' = lost \cup (persisted + 1 .. records + 1 - MaxHistory)
      BY <1>7 DEF Record, workerVars
    <2>2. \A k \in Seqs : k \in Int  BY DEF Seqs
    <2> QED  BY <2>1, <2>2
  <1>8. CASE UNCHANGED <<db, txn, persisted, records, lost>>
    <2>1. UNCHANGED wpc \/ TakeTask \/ SaveCache \/ CacheFails \/ ClearSaving \/ SqlFails
            \/ BeginTransaction \/ SaveCurrency \/ SaveInventory \/ SaveGachaHistory \/ Commit
      BY DEF Next, Handler, Spend, Refund, Record, AddItem, MarkHistory, MarkInventory,
         MarkCurrency, MarkAgain, MarkDirty, Callers, AutoSaveTick, CheckTimeout, LogoutClaim,
         LogoutErase, Flush, DBWorker, AsyncSavePlayer, SaveClaimed, SaveSkipped,
         FetchDirtyFlags, NothingToSave, PushTask, vars, workerVars
    <2>2. CASE UNCHANGED wpc  BY <1>8, <2>2
    <2>3. CASE TakeTask \/ SaveCache \/ CacheFails \/ ClearSaving
      BY <1>8, <2>3 DEF TakeTask, SaveCache, CacheFails, ClearSaving
    <2> QED  BY <1>1, <1>2, <1>3, <1>4, <1>5, <1>6, <2>1, <2>2, <2>3
  <1>9. Record \/ SqlFails \/ UNCHANGED <<records, lost>>
    BY DEF Next, Handler, Spend, Refund, AddItem, MarkHistory, MarkInventory, MarkCurrency,
       MarkAgain, MarkDirty, Callers, AutoSaveTick, CheckTimeout, LogoutClaim, LogoutErase, Flush,
       DBWorker, TakeTask, BeginTransaction, SaveCurrency, SaveInventory, SaveGachaHistory, Commit,
       SaveCache, CacheFails, ClearSaving,
       AsyncSavePlayer, SaveClaimed, SaveSkipped, FetchDirtyFlags, NothingToSave, PushTask,
       vars, handlerVars, playerVars
  <1> QED  BY RowsMove, <1>1, <1>2, <1>3, <1>4, <1>5, <1>6, <1>7, <1>8, <1>9

\* So does every behaviour.
LEMMA DurableInvHolds == Spec => []DurableInv
  <1>1. Init => DurableInv
    <2> SUFFICES ASSUME Init PROVE DurableInv  OBVIOUS
    <2>1. /\ persisted = 0 /\ records = loaded /\ items \in 0 .. MaxStored /\ loaded \in {0, items}
      BY DEF Init
    <2>2. records - MaxHistory <= 0  BY <2>1, PersistenceAssumption
    <2> QED  BY <2>1, <2>2, PersistenceAssumption DEF DurableInv, Seqs
  <1>2. TypeInv /\ DurableInv /\ [Next]_vars => DurableInv'  BY DurableStep
  <1> QED  BY TypeInvHolds, <1>1, <1>2, PTL DEF Spec

\* Whatever statement fails, also the COMMIT: a record marked as persisted is in the
\* table once the worker is done with its task, except for those that a failed COMMIT
\* rolled back, or a full history dropped.
THEOREM MarkedIsDurable == Spec => []HistoryDurable
  <1>1. TypeInv /\ DurableInv => HistoryDurable
    BY DEF TypeInv, TypeOK, DurableInv, View, InTransaction, HistoryDurable, Unread
  <1> QED  BY TypeInvHolds, DurableInvHolds, <1>1, PTL

-----------------------------------------------------------------------------
(* Saves on their way *)

Holds(t) == spc[t] \in {"fetch", "clear", "push"}
Busy == wpc # "idle"

\* Before the stop signal: a save is with one saver, or in the queue, or with the
\* worker, and then the flag is set.
OnlySave == ~stopping =>
  /\ \A t, u \in Savers : Holds(t) /\ Holds(u) => t = u
  /\ Len(queue) <= 1
  /\ (\E t \in Savers : Holds(t)) => queue = << >> /\ ~Busy
  /\ queue # << >> => ~Busy
  /\ saving <=> (\E t \in Savers : Holds(t)) \/ queue # << >> \/ Busy

\* Until the stop signal every step keeps one save at most on its way.
LEMMA OnlyStep == ASSUME TypeInv, OnlySave, [Next]_vars PROVE OnlySave'
  <1>0. /\ queue \in Seq(SUBSET Parts) /\ saving \in BOOLEAN
        /\ spc \in [Savers -> {"idle", "erase", "save", "fetch", "clear", "push"}]
    BY DEF TypeInv, TypeOK
  <1> USE <1>0 DEF OnlySave, Holds, Busy, GoS, GoD, handlerVars, saverVars, workerVars
  <1>1. CASE Spend  BY <1>1 DEF Spend
  <1>2. CASE Refund  BY <1>2 DEF Refund
  <1>3. CASE Record  BY <1>3 DEF Record
  <1>4. CASE AddItem  BY <1>4 DEF AddItem
  <1>5. CASE MarkHistory  BY <1>5 DEF MarkHistory, MarkDirty
  <1>6. CASE MarkInventory  BY <1>6 DEF MarkInventory, MarkDirty
  <1>7. CASE MarkCurrency  BY <1>7 DEF MarkCurrency, MarkDirty
  <1>8. CASE MarkAgain  BY <1>8 DEF MarkAgain, MarkDirty
  <1>9. CASE AutoSaveTick  BY <1>9 DEF AutoSaveTick, Savers
  <1>10. CASE CheckTimeout  BY <1>10 DEF CheckTimeout, Savers
  <1>11. CASE LogoutClaim  BY <1>11 DEF LogoutClaim, Savers
  <1>12. CASE LogoutErase  BY <1>12 DEF LogoutErase, Savers
  <1>13. CASE Flush  BY <1>13 DEF Flush
  <1>14. CASE TakeTask  BY <1>14 DEF TakeTask
  <1>15. CASE BeginTransaction  BY <1>15 DEF BeginTransaction
  <1>16. CASE SaveCurrency  BY <1>16 DEF SaveCurrency
  <1>17. CASE SaveInventory  BY <1>17 DEF SaveInventory
  <1>18. CASE SaveGachaHistory  BY <1>18 DEF SaveGachaHistory
  <1>19. CASE Commit  BY <1>19 DEF Commit
  <1>20. CASE SqlFails  BY <1>20 DEF SqlFails
  <1>21. CASE SaveCache  BY <1>21 DEF SaveCache
  <1>22. CASE CacheFails  BY <1>22 DEF CacheFails
  <1>23. CASE ClearSaving  BY <1>23 DEF ClearSaving
  <1>24. ASSUME NEW t \in Savers, AsyncSavePlayer(t) PROVE OnlySave'
    <2>1. CASE SaveClaimed(t)  BY <2>1 DEF SaveClaimed
    <2>2. CASE SaveSkipped(t)  BY <2>2 DEF SaveSkipped
    <2>3. CASE FetchDirtyFlags(t)  BY <2>3 DEF FetchDirtyFlags
    <2>4. CASE NothingToSave(t)  BY <2>4 DEF NothingToSave
    <2>5. CASE PushTask(t)  BY <2>5 DEF PushTask
    <2> QED  BY <1>24, <2>1, <2>2, <2>3, <2>4, <2>5 DEF AsyncSavePlayer
  <1>25. CASE UNCHANGED vars  BY <1>25 DEF vars
  <1> QED
    BY <1>1, <1>2, <1>3, <1>4, <1>5, <1>6, <1>7, <1>8, <1>9, <1>10, <1>11, <1>12, <1>13,
       <1>14, <1>15, <1>16, <1>17, <1>18, <1>19, <1>20, <1>21, <1>22, <1>23, <1>24,
       <1>25
       DEF Next, Handler, Callers, DBWorker

\* Until the stop signal, which queues saves of its own, at most one save of a player
\* is on its way, and the flag says so, whatever fails.
THEOREM SavesDoNotOverlap == Spec => []OneSaveInFlight
  <1>1. ASSUME Init PROVE OnlySave
    <2>1. queue = << >> /\ Len(queue) = 0  BY <1>1 DEF Init
    <2>2. \A t \in Savers : ~Holds(t)  BY <1>1 DEF Init, Holds
    <2>3. ~saving /\ ~Busy  BY <1>1 DEF Init, Busy
    <2> QED  BY <2>1, <2>2, <2>3 DEF OnlySave
  <1>2. TypeInv /\ OnlySave /\ [Next]_vars => OnlySave'  BY OnlyStep
  <1>3. TypeInv /\ OnlySave => OneSaveInFlight
    <2> SUFFICES ASSUME TypeInv, OnlySave, ~stopping PROVE OneSaveInFlight
      BY DEF OneSaveInFlight
    <2> DEFINE Holders == {t \in Savers : Holds(t)}
    <2>1. Len(queue) \in 0 .. 1 /\ (queue = << >> <=> Len(queue) = 0)
      <3>1. queue \in Seq(SUBSET Parts)  BY DEF TypeInv, TypeOK
      <3>2. Len(queue) \in Nat /\ (queue = << >> <=> Len(queue) = 0)  BY <3>1
      <3>3. Len(queue) <= 1  BY DEF OnlySave
      <3> QED  BY <3>2, <3>3
    <2>2. InFlight = Cardinality(Holders) + Len(queue) + (IF Busy THEN 1 ELSE 0)
      BY DEF InFlight, Holds, Busy
    <2>3. CASE \E t \in Savers : Holds(t)
      <3>1. PICK t \in Savers : Holds(t)  BY <2>3
      <3>2. Holders = {t}  BY <3>1 DEF OnlySave
      <3>3. Cardinality(Holders) = 1  BY <3>2, FS_Singleton
      <3>4. queue = << >> /\ ~Busy /\ saving  BY <2>3 DEF OnlySave
      <3> HIDE DEF Holders
      <3> QED  BY <2>1, <2>2, <3>3, <3>4 DEF OneSaveInFlight
    <2>4. CASE ~\E t \in Savers : Holds(t)
      <3>1. Cardinality(Holders) = 0  BY <2>4, FS_EmptySet
      <3>2. saving <=> Len(queue) = 1 \/ Busy  BY <2>1, <2>4 DEF OnlySave
      <3>3. ~(Len(queue) = 1 /\ Busy)  BY <2>1 DEF OnlySave
      <3> HIDE DEF Holders
      <3>4. CASE Busy  BY <2>1, <2>2, <3>1, <3>2, <3>3, <3>4 DEF OneSaveInFlight
      <3>5. CASE ~Busy  BY <2>1, <2>2, <3>1, <3>2, <3>5 DEF OneSaveInFlight
      <3> QED  BY <3>4, <3>5
    <2> QED  BY <2>3, <2>4
  <1> QED  BY TypeInvHolds, <1>1, <1>2, <1>3, PTL DEF Spec

\* The flag is set only while a saver, the queue or the worker has a save.
Carried == saving => (\E t \in Savers : Holds(t)) \/ queue # << >> \/ Busy

\* Every step keeps that, failures and the stop signal included.
LEMMA CarriedStep == ASSUME TypeInv, Carried, [Next]_vars PROVE Carried'
  <1>0. /\ queue \in Seq(SUBSET Parts)
        /\ spc \in [Savers -> {"idle", "erase", "save", "fetch", "clear", "push"}]
    BY DEF TypeInv, TypeOK
  <1> USE <1>0 DEF Carried, Holds, Busy, GoS, GoD, handlerVars, saverVars, workerVars
  <1>1. CASE Spend  BY <1>1 DEF Spend
  <1>2. CASE Refund  BY <1>2 DEF Refund
  <1>3. CASE Record  BY <1>3 DEF Record
  <1>4. CASE AddItem  BY <1>4 DEF AddItem
  <1>5. CASE MarkHistory  BY <1>5 DEF MarkHistory, MarkDirty
  <1>6. CASE MarkInventory  BY <1>6 DEF MarkInventory, MarkDirty
  <1>7. CASE MarkCurrency  BY <1>7 DEF MarkCurrency, MarkDirty
  <1>8. CASE MarkAgain  BY <1>8 DEF MarkAgain, MarkDirty
  <1>9. CASE AutoSaveTick  BY <1>9 DEF AutoSaveTick, Savers
  <1>10. CASE CheckTimeout  BY <1>10 DEF CheckTimeout, Savers
  <1>11. CASE LogoutClaim  BY <1>11 DEF LogoutClaim, Savers
  <1>12. CASE LogoutErase  BY <1>12 DEF LogoutErase, Savers
  <1>13. CASE Flush  BY <1>13 DEF Flush
  <1>14. CASE TakeTask  BY <1>14 DEF TakeTask
  <1>15. CASE BeginTransaction  BY <1>15 DEF BeginTransaction
  <1>16. CASE SaveCurrency  BY <1>16 DEF SaveCurrency
  <1>17. CASE SaveInventory  BY <1>17 DEF SaveInventory
  <1>18. CASE SaveGachaHistory  BY <1>18 DEF SaveGachaHistory
  <1>19. CASE Commit  BY <1>19 DEF Commit
  <1>20. CASE SqlFails  BY <1>20 DEF SqlFails
  <1>21. CASE SaveCache  BY <1>21 DEF SaveCache
  <1>22. CASE CacheFails  BY <1>22 DEF CacheFails
  <1>23. CASE ClearSaving  BY <1>23 DEF ClearSaving
  <1>24. ASSUME NEW t \in Savers, AsyncSavePlayer(t) PROVE Carried'
    <2>1. CASE SaveClaimed(t)  BY <2>1 DEF SaveClaimed
    <2>2. CASE SaveSkipped(t)  BY <2>2 DEF SaveSkipped
    <2>3. CASE FetchDirtyFlags(t)  BY <2>3 DEF FetchDirtyFlags
    <2>4. CASE NothingToSave(t)  BY <2>4 DEF NothingToSave
    <2>5. CASE PushTask(t)  BY <2>5 DEF PushTask
    <2> QED  BY <1>24, <2>1, <2>2, <2>3, <2>4, <2>5 DEF AsyncSavePlayer
  <1>25. CASE UNCHANGED vars  BY <1>25 DEF vars
  <1> QED
    BY <1>1, <1>2, <1>3, <1>4, <1>5, <1>6, <1>7, <1>8, <1>9, <1>10, <1>11, <1>12, <1>13,
       <1>14, <1>15, <1>16, <1>17, <1>18, <1>19, <1>20, <1>21, <1>22, <1>23, <1>24,
       <1>25
       DEF Next, Handler, Callers, DBWorker

\* The flag that keeps other saves out is never left set without a save on its way
\* that will clear it, whatever fails.
THEOREM FlagIsCleared == Spec => []SavingEnds
  <1>1. Init => Carried  BY DEF Init, Carried
  <1>2. TypeInv /\ Carried /\ [Next]_vars => Carried'  BY CarriedStep
  <1>3. TypeInv /\ Carried => SavingEnds
    <2> SUFFICES ASSUME TypeInv, Carried, saving PROVE InFlight > 0  BY DEF SavingEnds
    <2> DEFINE Holders == {t \in Savers : Holds(t)}
    <2>1. Len(queue) \in Nat /\ (queue # << >> => Len(queue) > 0)  BY DEF TypeInv, TypeOK
    <2>2. InFlight = Cardinality(Holders) + Len(queue) + (IF Busy THEN 1 ELSE 0)
      BY DEF InFlight, Holds, Busy
    <2>3. IsFiniteSet(Holders)
      <3>1. IsFiniteSet({"main"})
        BY FS_Singleton
      <3>2. Savers = {"main"} \cup {"logout"}  BY DEF Savers
      <3>3. IsFiniteSet(Savers)  BY <3>1, <3>2, FS_AddElement
      <3> QED  BY <3>3, FS_Subset
    <2>4. Cardinality(Holders) \in Nat  BY <2>3, FS_CardinalityType
    <2>5. (\E t \in Savers : Holds(t)) => Cardinality(Holders) # 0
      BY <2>3, FS_EmptySet
    <2> HIDE DEF Holders
    <2> QED  BY <2>1, <2>2, <2>4, <2>5 DEF Carried
  <1> QED  BY TypeInvHolds, <1>1, <1>2, <1>3, PTL DEF Spec

-----------------------------------------------------------------------------
(* Nothing is forgotten *)

\* A part that is marked, or in a save that will still read it.
Before(part) == CASE part = "CURRENCY" -> {"begin", "currency"}
                  [] part = "INVENTORY" -> {"begin", "currency", "inventory"}
                  [] part = "HISTORY" -> {"begin", "currency", "inventory", "history"}
Owed(part) ==
  \/ part \in dirty
  \/ \E t \in Savers : part \in flags[t]
  \/ \E i \in 1 .. Len(queue) : part \in queue[i]
  \/ part \in work /\ wpc \in Before(part)

\* Only a saver that is about to queue a task has flags.
FlagsInv == \A t \in Savers : flags[t] # {} => spc[t] = "push"

\* Flags are taken once and given to one task.
LEMMA FlagsStep == ASSUME TypeInv, FlagsInv, [Next]_vars PROVE FlagsInv'
  <1>0. /\ spc \in [Savers -> {"idle", "erase", "save", "fetch", "clear", "push"}]
        /\ flags \in [Savers -> SUBSET Parts]
    BY DEF TypeInv, TypeOK
  <1> USE <1>0 DEF FlagsInv, GoS, handlerVars, saverVars, workerVars
  <1>1. CASE Spend  BY <1>1 DEF Spend
  <1>2. CASE Refund  BY <1>2 DEF Refund
  <1>3. CASE Record  BY <1>3 DEF Record
  <1>4. CASE AddItem  BY <1>4 DEF AddItem
  <1>5. CASE MarkHistory  BY <1>5 DEF MarkHistory, MarkDirty
  <1>6. CASE MarkInventory  BY <1>6 DEF MarkInventory, MarkDirty
  <1>7. CASE MarkCurrency  BY <1>7 DEF MarkCurrency, MarkDirty
  <1>8. CASE MarkAgain  BY <1>8 DEF MarkAgain, MarkDirty
  <1>9. CASE AutoSaveTick  BY <1>9 DEF AutoSaveTick, Savers
  <1>10. CASE CheckTimeout  BY <1>10 DEF CheckTimeout, Savers
  <1>11. CASE LogoutClaim  BY <1>11 DEF LogoutClaim, Savers
  <1>12. CASE LogoutErase  BY <1>12 DEF LogoutErase, Savers
  <1>13. CASE Flush  BY <1>13 DEF Flush
  <1>14. CASE TakeTask  BY <1>14 DEF TakeTask
  <1>15. CASE BeginTransaction  BY <1>15 DEF BeginTransaction
  <1>16. CASE SaveCurrency  BY <1>16 DEF SaveCurrency
  <1>17. CASE SaveInventory  BY <1>17 DEF SaveInventory
  <1>18. CASE SaveGachaHistory  BY <1>18 DEF SaveGachaHistory
  <1>19. CASE Commit  BY <1>19 DEF Commit
  <1>20. CASE SqlFails  BY <1>20 DEF SqlFails
  <1>21. CASE SaveCache  BY <1>21 DEF SaveCache
  <1>22. CASE CacheFails  BY <1>22 DEF CacheFails
  <1>23. CASE ClearSaving  BY <1>23 DEF ClearSaving
  <1>24. ASSUME NEW t \in Savers, AsyncSavePlayer(t) PROVE FlagsInv'
    <2>1. CASE SaveClaimed(t)  BY <2>1 DEF SaveClaimed
    <2>2. CASE SaveSkipped(t)  BY <2>2 DEF SaveSkipped
    <2>3. CASE FetchDirtyFlags(t)  BY <2>3 DEF FetchDirtyFlags
    <2>4. CASE NothingToSave(t)  BY <2>4 DEF NothingToSave
    <2>5. CASE PushTask(t)  BY <2>5 DEF PushTask
    <2> QED  BY <1>24, <2>1, <2>2, <2>3, <2>4, <2>5 DEF AsyncSavePlayer
  <1>25. CASE UNCHANGED vars  BY <1>25 DEF vars
  <1> QED
    BY <1>1, <1>2, <1>3, <1>4, <1>5, <1>6, <1>7, <1>8, <1>9, <1>10, <1>11, <1>12, <1>13,
       <1>14, <1>15, <1>16, <1>17, <1>18, <1>19, <1>20, <1>21, <1>22, <1>23, <1>24,
       <1>25
       DEF Next, Handler, Callers, DBWorker

\* So does every behaviour.
LEMMA FlagsInvHolds == Spec => []FlagsInv
  <1>1. Init => FlagsInv  BY DEF Init, FlagsInv
  <1>2. TypeInv /\ FlagsInv /\ [Next]_vars => FlagsInv'  BY FlagsStep
  <1> QED  BY TypeInvHolds, <1>1, <1>2, PTL DEF Spec

\* What has failed has failed.
LEMMA FaultsStay == ASSUME TypeInv, [Next]_vars PROVE faults' = faults \/ faults' > 0
  <1>1. faults \in Nat  BY PersistenceAssumption DEF TypeInv, TypeOK
  <1> QED
    BY <1>1 DEF Next, Handler, Spend, Refund, Record, AddItem, MarkHistory, MarkInventory,
       MarkCurrency, MarkAgain, MarkDirty, Callers, AutoSaveTick, CheckTimeout, LogoutClaim,
       LogoutErase, Flush, DBWorker, TakeTask, BeginTransaction, SaveCurrency, SaveInventory,
       SaveGachaHistory, Commit, SqlFails, SaveCache, CacheFails, ClearSaving,
       AsyncSavePlayer, SaveClaimed, SaveSkipped, FetchDirtyFlags, NothingToSave, PushTask,
       vars, workerVars

\* As long as nothing fails, a part is owed until the worker reads it.
LEMMA OwedStep ==
  ASSUME faults' = 0, TypeInv, FlagsInv, NEW part \in Parts, Owed(part), [Next]_vars
  PROVE  \/ Owed(part)'
         \/ part = "CURRENCY" /\ SaveCurrency /\ part \in work
         \/ part = "INVENTORY" /\ SaveInventory /\ part \in work
         \/ part = "HISTORY" /\ SaveGachaHistory /\ part \in work
  <1> DEFINE Kept == Owed(part)'
        \/ (part = "CURRENCY" /\ SaveCurrency /\ part \in work)
        \/ (part = "INVENTORY" /\ SaveInventory /\ part \in work)
        \/ (part = "HISTORY" /\ SaveGachaHistory /\ part \in work)
  <1> SUFFICES Kept  OBVIOUS
  <1>0. /\ queue \in Seq(SUBSET Parts) /\ flags \in [Savers -> SUBSET Parts]
        /\ faults \in 0 .. MaxFaults
    BY DEF TypeInv, TypeOK
  <1> USE <1>0 DEF Owed, Before, Parts, GoS, GoD, handlerVars, saverVars, workerVars
  <1>1. CASE Spend  BY <1>1 DEF Spend
  <1>2. CASE Refund  BY <1>2 DEF Refund
  <1>3. CASE Record  BY <1>3 DEF Record
  <1>4. CASE AddItem  BY <1>4 DEF AddItem
  <1>5. CASE MarkHistory  BY <1>5 DEF MarkHistory, MarkDirty
  <1>6. CASE MarkInventory  BY <1>6 DEF MarkInventory, MarkDirty
  <1>7. CASE MarkCurrency  BY <1>7 DEF MarkCurrency, MarkDirty
  <1>8. CASE MarkAgain  BY <1>8 DEF MarkAgain, MarkDirty
  <1>9. CASE AutoSaveTick  BY <1>9 DEF AutoSaveTick
  <1>10. CASE CheckTimeout  BY <1>10 DEF CheckTimeout
  <1>11. CASE LogoutClaim  BY <1>11 DEF LogoutClaim
  <1>12. CASE LogoutErase  BY <1>12 DEF LogoutErase
  <1>13. CASE Flush
    <2>1. /\ Len(queue') = Len(queue) + 1
          /\ \A i \in 1 .. Len(queue) : queue'[i] = queue[i]
      BY <1>13 DEF Flush
    <2> QED  BY <1>13, <2>1 DEF Flush
  <1>14. CASE TakeTask
    <2>1. /\ work' = queue[1] /\ wpc = "idle" /\ wpc' = "begin"
          /\ Len(queue') = Len(queue) - 1 /\ \A i \in 1 .. Len(queue') : queue'[i] = queue[i + 1]
          /\ UNCHANGED <<dirty, flags>>
      BY <1>14 DEF TakeTask
    <2>2. ASSUME NEW i \in 1 .. Len(queue), part \in queue[i] PROVE Owed(part)'
      <3>1. CASE i = 1  BY <2>1, <2>2, <3>1
      <3>2. CASE i > 1
        <4>1. i - 1 \in 1 .. Len(queue') /\ part \in queue'[i - 1]  BY <2>1, <2>2, <3>2
        <4> QED  BY <4>1
      <3> QED  BY <3>1, <3>2
    <2> QED  BY <2>1, <2>2
  <1>15. CASE BeginTransaction  BY <1>15 DEF BeginTransaction
  <1>16. CASE SaveCurrency  BY <1>16 DEF SaveCurrency
  <1>17. CASE SaveInventory  BY <1>17 DEF SaveInventory
  <1>18. CASE SaveGachaHistory  BY <1>18 DEF SaveGachaHistory
  <1>19. CASE Commit  BY <1>19 DEF Commit
  <1>20. CASE SqlFails  BY <1>20 DEF SqlFails
  <1>21. CASE SaveCache  BY <1>21 DEF SaveCache
  <1>22. CASE CacheFails  BY <1>22 DEF CacheFails
  <1>23. CASE ClearSaving  BY <1>23 DEF ClearSaving
  <1>24. ASSUME NEW t \in Savers, AsyncSavePlayer(t) PROVE Kept
    <2>1. CASE SaveClaimed(t)  BY <2>1 DEF SaveClaimed
    <2>2. CASE SaveSkipped(t)  BY <2>2 DEF SaveSkipped
    <2>3. CASE FetchDirtyFlags(t)
      <3>1. flags[t] = {}  BY <2>3 DEF FetchDirtyFlags, FlagsInv
      <3> QED  BY <2>3, <3>1 DEF FetchDirtyFlags
    <2>4. CASE NothingToSave(t)  BY <2>4 DEF NothingToSave
    <2>5. CASE PushTask(t)
      <3>1. /\ Len(queue') = Len(queue) + 1 /\ queue'[Len(queue) + 1] = flags[t]
            /\ \A i \in 1 .. Len(queue) : queue'[i] = queue[i]
        BY <2>5 DEF PushTask
      <3> QED  BY <2>5, <3>1 DEF PushTask
    <2> QED  BY <1>24, <2>1, <2>2, <2>3, <2>4, <2>5 DEF AsyncSavePlayer
  <1>25. CASE UNCHANGED vars  BY <1>25 DEF vars
  <1> QED
    BY <1>1, <1>2, <1>3, <1>4, <1>5, <1>6, <1>7, <1>8, <1>9, <1>10, <1>11, <1>12, <1>13,
       <1>14, <1>15, <1>16, <1>17, <1>18, <1>19, <1>20, <1>21, <1>22, <1>23, <1>24,
       <1>25
       DEF Next, Handler, Callers, DBWorker

\* A draw was refused.
Refused == draws > records - loaded + (IF hpc = "draw" THEN 1 ELSE 0)

\* From the first draw on, and unless a save failed or a draw was refused, the balance
\* is in the tables, or owed, or will be marked by the handler.
CurrencyInv == \/ faults > 0 \/ records = loaded \/ Refused
               \/ Owed("CURRENCY")
               \/ hpc \in {"draw", "markHistory", "adding", "markInventory", "markCurrency"}
               \/ View.money = money

\* Every step keeps that.
LEMMA CurrencyStep ==
  ASSUME TypeInv, FlagsInv, CurrencyInv, [Next]_vars
  PROVE  CurrencyInv'
  <1> SUFFICES ASSUME faults' = 0, faults = 0 PROVE CurrencyInv'
    <2>1. faults' \in Nat
      BY TypeStep, PersistenceAssumption DEF TypeInv, TypeOK
    <2> QED  BY <2>1, FaultsStay DEF CurrencyInv
  <1> DEFINE Still == Owed("CURRENCY") => Owed("CURRENCY")' 
                            \/ (wpc = "currency" /\ wpc' = "inventory" /\ "CURRENCY" \in work)
  <1>a. Still  BY OwedStep DEF Parts, SaveCurrency, GoD
  <1>b. "CURRENCY" \in dirty' => Owed("CURRENCY")'  BY DEF Owed
  <1>c. /\ db \in Tables /\ txn \in Tables
        /\ money \in Nat /\ items \in Nat /\ records \in Nat /\ loaded \in Nat /\ draws \in Nat
        /\ DrawsAgree
    BY PersistenceAssumption DEF TypeInv, TypeOK, Amounts
  <1> USE <1>a, <1>b, <1>c, PersistenceAssumption
      DEF CurrencyInv, Refused, DrawsAgree, View, InTransaction, Tables, GoH, GoS, GoD,
          playerVars, handlerVars, saverVars, workerVars
  <1>1. CASE Spend  BY <1>1 DEF Spend
  <1>2. CASE Refund  BY <1>2 DEF Refund
  <1>3. CASE Record  BY <1>3 DEF Record
  <1>4. CASE AddItem  BY <1>4 DEF AddItem
  <1>5. CASE MarkHistory  BY <1>5 DEF MarkHistory, MarkDirty
  <1>6. CASE MarkInventory  BY <1>6 DEF MarkInventory, MarkDirty
  <1>7. CASE MarkCurrency  BY <1>7 DEF MarkCurrency, MarkDirty
  <1>8. CASE MarkAgain  BY <1>8 DEF MarkAgain, MarkDirty
  <1>9. CASE AutoSaveTick  BY <1>9 DEF AutoSaveTick
  <1>10. CASE CheckTimeout  BY <1>10 DEF CheckTimeout
  <1>11. CASE LogoutClaim  BY <1>11 DEF LogoutClaim
  <1>12. CASE LogoutErase  BY <1>12 DEF LogoutErase
  <1>13. CASE Flush  BY <1>13 DEF Flush
  <1>14. CASE TakeTask  BY <1>14 DEF TakeTask
  <1>15. CASE BeginTransaction  BY <1>15 DEF BeginTransaction
  <1>16. CASE SaveCurrency  BY <1>16 DEF SaveCurrency
  <1>17. CASE SaveInventory  BY <1>17 DEF SaveInventory
  <1>18. CASE SaveGachaHistory
    <2>1. txn'.money = txn.money /\ txn'.items = txn.items  BY <1>18 DEF SaveGachaHistory, Inserted
    <2> QED  BY <1>18, <2>1 DEF SaveGachaHistory
  <1>19. CASE Commit  BY <1>19 DEF Commit
  <1>20. CASE SqlFails  BY <1>20 DEF SqlFails
  <1>21. CASE SaveCache  BY <1>21 DEF SaveCache
  <1>22. CASE CacheFails  BY <1>22 DEF CacheFails
  <1>23. CASE ClearSaving  BY <1>23 DEF ClearSaving
  <1>24. ASSUME NEW t \in Savers, AsyncSavePlayer(t) PROVE CurrencyInv'
    <2>1. CASE SaveClaimed(t)  BY <2>1 DEF SaveClaimed
    <2>2. CASE SaveSkipped(t)  BY <2>2 DEF SaveSkipped
    <2>3. CASE FetchDirtyFlags(t)  BY <2>3 DEF FetchDirtyFlags
    <2>4. CASE NothingToSave(t)  BY <2>4 DEF NothingToSave
    <2>5. CASE PushTask(t)  BY <2>5 DEF PushTask
    <2> QED  BY <1>24, <2>1, <2>2, <2>3, <2>4, <2>5 DEF AsyncSavePlayer
  <1>25. CASE UNCHANGED vars  BY <1>25 DEF vars
  <1> QED
    BY <1>1, <1>2, <1>3, <1>4, <1>5, <1>6, <1>7, <1>8, <1>9, <1>10, <1>11, <1>12, <1>13,
       <1>14, <1>15, <1>16, <1>17, <1>18, <1>19, <1>20, <1>21, <1>22, <1>23, <1>24,
       <1>25
       DEF Next, Handler, Callers, DBWorker

\* So are the items, refused draws or not.
InventoryInv == \/ faults > 0 \/ records = loaded
                \/ Owed("INVENTORY")
                \/ hpc \in {"markHistory", "adding", "markInventory"}
                \/ View.items = items

\* Every step keeps that.
LEMMA InventoryStep ==
  ASSUME TypeInv, FlagsInv, InventoryInv, [Next]_vars
  PROVE  InventoryInv'
  <1> SUFFICES ASSUME faults' = 0, faults = 0 PROVE InventoryInv'
    <2>1. faults' \in Nat
      BY TypeStep, PersistenceAssumption DEF TypeInv, TypeOK
    <2> QED  BY <2>1, FaultsStay DEF InventoryInv
  <1> DEFINE Still == Owed("INVENTORY") => Owed("INVENTORY")' 
                            \/ (wpc = "inventory" /\ wpc' = "history" /\ "INVENTORY" \in work)
  <1>a. Still  BY OwedStep DEF Parts, SaveInventory, GoD
  <1>b. "INVENTORY" \in dirty' => Owed("INVENTORY")'  BY DEF Owed
  <1>c. /\ db \in Tables /\ txn \in Tables
        /\ money \in Nat /\ items \in Nat /\ records \in Nat /\ loaded \in Nat
    BY PersistenceAssumption DEF TypeInv, TypeOK, Amounts
  <1> USE <1>a, <1>b, <1>c, PersistenceAssumption
      DEF InventoryInv, View, InTransaction, Tables, GoH, GoS, GoD,
          playerVars, handlerVars, saverVars, workerVars
  <1>1. CASE Spend  BY <1>1 DEF Spend
  <1>2. CASE Refund  BY <1>2 DEF Refund
  <1>3. CASE Record  BY <1>3 DEF Record
  <1>4. CASE AddItem  BY <1>4 DEF AddItem
  <1>5. CASE MarkHistory  BY <1>5 DEF MarkHistory, MarkDirty
  <1>6. CASE MarkInventory  BY <1>6 DEF MarkInventory, MarkDirty
  <1>7. CASE MarkCurrency  BY <1>7 DEF MarkCurrency, MarkDirty
  <1>8. CASE MarkAgain  BY <1>8 DEF MarkAgain, MarkDirty
  <1>9. CASE AutoSaveTick  BY <1>9 DEF AutoSaveTick
  <1>10. CASE CheckTimeout  BY <1>10 DEF CheckTimeout
  <1>11. CASE LogoutClaim  BY <1>11 DEF LogoutClaim
  <1>12. CASE LogoutErase  BY <1>12 DEF LogoutErase
  <1>13. CASE Flush  BY <1>13 DEF Flush
  <1>14. CASE TakeTask  BY <1>14 DEF TakeTask
  <1>15. CASE BeginTransaction  BY <1>15 DEF BeginTransaction
  <1>16. CASE SaveCurrency  BY <1>16 DEF SaveCurrency
  <1>17. CASE SaveInventory
    <2>1. CASE hpc = "adding"  BY <1>17, <2>1 DEF SaveInventory
    <2>2. CASE hpc /= "adding"
      <3>1. txn' = IF "INVENTORY" \in work THEN [txn EXCEPT !.items = items] ELSE txn
        BY <1>17, <2>2 DEF SaveInventory, Counted
      <3> QED  BY <1>17, <3>1 DEF SaveInventory
    <2> QED  BY <2>1, <2>2
  <1>18. CASE SaveGachaHistory
    <2>1. txn'.money = txn.money /\ txn'.items = txn.items  BY <1>18 DEF SaveGachaHistory, Inserted
    <2> QED  BY <1>18, <2>1 DEF SaveGachaHistory
  <1>19. CASE Commit  BY <1>19 DEF Commit
  <1>20. CASE SqlFails  BY <1>20 DEF SqlFails
  <1>21. CASE SaveCache  BY <1>21 DEF SaveCache
  <1>22. CASE CacheFails  BY <1>22 DEF CacheFails
  <1>23. CASE ClearSaving  BY <1>23 DEF ClearSaving
  <1>24. ASSUME NEW t \in Savers, AsyncSavePlayer(t) PROVE InventoryInv'
    <2>1. CASE SaveClaimed(t)  BY <2>1 DEF SaveClaimed
    <2>2. CASE SaveSkipped(t)  BY <2>2 DEF SaveSkipped
    <2>3. CASE FetchDirtyFlags(t)  BY <2>3 DEF FetchDirtyFlags
    <2>4. CASE NothingToSave(t)  BY <2>4 DEF NothingToSave
    <2>5. CASE PushTask(t)  BY <2>5 DEF PushTask
    <2> QED  BY <1>24, <2>1, <2>2, <2>3, <2>4, <2>5 DEF AsyncSavePlayer
  <1>25. CASE UNCHANGED vars  BY <1>25 DEF vars
  <1> QED
    BY <1>1, <1>2, <1>3, <1>4, <1>5, <1>6, <1>7, <1>8, <1>9, <1>10, <1>11, <1>12, <1>13,
       <1>14, <1>15, <1>16, <1>17, <1>18, <1>19, <1>20, <1>21, <1>22, <1>23, <1>24,
       <1>25
       DEF Next, Handler, Callers, DBWorker

\* So are the records that are not lost.
RecordedInv == \/ faults > 0
               \/ Owed("HISTORY")
               \/ hpc = "markHistory"
               \/ \A k \in Seqs \ lost : View.rows[k] >= 1 <=> k <= records

\* Every step keeps that.
LEMMA RecordedStep ==
  ASSUME TypeInv, FlagsInv, RowsInv, DurableInv, RecordedInv, [Next]_vars
  PROVE  RecordedInv'
  <1> SUFFICES ASSUME faults' = 0, faults = 0 PROVE RecordedInv'
    <2>1. faults' \in Nat
      BY TypeStep, PersistenceAssumption DEF TypeInv, TypeOK
    <2> QED  BY <2>1, FaultsStay DEF RecordedInv
  <1> DEFINE Still == Owed("HISTORY") => Owed("HISTORY")' 
                            \/ (wpc = "history" /\ wpc' = "commit" /\ "HISTORY" \in work)
  <1>a. Still  BY OwedStep DEF Parts, SaveGachaHistory, GoD
  <1>b. "HISTORY" \in dirty' => Owed("HISTORY")'  BY DEF Owed
  <1>c. /\ db \in Tables /\ txn \in Tables /\ loaded <= records
        /\ records \in Nat /\ loaded \in Nat /\ persisted \in 0 .. records
    BY PersistenceAssumption DEF TypeInv, TypeOK, DrawsAgree, Amounts
  <1> USE <1>a, <1>b, <1>c, PersistenceAssumption
      DEF RecordedInv, View, InTransaction, Tables, GoH, GoS, GoD,
          playerVars, handlerVars, saverVars, workerVars
  <1>1. CASE Spend  BY <1>1 DEF Spend
  <1>2. CASE Refund  BY <1>2 DEF Refund
  <1>3. CASE Record  BY <1>3 DEF Record
  <1>4. CASE AddItem  BY <1>4 DEF AddItem
  <1>5. CASE MarkHistory  BY <1>5 DEF MarkHistory, MarkDirty
  <1>6. CASE MarkInventory  BY <1>6 DEF MarkInventory, MarkDirty
  <1>7. CASE MarkCurrency  BY <1>7 DEF MarkCurrency, MarkDirty
  <1>8. CASE MarkAgain  BY <1>8 DEF MarkAgain, MarkDirty
  <1>9. CASE AutoSaveTick  BY <1>9 DEF AutoSaveTick
  <1>10. CASE CheckTimeout  BY <1>10 DEF CheckTimeout
  <1>11. CASE LogoutClaim  BY <1>11 DEF LogoutClaim
  <1>12. CASE LogoutErase  BY <1>12 DEF LogoutErase
  <1>13. CASE Flush  BY <1>13 DEF Flush
  <1>14. CASE TakeTask  BY <1>14 DEF TakeTask
  <1>15. CASE BeginTransaction  BY <1>15 DEF BeginTransaction
  <1>16. CASE SaveCurrency
    <2>1. txn'.rows = txn.rows  BY <1>16 DEF SaveCurrency
    <2> QED  BY <1>16, <2>1 DEF SaveCurrency
  <1>17. CASE SaveInventory
    <2>1. txn'.rows = txn.rows  BY <1>17 DEF SaveInventory
    <2> QED  BY <1>17, <2>1 DEF SaveInventory
  <1>18. CASE SaveGachaHistory
    <2>1. CASE "HISTORY" \in work
      <3>1. \A k \in Seqs \ lost :
              /\ k <= persisted => txn.rows[k] >= 1
              /\ k > persisted => txn.rows[k] = Stored(k) /\ k > records - MaxHistory
        BY <1>18 DEF SaveGachaHistory, DurableInv, RowsInv, Seqs
      <3>2. \A k \in Seqs \ lost : k \in Unpersisted <=> k > persisted /\ k <= records
        BY <3>1 DEF Unpersisted, Seqs
      <3>3. \A k \in Seqs :
              txn'.rows[k] = IF k \in Unpersisted THEN txn.rows[k] + 1 ELSE txn.rows[k]
        <4>1. CASE Unpersisted = {}  BY <1>18, <2>1, <4>1 DEF SaveGachaHistory
        <4>2. CASE Unpersisted /= {}  BY <1>18, <2>1, <4>2 DEF SaveGachaHistory, Inserted
        <4> QED  BY <4>1, <4>2
      <3>4. wpc' = "commit" /\ UNCHANGED <<records, lost>>  BY <1>18 DEF SaveGachaHistory
      <3>5. ASSUME NEW k \in Seqs \ lost PROVE txn'.rows[k] >= 1 <=> k <= records
        <4>0. k \in Nat /\ txn.rows[k] \in Nat  BY DEF Seqs
        <4>1. CASE k <= persisted  BY <4>0, <4>1, <3>1, <3>2, <3>3
        <4>2. CASE k > persisted
          <5>1. Stored(k) \in Nat /\ (k > records => Stored(k) = 0)  BY <4>0 DEF Stored
          <5> QED  BY <4>0, <4>2, <5>1, <3>1, <3>2, <3>3
        <4> QED  BY <4>0, <4>1, <4>2
      <3> QED  BY <3>4, <3>5
    <2>2. CASE "HISTORY" \notin work  BY <1>18, <2>2 DEF SaveGachaHistory
    <2> QED  BY <2>1, <2>2
  <1>19. CASE Commit  BY <1>19 DEF Commit
  <1>20. CASE SqlFails  BY <1>20 DEF SqlFails
  <1>21. CASE SaveCache  BY <1>21 DEF SaveCache
  <1>22. CASE CacheFails  BY <1>22 DEF CacheFails
  <1>23. CASE ClearSaving  BY <1>23 DEF ClearSaving
  <1>24. ASSUME NEW t \in Savers, AsyncSavePlayer(t) PROVE RecordedInv'
    <2>1. CASE SaveClaimed(t)  BY <2>1 DEF SaveClaimed
    <2>2. CASE SaveSkipped(t)  BY <2>2 DEF SaveSkipped
    <2>3. CASE FetchDirtyFlags(t)  BY <2>3 DEF FetchDirtyFlags
    <2>4. CASE NothingToSave(t)  BY <2>4 DEF NothingToSave
    <2>5. CASE PushTask(t)  BY <2>5 DEF PushTask
    <2> QED  BY <1>24, <2>1, <2>2, <2>3, <2>4, <2>5 DEF AsyncSavePlayer
  <1>25. CASE UNCHANGED vars  BY <1>25 DEF vars
  <1> QED
    BY <1>1, <1>2, <1>3, <1>4, <1>5, <1>6, <1>7, <1>8, <1>9, <1>10, <1>11, <1>12, <1>13,
       <1>14, <1>15, <1>16, <1>17, <1>18, <1>19, <1>20, <1>21, <1>22, <1>23, <1>24,
       <1>25
       DEF Next, Handler, Callers, DBWorker

\* Until a save fails, whatever was drawn and is not in the database is marked, when
\* no handler runs and no save is on its way.
THEOREM MarksAreComplete == Spec => []NothingForgotten
  <1>1. ASSUME Init PROVE CurrencyInv /\ InventoryInv /\ RecordedInv
    <2>1. View = db /\ records = loaded  BY <1>1 DEF Init, View, InTransaction
    <2>2. db.rows = [k \in Seqs |-> Stored(k)]  BY <1>1 DEF Init
    <2>3. \A k \in Seqs : View.rows[k] >= 1 <=> k <= records  BY <2>1, <2>2 DEF Stored
    <2> QED  BY <2>1, <2>3 DEF CurrencyInv, InventoryInv, RecordedInv
  <1>2. /\ TypeInv /\ FlagsInv /\ RowsInv /\ DurableInv
        /\ CurrencyInv /\ InventoryInv /\ RecordedInv /\ [Next]_vars
        => CurrencyInv' /\ InventoryInv' /\ RecordedInv'
    BY CurrencyStep, InventoryStep, RecordedStep
  <1>3. TypeInv /\ CurrencyInv /\ InventoryInv /\ RecordedInv => NothingForgotten
    <2> SUFFICES ASSUME TypeInv, CurrencyInv, InventoryInv, RecordedInv, Resting,
                        records > loaded, faults = 0
                 PROVE  /\ "CURRENCY" \in dirty \/ db.money = money \/ draws > records - loaded
                        /\ "INVENTORY" \in dirty \/ db.items = items
                        /\ "HISTORY" \in dirty \/ RowsExact
      BY DEF NothingForgotten
    <2>1. \A part \in Parts : Owed(part) => part \in dirty
      <3>1. wpc \notin {"begin", "currency", "inventory", "history"}  BY DEF Resting, Unread
      <3>2. \A part \in Parts : wpc \notin Before(part)  BY <3>1 DEF Before, Parts
      <3>3. 1 .. Len(queue) = {}  BY DEF Resting
      <3> QED  BY <3>2, <3>3 DEF Owed, Resting
    <2>2. hpc = "idle" /\ View = db  BY DEF Resting, Unread, View, InTransaction
    <2>3. records \in Nat /\ loaded \in Nat /\ draws \in Nat
      BY PersistenceAssumption DEF TypeInv, TypeOK, Amounts
    <2> QED
      BY <2>1, <2>2, <2>3 DEF Parts, CurrencyInv, Refused, InventoryInv, RecordedInv, RowsExact
  <1> QED
    BY TypeInvHolds, FlagsInvHolds, RowsInvHolds, DurableInvHolds, <1>1, <1>2, <1>3, PTL DEF Spec

-----------------------------------------------------------------------------
(* The cache *)

\* A cache that is behind the committed rows is about to be written, by this save
\* or by the next.
CacheInv ==
  \/ faults > 0
  \/ wpc \in {"history", "commit", "cache"}
  \/ Owed("INVENTORY") \/ hpc \in {"adding", "markInventory"}
  \/ cache.items >= db.items

\* Every step keeps that.
LEMMA CacheStep == ASSUME TypeInv, FlagsInv, CacheInv, [Next]_vars PROVE CacheInv'
  <1> SUFFICES ASSUME faults' = 0, faults = 0 PROVE CacheInv'
    <2>1. faults' \in Nat
      BY TypeStep, PersistenceAssumption DEF TypeInv, TypeOK
    <2> QED  BY <2>1, FaultsStay DEF CacheInv
  <1> DEFINE Still == Owed("INVENTORY") => Owed("INVENTORY")'
                        \/ (wpc = "inventory" /\ wpc' = "history" /\ "INVENTORY" \in work)
  <1>a. Still  BY OwedStep DEF Parts, SaveInventory, GoD
  <1>b. "INVENTORY" \in dirty' => Owed("INVENTORY")'  BY DEF Owed
  <1>c. /\ db \in Tables /\ txn \in Tables
        /\ items \in Nat /\ NotAhead(db) /\ cache \in [money : Amounts, items : Amounts]
    BY PersistenceAssumption DEF TypeInv, TypeOK, Amounts
  <1> USE <1>a, <1>b, <1>c, PersistenceAssumption
      DEF CacheInv, NotAhead, Tables, Amounts, GoH, GoS, GoD,
          playerVars, handlerVars, saverVars, workerVars
  <1>1. CASE Spend  BY <1>1 DEF Spend
  <1>2. CASE Refund  BY <1>2 DEF Refund
  <1>3. CASE Record  BY <1>3 DEF Record
  <1>4. CASE AddItem  BY <1>4 DEF AddItem
  <1>5. CASE MarkHistory  BY <1>5 DEF MarkHistory, MarkDirty
  <1>6. CASE MarkInventory  BY <1>6 DEF MarkInventory, MarkDirty
  <1>7. CASE MarkCurrency  BY <1>7 DEF MarkCurrency, MarkDirty
  <1>8. CASE MarkAgain  BY <1>8 DEF MarkAgain, MarkDirty
  <1>9. CASE AutoSaveTick  BY <1>9 DEF AutoSaveTick
  <1>10. CASE CheckTimeout  BY <1>10 DEF CheckTimeout
  <1>11. CASE LogoutClaim  BY <1>11 DEF LogoutClaim
  <1>12. CASE LogoutErase  BY <1>12 DEF LogoutErase
  <1>13. CASE Flush  BY <1>13 DEF Flush
  <1>14. CASE TakeTask  BY <1>14 DEF TakeTask
  <1>15. CASE BeginTransaction  BY <1>15 DEF BeginTransaction
  <1>16. CASE SaveCurrency  BY <1>16 DEF SaveCurrency
  <1>17. CASE SaveInventory  BY <1>17 DEF SaveInventory
  <1>18. CASE SaveGachaHistory  BY <1>18 DEF SaveGachaHistory
  <1>19. CASE Commit  BY <1>19 DEF Commit
  <1>20. CASE SqlFails  BY <1>20 DEF SqlFails
  <1>21. CASE SaveCache
    <2>1. CASE hpc = "adding"  BY <1>21, <2>1 DEF SaveCache
    <2>2. CASE hpc /= "adding"
      <3>1. cache' = [money |-> money, items |-> items]  BY <1>21, <2>2 DEF SaveCache, Counted
      <3>2. cache'.items >= db.items /\ db' = db  BY <1>21, <2>2, <3>1 DEF SaveCache
      <3> QED  BY <3>2
    <2> QED  BY <2>1, <2>2
  <1>22. CASE CacheFails  BY <1>22 DEF CacheFails
  <1>23. CASE ClearSaving  BY <1>23 DEF ClearSaving
  <1>24. ASSUME NEW t \in Savers, AsyncSavePlayer(t) PROVE CacheInv'
    <2>1. CASE SaveClaimed(t)  BY <2>1 DEF SaveClaimed
    <2>2. CASE SaveSkipped(t)  BY <2>2 DEF SaveSkipped
    <2>3. CASE FetchDirtyFlags(t)  BY <2>3 DEF FetchDirtyFlags
    <2>4. CASE NothingToSave(t)  BY <2>4 DEF NothingToSave
    <2>5. CASE PushTask(t)  BY <2>5 DEF PushTask
    <2> QED  BY <1>24, <2>1, <2>2, <2>3, <2>4, <2>5 DEF AsyncSavePlayer
  <1>25. CASE UNCHANGED vars  BY <1>25 DEF vars
  <1> QED
    BY <1>1, <1>2, <1>3, <1>4, <1>5, <1>6, <1>7, <1>8, <1>9, <1>10, <1>11, <1>12, <1>13,
       <1>14, <1>15, <1>16, <1>17, <1>18, <1>19, <1>20, <1>21, <1>22, <1>23, <1>24,
       <1>25
       DEF Next, Handler, Callers, DBWorker

\* Until something fails, a cache that is behind the database is about to be written
\* again.
THEOREM CacheKeepsUp == Spec => []CacheNotBehind
  <1>1. Init => CacheInv
    <2>1. Init => TypeInv  BY InitType
    <2>2. Init => cache.items = items /\ hpc = "idle"  BY DEF Init
    <2>3. TypeInv /\ cache.items = items /\ hpc = "idle" => cache.items >= db.items
      BY PersistenceAssumption DEF TypeInv, TypeOK, NotAhead, Tables, Amounts
    <2> QED  BY <2>1, <2>2, <2>3 DEF CacheInv
  <1>2. TypeInv /\ FlagsInv /\ CacheInv /\ [Next]_vars => CacheInv'  BY CacheStep
  <1>3. TypeInv /\ CacheInv => CacheNotBehind
    <2> SUFFICES ASSUME TypeInv, CacheInv, Resting, wpc = "idle", faults = 0,
                        "INVENTORY" \notin dirty
                 PROVE  cache.items >= db.items
      BY DEF CacheNotBehind
    <2>1. ~Owed("INVENTORY")
      <3>1. 1 .. Len(queue) = {}  BY DEF Resting
      <3> QED  BY <3>1 DEF Owed, Before, Resting
    <2> QED  BY <2>1 DEF CacheInv, Resting
  <1> QED  BY TypeInvHolds, FlagsInvHolds, <1>1, <1>2, <1>3, PTL DEF Spec
=============================================================================
