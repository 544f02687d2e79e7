------------------------------ MODULE KVCache ------------------------------
(***************************************************************************)
(* IneryCompositeKVCache (persistence/dbaccess.h): a write-back cache of   *)
(* one key prefix, stacked.  Level 1 is bound to a LevelDB database        *)
(* (pDbAccess), every level above it to the cache below (pBase).  A level  *)
(* keeps in mapData what was written at it and also what was read through  *)
(* it; an erased key stays in mapData as an empty value (a tombstone)      *)
(* until it reaches the database.  While pDbOpLogMap is set on a level,    *)
(* each write there first logs the value it replaces, so that UndoDataList *)
(* can put it back.                                                        *)
(*                                                                         *)
(* The caller's protocol is external to the code and appears as guards:    *)
(* only the innermost open cache is written; a cache whose writes are      *)
(* being logged is not cleared or destroyed, and nothing is flushed into   *)
(* it (SetDataToSelf does not log).                                        *)
(* Operations on an empty key return false before they touch any state     *)
(* (dbaccess.h:393, 405, 422, 430) and are not modelled.                   *)
(***************************************************************************)
EXTENDS Integers, Sequences

CONSTANTS
    Key, Value, Empty,
    Absent,      \* "no entry": the key is not in mapData, or not in the database
    MaxLevel,    \* bound on the caches stacked, the database-bound one included
    MaxLog       \* bound on the entries of one operation log

ASSUME EmptyAssumption == Empty \notin Value
ASSUME AbsentAssumption == Absent \notin Value \union {Empty}
ASSUME BoundAssumption == MaxLevel \in Nat \ {0} /\ MaxLog \in Nat

VARIABLES
    top,         \* the innermost open cache
    mapData,     \* mapData[l][k]: the entry of key k in the cache of level l
    db,          \* db[k]: the record of key k in the database
    logged,      \* the level whose pDbOpLogMap is set, 0 when none is
    opLog        \* the CDbOpLogs collected there: sequence of [key, old]

vars == <<top, mapData, db, logged, opLog>>

Level == 1..MaxLevel
Data == Value \union {Empty}
Entry == Data \union {Absent}
Cleared == [k \in Key |-> Absent]

TypeOK ==
    /\ top \in Level
    /\ mapData \in [Level -> [Key -> Entry]]
    /\ db \in [Key -> Entry]
    /\ logged \in 0..top
    /\ opLog \in Seq([key : Key, old : Data])

-----------------------------------------------------------------------------
(* Lookup in a stack of maps m over a database d; level 0 is the database. *)

At(m, d, i, k) == IF i = 0 THEN d[k] ELSE m[i][k]

Holders(m, d, l, k) == {i \in 0..l : At(m, d, i, k) # Absent}

Nearest(m, d, l, k) ==
    CHOOSE i \in Holders(m, d, l, k) : \A j \in Holders(m, d, l, k) : j <= i

\* What GetData gives at level l: Empty stands for its false.
Lookup(m, d, l, k) ==
    IF Holders(m, d, l, k) = {} THEN Empty ELSE At(m, d, Nearest(m, d, l, k), k)

Found(l, k) == Lookup(mapData, db, l, k)

\* GetDataIt: the entry found is copied into every level it was read through,
\* tombstones included; a key found nowhere leaves no entry.
GetDataIt(l, k) ==
    [i \in Level |->
        IF Holders(mapData, db, l, k) # {} /\ Nearest(mapData, db, l, k) < i /\ i <= l
        THEN [mapData[i] EXCEPT ![k] = Found(l, k)]
        ELSE mapData[i]]

\* AddOpLog: only the replaced value is kept (DB_OP_LOG_NEW_VALUE is not defined).
AddOpLog(k, old) ==
    IF logged = top
    THEN Len(opLog) < MaxLog /\ opLog' = Append(opLog, [key |-> k, old |-> old])
    ELSE UNCHANGED opLog

-----------------------------------------------------------------------------
Init ==
    /\ top = 1
    /\ mapData = [l \in Level |-> Cleared]
    /\ db \in [Key -> Value \union {Absent}]
    /\ logged = 0
    /\ opLog = <<>>

\* A cache constructed on (or SetBase to) the innermost one.
Open ==
    /\ top < MaxLevel
    /\ top' = top + 1
    /\ UNCHANGED <<mapData, db, logged, opLog>>

\* The innermost cache is destroyed without a Flush.
Drop ==
    /\ top > 1
    /\ logged # top
    /\ mapData' = [mapData EXCEPT ![top] = Cleared]
    /\ top' = top - 1
    /\ UNCHANGED <<db, logged, opLog>>

\* Clear, called by itself.
Clear ==
    /\ logged # top
    /\ mapData' = [mapData EXCEPT ![top] = Cleared]
    /\ UNCHANGED <<top, db, logged, opLog>>

\* GetData and HasData, at any open level.
GetData(l, k) ==
    /\ mapData' = GetDataIt(l, k)
    /\ UNCHANGED <<top, db, logged, opLog>>

\* SetData: a key found nowhere is logged as empty.
SetData(k, v) ==
    /\ AddOpLog(k, Found(top, k))
    /\ mapData' = [GetDataIt(top, k) EXCEPT ![top][k] = v]
    /\ UNCHANGED <<top, db, logged>>

\* (mutant of EraseData: the entry is removed instead of left as a tombstone)
EraseDataNoTombstone(k) ==
    /\ IF Found(top, k) = Empty THEN UNCHANGED opLog ELSE AddOpLog(k, Found(top, k))
    /\ mapData' = [mapData EXCEPT ![top][k] = Absent]
    /\ UNCHANGED <<top, db, logged>>

\* EraseData: a key that has no value is left as the lookup left it.
EraseData(k) ==
    /\ IF Found(top, k) = Empty
       THEN /\ mapData' = GetDataIt(top, k)
            /\ UNCHANGED opLog
       ELSE /\ AddOpLog(k, Found(top, k))
            /\ mapData' = [GetDataIt(top, k) EXCEPT ![top][k] = Empty]
    /\ UNCHANGED <<top, db, logged>>

\* Flush of a cache into its base: every entry, read or written, goes through
\* SetDataToSelf of the base.
FlushToBase(l) ==
    /\ logged # l - 1
    /\ mapData' = [mapData EXCEPT
            ![l - 1] = [k \in Key |-> IF mapData[l][k] = Absent THEN @[k] ELSE mapData[l][k]],
            ![l] = Cleared]
    /\ UNCHANGED <<top, db, logged, opLog>>

\* (mutant of FlushToDb: an empty entry is written like any other)
FlushToDbNoErase ==
    /\ db' = [k \in Key |-> IF mapData[1][k] = Absent THEN db[k] ELSE mapData[1][k]]
    /\ mapData' = [mapData EXCEPT ![1] = Cleared]
    /\ UNCHANGED <<top, logged, opLog>>

\* Flush of the database-bound cache: one synced batch, empty entries erased.
FlushToDb ==
    /\ db' = [k \in Key |-> IF mapData[1][k] = Absent THEN db[k]
                            ELSE IF mapData[1][k] = Empty THEN Absent
                            ELSE mapData[1][k]]
    /\ mapData' = [mapData EXCEPT ![1] = Cleared]
    /\ UNCHANGED <<top, logged, opLog>>

\* SetDbOpLogMap(&log) and SetDbOpLogMap(nullptr), as IneryTxUndoOpLogger calls them.
StartOpLog ==
    /\ logged = 0
    /\ logged' = top
    /\ UNCHANGED <<top, mapData, db, opLog>>

StopOpLog ==
    /\ logged # 0
    /\ logged' = 0
    /\ opLog' = <<>>
    /\ UNCHANGED <<top, mapData, db>>

\* UndoDataList replays a log from its end with SetDataToSelf, so the earliest
\* entry of a key is the one left (UndoIsReplay compares this with the replay).
LogOf(log, k) == {i \in DOMAIN log : log[i].key = k}
\* (mutant of First: the log is replayed from its start)
FirstIsLatest(log, k) == CHOOSE i \in LogOf(log, k) : \A j \in LogOf(log, k) : j <= i

First(log, k) == CHOOSE i \in LogOf(log, k) : \A j \in LogOf(log, k) : i <= j
Undone(log, f) ==
    [k \in Key |-> IF LogOf(log, k) = {} THEN f[k] ELSE log[First(log, k)].old]

UndoDataList ==
    /\ logged = top
    /\ mapData' = [mapData EXCEPT ![top] = Undone(opLog, mapData[top])]
    /\ logged' = 0
    /\ opLog' = <<>>
    /\ UNCHANGED <<top, db>>

\* The process ends and starts again: only the database is left.
Restart ==
    /\ top' = 1
    /\ mapData' = [l \in Level |-> Cleared]
    /\ logged' = 0
    /\ opLog' = <<>>
    /\ UNCHANGED db

Next ==
    \/ Open \/ Drop \/ Clear \/ FlushToDb \/ StartOpLog \/ StopOpLog \/ UndoDataList \/ Restart
    \/ \E l \in 1..top, k \in Key : GetData(l, k)
    \/ \E k \in Key : EraseData(k)
    \/ \E k \in Key, v \in Data : SetData(k, v)
    \/ \E l \in 2..top : FlushToBase(l)

Spec == Init /\ [][Next]_vars

-----------------------------------------------------------------------------
(* What the caches mean: the refinement of KVStore. *)

View == [l \in 1..top |-> [k \in Key |-> Found(l, k)]]

DbView == [k \in Key |-> Found(0, k)]

\* The view an undo would restore, computed from the log and the present caches.
Savepoint ==
    IF logged = 0 THEN [k \in Key |-> Empty] ELSE Undone(opLog, View[logged])

Store == INSTANCE KVStore
    WITH view <- View, disk <- DbView, saved <- logged, savepoint <- Savepoint

\* What each operation is in the store.
StepsCorrespond ==
    /\ Open => Store!Begin
    /\ Drop => Store!Abort
    /\ Clear => Store!Reset
    /\ \A l \in 1..top, k \in Key : GetData(l, k) => UNCHANGED Store!vars
    /\ \A k \in Key, v \in Data : SetData(k, v) => Store!Put(k, v)
    /\ \A k \in Key : EraseData(k) => Store!Put(k, Empty)
    /\ \A l \in 2..top : FlushToBase(l) => Store!Commit(l)
    /\ FlushToDb => Store!Persist
    /\ StartOpLog => Store!Save
    /\ StopOpLog => Store!Release
    /\ UndoDataList => Store!Rollback
    /\ Restart => Store!Crash

\* The stack of caches behaves as a store with nested transactions and one
\* savepoint, and each operation of the code is the operation of the store it is
\* named after: reading through changes no view, a write is the write of that value,
\* an erased key stays erased over a base or a database that still holds it, a flush
\* moves exactly the view of a cache into its base, and replaying the log restores
\* the view it was started on.
ImplementsStore == Store!Spec /\ [][StepsCorrespond]_vars

\* The database holds no empty record, the assumption InerySimpleKVCache asserts
\* when it reads one (dbaccess.h:746) and GetCount and the iterators rely on.
NoEmptyRecord == \A k \in Key : db[k] # Empty

\* What the proofs rest on besides the types: a level that is not open holds
\* nothing, so that a cache opened there starts from the view below it (SetBase
\* asserts it, dbaccess.h:378), and a log is kept only while a level is logged.
ClosedIsEmpty == \A l \in Level : l > top => mapData[l] = Cleared
LogMatchesLevel == logged = 0 => opLog = <<>>
IInv == TypeOK /\ ClosedIsEmpty /\ LogMatchesLevel
=============================================================================
