--------------------------- MODULE SimpleKVCache ---------------------------
(***************************************************************************)
(* InerySimpleKVCache (persistence/dbaccess.h): the cache of a prefix that *)
(* has one value and no key.  A level holds a shared_ptr to its value, and *)
(* passes the pointer itself, not the value, to its base when it flushes;  *)
(* so the module keeps the heap, where two levels could come to share an   *)
(* object.  Levels are stacked as in KVCache, level 1 on the database.     *)
(***************************************************************************)
EXTENDS Integers, Sequences, Functions

CONSTANTS
    Value, Empty,
    NoRecord,    \* the database has no record of the prefix
    Null,        \* nullptr
    Ref,         \* the objects make_shared can return
    MaxLevel,    \* bound on the caches stacked
    MaxLog       \* bound on the entries of one operation log

\* There is a root cache; nullptr is no object, and neither the empty value nor the absence
\* of a record is a value.
ASSUME SimpleConstants ==
    /\ MaxLevel \in Nat \ {0}
    /\ Null \notin Ref /\ Empty \notin Value /\ NoRecord \notin Value \union {Empty}

VARIABLES
    top,         \* the innermost open cache
    ptrData,     \* ptrData[l]: the object of level l, or Null
    heap,        \* heap[r]: the value of object r (Empty while r is free)
    db,          \* the record in the database
    logged,      \* the level whose pDbOpLogMap is set, 0 when none is
    opLog        \* the replaced values logged there

vars == <<top, ptrData, heap, db, logged, opLog>>

Level == 1..MaxLevel
Data == Value \union {Empty}

-----------------------------------------------------------------------------
Held(p, l) == {i \in 1..l : p[i] # Null}
InUse(p) == {p[i] : i \in Held(p, MaxLevel)}
Collected(p, h) == [r \in Ref |-> IF r \in InUse(p) THEN h[r] ELSE Empty]

\* The level GetDataPtr finds the value at from level l: the nearest that holds an
\* object, 0 for the database, l + 1 when there is nothing to find.
Source(l) ==
    IF Held(ptrData, l) # {}
    THEN CHOOSE i \in Held(ptrData, l) : \A j \in Held(ptrData, l) : j <= i
    ELSE IF db # NoRecord THEN 0 ELSE l + 1

Found(l) ==
    IF Source(l) > l THEN Empty
    ELSE IF Source(l) = 0 THEN db ELSE heap[ptrData[Source(l)]]

\* GetDataPtr: each level it is read through gets a copy of its own.
GetDataPtr(l) ==
    {[ptr |-> [i \in Level |-> IF i \in DOMAIN f THEN f[i] ELSE ptrData[i]],
      mem |-> [r \in Ref |-> IF r \in Range(f) THEN Found(l) ELSE heap[r]]] :
        f \in {g \in [(Source(l) + 1)..l -> Ref \ InUse(ptrData)] : IsInjective(g)}}

\* An object for level l: the one it has, or a new one.
OwnPtr(p, l) == IF p[l] # Null THEN {p[l]} ELSE Ref \ InUse(p)

AddOpLog(old) ==
    IF logged = top
    THEN Len(opLog) < MaxLog /\ opLog' = Append(opLog, old)
    ELSE UNCHANGED opLog

-----------------------------------------------------------------------------
Init ==
    /\ top = 1
    /\ ptrData = [l \in Level |-> Null]
    /\ heap = [r \in Ref |-> Empty]
    /\ db \in Value \union {NoRecord}
    /\ logged = 0
    /\ opLog = <<>>

Open ==
    /\ top < MaxLevel
    /\ top' = top + 1
    /\ UNCHANGED <<ptrData, heap, db, logged, opLog>>

Drop ==
    /\ top > 1
    /\ logged # top
    /\ top' = top - 1
    /\ ptrData' = [ptrData EXCEPT ![top] = Null]
    /\ heap' = Collected(ptrData', heap)
    /\ UNCHANGED <<db, logged, opLog>>

Clear ==
    /\ logged # top
    /\ ptrData' = [ptrData EXCEPT ![top] = Null]
    /\ heap' = Collected(ptrData', heap)
    /\ UNCHANGED <<top, db, logged, opLog>>

\* GetData and HasData.
GetData(l) ==
    /\ \E s \in GetDataPtr(l) : ptrData' = s.ptr /\ heap' = s.mem
    /\ UNCHANGED <<top, db, logged, opLog>>

\* SetData overwrites the object in place.
SetData(v) ==
    /\ AddOpLog(Found(top))
    /\ \E s \in GetDataPtr(top) : \E r \in OwnPtr(s.ptr, top) :
        /\ ptrData' = [s.ptr EXCEPT ![top] = r]
        /\ heap' = [s.mem EXCEPT ![r] = v]
    /\ UNCHANGED <<top, db, logged>>

EraseData ==
    /\ \E s \in GetDataPtr(top) :
        /\ ptrData' = s.ptr
        /\ IF Found(top) = Empty
           THEN heap' = s.mem /\ UNCHANGED opLog
           ELSE heap' = [s.mem EXCEPT ![s.ptr[top]] = Empty] /\ AddOpLog(Found(top))
    /\ UNCHANGED <<top, db, logged>>

\* (mutant of FlushToBase: the object is passed to the base and kept)
FlushToBaseKeeps(l) ==
    /\ logged # l - 1
    /\ ptrData[l] # Null
    /\ ptrData' = [ptrData EXCEPT ![l - 1] = ptrData[l]]
    /\ heap' = Collected(ptrData', heap)
    /\ UNCHANGED <<top, db, logged, opLog>>

\* Flush into the base: the base takes the object and drops its own.
FlushToBase(l) ==
    /\ logged # l - 1
    /\ ptrData[l] # Null
    /\ ptrData' = [ptrData EXCEPT ![l - 1] = ptrData[l], ![l] = Null]
    /\ heap' = Collected(ptrData', heap)
    /\ UNCHANGED <<top, db, logged, opLog>>

\* Flush to the database: an empty value erases the record.
FlushToDb ==
    /\ ptrData[1] # Null
    /\ db' = IF heap[ptrData[1]] = Empty THEN NoRecord ELSE heap[ptrData[1]]
    /\ ptrData' = [ptrData EXCEPT ![1] = Null]
    /\ heap' = Collected(ptrData', heap)
    /\ UNCHANGED <<top, logged, opLog>>

StartOpLog ==
    /\ logged = 0
    /\ logged' = top
    /\ UNCHANGED <<top, ptrData, heap, db, opLog>>

StopOpLog ==
    /\ logged # 0
    /\ logged' = 0
    /\ opLog' = <<>>
    /\ UNCHANGED <<top, ptrData, heap, db>>

\* (mutant of UndoDataList: the log is replayed from its start)
UndoDataListForward ==
    /\ logged = top
    /\ IF opLog = <<>>
       THEN UNCHANGED <<ptrData, heap>>
       ELSE \E r \in OwnPtr(ptrData, top) :
                /\ ptrData' = [ptrData EXCEPT ![top] = r]
                /\ heap' = [heap EXCEPT ![r] = opLog[Len(opLog)]]
    /\ logged' = 0
    /\ opLog' = <<>>
    /\ UNCHANGED <<top, db>>

\* UndoDataList: each entry, the latest first, is read into the level's object, made
\* when there is none; the value left is the earliest one logged.
UndoDataList ==
    /\ logged = top
    /\ IF opLog = <<>>
       THEN UNCHANGED <<ptrData, heap>>
       ELSE \E r \in OwnPtr(ptrData, top) :
                /\ ptrData' = [ptrData EXCEPT ![top] = r]
                /\ heap' = [heap EXCEPT ![r] = Head(opLog)]
    /\ logged' = 0
    /\ opLog' = <<>>
    /\ UNCHANGED <<top, db>>

Restart ==
    /\ top' = 1
    /\ ptrData' = [l \in Level |-> Null]
    /\ heap' = [r \in Ref |-> Empty]
    /\ logged' = 0
    /\ opLog' = <<>>
    /\ UNCHANGED db

Next ==
    \/ Open \/ Drop \/ Clear \/ FlushToDb \/ StartOpLog \/ StopOpLog \/ UndoDataList \/ Restart
    \/ \E l \in 1..top : GetData(l)
    \/ EraseData
    \/ \E v \in Data : SetData(v)
    \/ \E l \in 2..top : FlushToBase(l)

Spec == Init /\ [][Next]_vars

-----------------------------------------------------------------------------
TheKey == {"value"}
View == [l \in 1..top |-> [k \in TheKey |-> Found(l)]]
DbView == [k \in TheKey |-> Found(0)]
Savepoint ==
    [k \in TheKey |->
        IF logged = 0 THEN Empty
        ELSE IF opLog = <<>> THEN Found(logged) ELSE Head(opLog)]

Store == INSTANCE KVStore
    WITH Key <- TheKey, view <- View, disk <- DbView, saved <- logged, savepoint <- Savepoint

\* What each operation is in the store.
StepsCorrespond ==
    /\ Open => Store!Begin
    /\ Drop => Store!Abort
    /\ Clear => Store!Reset
    /\ \A l \in 1..top : GetData(l) => UNCHANGED Store!vars
    /\ \A v \in Data : SetData(v) => Store!PutAll(TheKey, v)
    /\ EraseData => Store!PutAll(TheKey, Empty)
    /\ \A l \in 2..top : FlushToBase(l) => Store!Commit(l)
    /\ FlushToDb => Store!Persist
    /\ StartOpLog => Store!Save
    /\ StopOpLog => Store!Release
    /\ UndoDataList => Store!Rollback
    /\ Restart => Store!Crash

\* The single-value caches keep the promise of KVStore too, one key, nested
\* transactions, one savepoint, each operation being the one it is named after,
\* although a flush hands its object to the base.  (A read that copies nothing is a step
\* that changes nothing.)
SimpleImplementsStore == Store!Spec /\ [][UNCHANGED vars \/ StepsCorrespond]_vars

\* No two levels hold the same object, so that writing through one cache never
\* changes what another one sees (Flush gives up the object it passes on, and
\* GetDataPtr copies what it found below).
NoSharedData ==
    \A i, j \in Level : i # j /\ ptrData[i] # Null => ptrData[i] # ptrData[j]
=============================================================================
