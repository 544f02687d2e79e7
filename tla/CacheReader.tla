----------------------------- MODULE CacheReader -----------------------------
(***************************************************************************)
(* A second cache that is open beside the stack of KVCache and outlives    *)
(* its steps: a copy of the database-bound cache (operator=, made by       *)
(* CCacheWrapper::CopyFrom) or a wrapper over it.  Both are written like   *)
(* any cache but never flushed.  A copy has the map of the original at the *)
(* time and the original's pointer to the database, which it reads on its  *)
(* own; a wrapper reads through the original and leaves entries in it.     *)
(*                                                                         *)
(* Which of the two a caller uses, and when it is renewed, is decided      *)
(* outside src/.  It is not copied while the original is logged: the       *)
(* pointer to the log would be copied too.                                 *)
(***************************************************************************)
EXTENDS KVCache

VARIABLES
    kind,        \* "none", "copy" or "wrapper"
    readerMap    \* its mapData

\* History: what was written there, and for each key the values a read of it may
\* give, the one at the start and those its source got since.
VARIABLES own, seen

readerVars == <<vars, kind, readerMap, own, seen>>

SourceLevel == IF kind = "copy" THEN 0 ELSE 1

ReaderFound(k) == IF readerMap[k] # Absent THEN readerMap[k] ELSE Found(SourceLevel, k)

\* GetDataIt of the reader: what it finds is copied into it and, through a wrapper,
\* into the cache below.
ReadThrough(k) ==
    mapData' = IF kind = "wrapper" /\ readerMap[k] = Absent THEN GetDataIt(1, k) ELSE mapData

Filled(k) ==
    IF Holders(mapData, db, SourceLevel, k) = {} THEN readerMap
    ELSE [readerMap EXCEPT ![k] = ReaderFound(k)]

ReaderInit ==
    /\ Init
    /\ kind = "none"
    /\ readerMap = Cleared /\ own = Cleared
    /\ seen = [k \in Key |-> {}]

\* (mutant of CopyFrom: the pointers are copied, the map is not)
CopyFromEmpty ==
    /\ kind = "none" /\ logged # 1
    /\ kind' = "copy"
    /\ readerMap' = Cleared /\ own' = Cleared
    /\ seen' = [k \in Key |-> {Found(1, k)}]
    /\ UNCHANGED vars

CopyFrom ==
    /\ kind = "none" /\ logged # 1
    /\ kind' = "copy"
    /\ readerMap' = mapData[1] /\ own' = Cleared
    /\ seen' = [k \in Key |-> {Found(1, k)}]
    /\ UNCHANGED vars

Wrap ==
    /\ kind = "none"
    /\ kind' = "wrapper"
    /\ readerMap' = Cleared /\ own' = Cleared
    /\ seen' = [k \in Key |-> {Found(1, k)}]
    /\ UNCHANGED vars

ReaderGetData(k) ==
    /\ kind # "none"
    /\ ReadThrough(k)
    /\ readerMap' = Filled(k)
    /\ UNCHANGED <<top, db, logged, opLog, kind, own, seen>>

\* (mutant of ReaderSetData: a shallow copy, the values are shared with the original)
ReaderSetDataShared(k, v) ==
    /\ kind # "none"
    /\ mapData' = IF kind = "copy" /\ mapData[1][k] # Absent
                  THEN [mapData EXCEPT ![1][k] = v] ELSE mapData
    /\ readerMap' = [readerMap EXCEPT ![k] = v]
    /\ own' = [own EXCEPT ![k] = v]
    /\ UNCHANGED <<top, db, logged, opLog, kind, seen>>

ReaderSetData(k, v) ==
    /\ kind # "none"
    /\ ReadThrough(k)
    /\ readerMap' = [readerMap EXCEPT ![k] = v]
    /\ own' = [own EXCEPT ![k] = v]
    /\ UNCHANGED <<top, db, logged, opLog, kind, seen>>

\* Erasing a key without a value writes nothing: the key is not pinned.
ReaderEraseData(k) ==
    /\ kind # "none"
    /\ ReadThrough(k)
    /\ IF ReaderFound(k) = Empty
       THEN readerMap' = Filled(k) /\ UNCHANGED own
       ELSE readerMap' = [readerMap EXCEPT ![k] = Empty] /\ own' = [own EXCEPT ![k] = Empty]
    /\ UNCHANGED <<top, db, logged, opLog, kind, seen>>

Discarded == kind' = "none" /\ readerMap' = Cleared /\ own' = Cleared /\ seen' = [k \in Key |-> {}]

\* The reader is destroyed, or replaced by a new copy.
ReaderDone == kind # "none" /\ Discarded /\ UNCHANGED vars

Operation ==
    \/ Open \/ Drop \/ Clear \/ FlushToDb \/ StartOpLog \/ StopOpLog \/ UndoDataList
    \/ \E l \in 1..top, k \in Key : GetData(l, k)
    \/ \E k \in Key : EraseData(k)
    \/ \E k \in Key, v \in Data : SetData(k, v)
    \/ \E l \in 2..top : FlushToBase(l)

\* A step of the stack while the reader is open.
Beside ==
    /\ Operation
    /\ UNCHANGED <<kind, readerMap, own>>
    /\ seen' = [k \in Key |->
            IF kind = "none" \/ Found(SourceLevel, k)' = Found(SourceLevel, k) THEN seen[k]
            ELSE seen[k] \union {Found(SourceLevel, k)'}]

ReaderStep ==
    \/ CopyFrom \/ Wrap \/ ReaderDone
    \/ \E k \in Key : ReaderGetData(k) \/ ReaderEraseData(k)
    \/ \E k \in Key, v \in Data : ReaderSetData(k, v)

ReaderNext == Beside \/ ReaderStep \/ (Restart /\ Discarded)

ReaderSpec == ReaderInit /\ [][ReaderNext]_readerVars

-----------------------------------------------------------------------------
\* A key written in the reader shows what was written; any other shows the value it
\* had when the reader was made, or one its source got later: for a copy what was
\* flushed to the database, for a wrapper what was written to or flushed into the
\* cache below.  So a copy is a snapshot until the next flush to the database, and
\* no read ever gives a value of another time or an erased one again.
ReaderShowsRecent ==
    kind # "none" => \A k \in Key :
        IF own[k] # Absent THEN ReaderFound(k) = own[k] ELSE ReaderFound(k) \in seen[k]

\* Nothing done in a reader changes what any cache of the stack, the database or an
\* undo shows, although a wrapper's reads insert into the map of the cache below.
ReaderIsQuiet == [][ReaderStep => UNCHANGED <<View, DbView, Savepoint>>]_readerVars
=============================================================================
