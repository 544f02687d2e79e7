------------------------------ MODULE CacheSize ------------------------------
(***************************************************************************)
(* GetCacheSize of a database-bound IneryCompositeKVCache, the figure the  *)
(* node decides by when to flush.  It is not computed from the map: every  *)
(* operation adjusts a counter, reads included, and calls of the caches    *)
(* stacked above reach it through GetDataIt and SetDataToSelf.  Only the   *)
(* database-bound cache counts (is_calc_size).  The counter is a uint32 in *)
(* the code and unbounded here: 4 GB of one prefix is out of reach.        *)
(***************************************************************************)
EXTENDS KVCache, SequencesExt

CONSTANTS
    KeySize,     \* KeySize[k]: the serialized size of a key
    ValueSize    \* ValueSize[v]: the serialized size of a value, Empty included

\* Serialized sizes are natural numbers.
SizesAreNat == KeySize \in [Key -> Nat] /\ ValueSize \in [Data -> Nat]

VARIABLE size

sizeVars == <<vars, size>>

ItemSize(k, v) == KeySize[k] + ValueSize[v]

\* IncDataSize of a key, DecDataSize and UpdateDataSize; subtraction stops at zero.
AddItem(s, k, v) == s + ItemSize(k, v)
DecDataSize(s, v) == IF s > ValueSize[v] THEN s - ValueSize[v] ELSE 0
\* (mutant of UpdateDataSize: the replaced value is not taken off)
UpdateDataSizeAdds(s, old, new) == s + ValueSize[new]

UpdateDataSize(s, old, new) == DecDataSize(s + ValueSize[new], old)

\* GetDataIt from level l: the counter grows when the record comes from the database.
ReadSize(l, k) ==
    IF Holders(mapData, db, l, k) = {0} THEN AddItem(size, k, db[k]) ELSE size

\* SetDataToSelf on a cache with entries m and counter s.
PutToSelf(s, m, k, v) ==
    IF m[k] = Absent THEN AddItem(s, k, v) ELSE UpdateDataSize(s, m[k], v)

-----------------------------------------------------------------------------
SizeInit == Init /\ size = 0

GetDataSize(l, k) == GetData(l, k) /\ size' = ReadSize(l, k)

SetDataSize(k, v) ==
    /\ SetData(k, v)
    /\ size' = IF top > 1 THEN ReadSize(top, k)
               ELSE IF Holders(mapData, db, 1, k) = {} THEN AddItem(size, k, v)
               ELSE UpdateDataSize(ReadSize(1, k), Found(1, k), v)

EraseDataSize(k) ==
    /\ EraseData(k)
    /\ size' = IF top > 1 \/ Found(top, k) = Empty THEN ReadSize(top, k)
               ELSE DecDataSize(ReadSize(1, k), Found(1, k)) + ValueSize[Empty]

\* The counter s of a cache with entries m after one SetDataToSelf for each entry of d:
\* the keys of a map are distinct, so the order of the loop does not matter.
FlushedSize(s, m, d) ==
    FoldSet(LAMBDA k, a : PutToSelf(a, m, k, d[k]), s, {k \in Key : d[k] # Absent})

FlushToBaseSize(l) ==
    /\ FlushToBase(l)
    /\ size' = IF l > 2 THEN size ELSE FlushedSize(size, mapData[1], mapData[2])

FlushToDbSize == FlushToDb /\ size' = 0

ClearSize == Clear /\ size' = IF top = 1 THEN 0 ELSE size

\* The same with one SetDataToSelf for each entry of the log, the latest first.
ReplayedSize(s, log, m) ==
    FoldRight(LAMBDA e, acc : [map |-> [acc.map EXCEPT ![e.key] = e.old],
                               sum |-> PutToSelf(acc.sum, acc.map, e.key, e.old)],
              log, [map |-> m, sum |-> s]).sum

UndoDataListSize ==
    /\ UndoDataList
    /\ size' = IF top > 1 THEN size ELSE ReplayedSize(size, opLog, mapData[1])

RestartSize == Restart /\ size' = 0

SizeNext ==
    \/ (Open \/ Drop \/ StartOpLog \/ StopOpLog) /\ UNCHANGED size
    \/ ClearSize \/ FlushToDbSize \/ UndoDataListSize \/ RestartSize
    \/ \E l \in 1..top, k \in Key : GetDataSize(l, k)
    \/ \E k \in Key : EraseDataSize(k)
    \/ \E k \in Key, v \in Data : SetDataSize(k, v)
    \/ \E l \in 2..top : FlushToBaseSize(l)

SizeSpec == SizeInit /\ [][SizeNext]_sizeVars

-----------------------------------------------------------------------------
\* The counter is the size of what the cache holds: no operation, through whichever
\* level it comes, counts an entry twice, misses one or leaves a replaced value in.
SizeIsExact ==
    size = FoldSet(LAMBDA k, s : s + ItemSize(k, mapData[1][k]), 0,
                   {k \in Key : mapData[1][k] # Absent})

\* The loop of dbaccess.h:479-483: entries in reverse, each put back in the map.
Replay(log, m) == FoldRight(LAMBDA e, acc : [acc EXCEPT ![e.key] = e.old], log, m)

\* The result KVCache gives UndoDataList is what the loop computes, for every log
\* that can be collected: repeated writes of a key, erasures and re-insertions.
UndoIsReplay == logged # 0 => Undone(opLog, mapData[logged]) = Replay(opLog, mapData[logged])
=============================================================================
