----------------------------- MODULE DbIterator -----------------------------
(***************************************************************************)
(* The iterators of persistence/dbiterator.h over a stack of caches.  At   *)
(* each level an iterator merges the entries of the level's mapData with   *)
(* the iterator of the level below, down to a LevelDB iterator; an entry   *)
(* of the map hides the one of the same key below, and an empty value is   *)
(* skipped.  The maps are walked live, with a copy of the entry reached;   *)
(* the LevelDB iterator is a snapshot taken when it is made.               *)
(*                                                                         *)
(* Keys are numbers, in the order of std::map<KeyType> and of the encoded  *)
(* keys alike.  While an iterator is in use its caller may read any key    *)
(* and write those already visited, and flushes or drops no cache.         *)
(***************************************************************************)
EXTENDS KVCache, SequencesExt

CONSTANT LastKey     \* Key is 1..LastKey

VARIABLES
    it,          \* NoIterator, or for each level what its iterator is at
    snapshot,    \* the database the LevelDB iterator reads
    range,       \* the keys asked for: from a seek key to the end of a prefix
    seen,        \* history: the keys and values visited, in order
    startView    \* history: the view the iterator was started on

iterVars == <<vars, it, snapshot, range, seen, startView>>

NoIterator == <<>>
End == LastKey + 1
NoView == [k \in Key |-> Empty]

-----------------------------------------------------------------------------
(* One level: map_it with the copy of its entry (mk, mv), is_map_data,     *)
(* is_same_key, and the key and value shown; End is not valid.             *)

From(f, k) == Min({i \in k..LastKey : f[i] # Absent} \union {End})
EntryAt(f, k) == IF k = End THEN Empty ELSE f[k]

\* CDBAccessIterator and CCacheMapIterator: the first key not below k.
DbAt(db0, k) == [key |-> From(db0, k), val |-> EntryAt(db0, From(db0, k))]
MapAt(l, k) == [mk |-> From(mapData[l], k), mv |-> EntryAt(mapData[l], From(mapData[l], k))]

\* ProcessGetData: the smaller key of the two is shown, the map's when they are equal.
ProcessGetData(map, base) ==
    LET isMap == map.mk <= base.key
    IN  [mk |-> map.mk, mv |-> map.mv, isMap |-> isMap, same |-> map.mk = base.key,
         key |-> IF isMap THEN map.mk ELSE base.key,
         val |-> IF isMap THEN map.mv ELSE base.val]

RECURSIVE NextAt(_, _, _), ProcessData(_, _, _)

\* (mutant of InternalNext: the base keeps the key the map has hidden)
InternalNextKeepsBase(db0, l, s) ==
    LET map == IF s[l].isMap THEN MapAt(l, s[l].mk + 1) ELSE [mk |-> s[l].mk, mv |-> s[l].mv]
        t == IF s[l].isMap THEN s ELSE NextAt(db0, l - 1, s)
    IN  [t EXCEPT ![l] = ProcessGetData(map, t[l - 1])]

\* InternalNext: the map moves on, the base, or, on the same key, both.
InternalNext(db0, l, s) ==
    LET map == IF s[l].isMap THEN MapAt(l, s[l].mk + 1) ELSE [mk |-> s[l].mk, mv |-> s[l].mv]
        t == IF s[l].isMap /\ ~ s[l].same THEN s ELSE NextAt(db0, l - 1, s)
    IN  [t EXCEPT ![l] = ProcessGetData(map, t[l - 1])]

\* ProcessData: on to the next entry that is not empty.
ProcessData(db0, l, s) ==
    IF s[l].key = End \/ s[l].val # Empty THEN s
    ELSE ProcessData(db0, l, InternalNext(db0, l, s))

NextAt(db0, l, s) ==
    IF l = 0 THEN [s EXCEPT ![0] = DbAt(db0, s[0].key + 1)]
    ELSE ProcessData(db0, l, InternalNext(db0, l, s))

\* Seek, from the database up: every iterator of the stack is positioned, each level
\* skips its empty entries.  First is a seek from the first key of the prefix.
RECURSIVE SeekAt(_, _, _)
SeekAt(db0, l, k) ==
    IF l = 0 THEN 0 :> DbAt(db0, k)
    ELSE LET s == SeekAt(db0, l - 1, k)
         IN  ProcessData(db0, l, (l :> ProcessGetData(MapAt(l, k), s[l - 1])) @@ s)

-----------------------------------------------------------------------------
IsValid(s, r) == s[top].key \in r
Visited(s) == <<[key |-> s[top].key, val |-> s[top].val]>>

IterInit ==
    /\ Init
    /\ it = NoIterator /\ snapshot = [k \in Key |-> Absent] /\ range = {}
    /\ seen = <<>> /\ startView = NoView

Idle == range = {}
InUse == it # NoIterator

\* An iterator is made and positioned: First, Seek(k), SeekUpper(k - 1), and First of a
\* CDBPrefixIterator, whose IsValid ends it after the keys of its prefix.
Start(k, last) ==
    /\ Idle
    /\ LET s == SeekAt(db, top, k)
       IN  /\ range' = k..last
           /\ it' = IF IsValid(s, k..last) THEN s ELSE NoIterator
           /\ seen' = IF IsValid(s, k..last) THEN Visited(s) ELSE <<>>
    /\ snapshot' = db
    /\ startView' = [i \in Key |-> Found(top, i)]
    /\ UNCHANGED vars

\* Next, until IsValid is false.
NextKey ==
    /\ InUse
    /\ LET s == NextAt(snapshot, top, it)
       IN  /\ it' = IF IsValid(s, range) THEN s ELSE NoIterator
           /\ seen' = IF IsValid(s, range) THEN seen \o Visited(s) ELSE seen
    /\ UNCHANGED <<vars, snapshot, range, startView>>

Destroy ==
    /\ ~ Idle
    /\ it' = NoIterator /\ snapshot' = [k \in Key |-> Absent]
    /\ range' = {} /\ seen' = <<>> /\ startView' = NoView
    /\ UNCHANGED vars

Read(l, k) ==
    /\ Idle \/ InUse
    /\ GetData(l, k)
    /\ UNCHANGED <<it, snapshot, range, seen, startView>>

Write(k, v) ==
    /\ Idle \/ (InUse /\ k <= it[top].key)
    /\ IF v = Empty THEN EraseData(k) ELSE SetData(k, v)
    /\ UNCHANGED <<it, snapshot, range, seen, startView>>

\* Everything else happens while no iterator is in use.
Other ==
    /\ Idle
    /\ Open \/ Drop \/ FlushToDb \/ Restart \/ \E l \in 2..top : FlushToBase(l)
    /\ UNCHANGED <<it, snapshot, range, seen, startView>>

IterNext ==
    \/ NextKey \/ Destroy \/ Other
    \/ \E k \in Key : \E last \in k..LastKey : Start(k, last)
    \/ \E l \in 1..top, k \in Key : Read(l, k)
    \/ \E k \in Key, v \in Data : Write(k, v)

IterSpec == IterInit /\ [][IterNext]_iterVars

-----------------------------------------------------------------------------
\* What an iterator visits is the view it was started on: every key asked for that has
\* a value at this level, once, in order, with that value; nothing that is erased at
\* any level, nothing from below what hides it, although the caller reads through the
\* maps and writes behind the cursor while it moves.
VisitsTheView ==
    LET done == {k \in range : it = NoIterator \/ k <= it[top].key}
        valued == {k \in done : startView[k] # Empty}
    IN  seen = [i \in 1..Cardinality(valued) |->
                    LET k == CHOOSE n \in valued : Cardinality({m \in valued : m <= n}) = i
                    IN  [key |-> k, val |-> startView[k]]]
=============================================================================
