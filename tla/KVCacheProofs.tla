--------------------------- MODULE KVCacheProofs ----------------------------
(***************************************************************************)
(* Proofs about KVCache, for every set of keys and values and every depth: *)
(* the lemmas on Lookup, the invariants, and that the stack of caches      *)
(* implements the store of nested transactions.  Every action of KVCache   *)
(* is shown to be an action of KVStore, or a stutter, on the views; the    *)
(* views are compared through the lemmas on Lookup.  Then folds over       *)
(* finite sets, what they say of the loops of Flush and UndoDataList, and  *)
(* that the counter of CacheSize is exact.                                 *)
(***************************************************************************)
EXTENDS CacheSize, FiniteSetTheorems, WellFoundedInduction, SequenceTheorems, TLAPS

\* Every non-empty set of naturals has a least element.
LEMMA NatMinimum ==
    ASSUME NEW S \in SUBSET Nat, S # {}
    PROVE  \E x \in S : \A y \in S : x <= y
<1>1. \E x \in S : \A y \in S : ~ (<<y, x>> \in OpToRel(<, Nat))
    BY NatLessThanWellFounded, WFMin
<1>2. PICK x \in S : \A y \in S : ~ (<<y, x>> \in OpToRel(<, Nat))
    BY <1>1
<1>3. \A y \in S : x <= y
    <2>1. TAKE y \in S
    <2>2. ~ (<<y, x>> \in OpToRel(<, Nat))
        BY <1>2
    <2>3. ~ (y < x)
        BY <2>2 DEF OpToRel
    <2>4. QED
        BY <2>3
<1>4. QED
    BY <1>3

\* The nearest holder of a key exists as soon as some level holds it.
LEMMA NearestExists ==
    ASSUME NEW m, NEW d, NEW l \in Nat, NEW k, Holders(m, d, l, k) # {}
    PROVE  \E i \in Holders(m, d, l, k) : \A j \in Holders(m, d, l, k) : j <= i
<1> DEFINE H == Holders(m, d, l, k)
           S == {l - i : i \in H}
<1>1. H \subseteq 0..l
    BY DEF Holders
<1>2. S \in SUBSET Nat /\ S # {}
    BY <1>1
<1>3. PICK x \in S : \A y \in S : x <= y
    BY <1>2, NatMinimum
<1>4. PICK i \in H : x = l - i
    OBVIOUS
<1>5. \A j \in H : j <= i
    BY <1>1, <1>3, <1>4
<1>6. QED
    BY <1>4, <1>5

\* A level that holds the key, with none above it up to l, is the one found.
LEMMA LookupAt ==
    ASSUME NEW m, NEW d, NEW l \in Nat, NEW k, NEW i \in 0..l,
           At(m, d, i, k) # Absent,
           \A j \in (i + 1)..l : At(m, d, j, k) = Absent
    PROVE  /\ Holders(m, d, l, k) # {}
           /\ Nearest(m, d, l, k) = i
           /\ Lookup(m, d, l, k) = At(m, d, i, k)
<1> DEFINE H == Holders(m, d, l, k)
<1>1. i \in H /\ \A j \in H : j <= i
    BY DEF Holders
<1>2. \A x \in H : (\A j \in H : j <= x) => x = i
    BY <1>1 DEF Holders
<1>3. Nearest(m, d, l, k) = i
    BY <1>1, <1>2 DEF Nearest
<1>4. QED
    BY <1>1, <1>3 DEF Lookup

\* A key no level holds reads as empty.
LEMMA LookupNone ==
    ASSUME NEW m, NEW d, NEW l \in Nat, NEW k,
           \A j \in 0..l : At(m, d, j, k) = Absent
    PROVE  Holders(m, d, l, k) = {} /\ Lookup(m, d, l, k) = Empty
    BY DEF Holders, Lookup

\* Either no level holds the key or one is the nearest to hold it.
LEMMA HolderSplit ==
    ASSUME NEW m, NEW d, NEW l \in Nat, NEW k
    PROVE  \/ \A j \in 0..l : At(m, d, j, k) = Absent
           \/ \E i \in 0..l : /\ At(m, d, i, k) # Absent
                              /\ \A j \in (i + 1)..l : At(m, d, j, k) = Absent
<1>1. CASE Holders(m, d, l, k) = {}
    BY <1>1 DEF Holders
<1>2. CASE Holders(m, d, l, k) # {}
    <2>1. PICK i \in Holders(m, d, l, k) : \A j \in Holders(m, d, l, k) : j <= i
        BY <1>2, NearestExists
    <2>2. i \in 0..l /\ At(m, d, i, k) # Absent
        BY <2>1 DEF Holders
    <2>3. \A j \in (i + 1)..l : At(m, d, j, k) = Absent
        BY <2>1, <2>2 DEF Holders
    <2>4. QED
        BY <2>2, <2>3
<1>3. QED
    BY <1>1, <1>2

\* The two cases of a lookup.
LEMMA LookupCases ==
    ASSUME NEW m, NEW d, NEW l \in Nat, NEW k
    PROVE  \/ /\ \A j \in 0..l : At(m, d, j, k) = Absent
              /\ Holders(m, d, l, k) = {}
              /\ Lookup(m, d, l, k) = Empty
           \/ \E i \in 0..l : /\ At(m, d, i, k) # Absent
                              /\ \A j \in (i + 1)..l : At(m, d, j, k) = Absent
                              /\ Holders(m, d, l, k) # {}
                              /\ Nearest(m, d, l, k) = i
                              /\ Lookup(m, d, l, k) = At(m, d, i, k)
<1>1. CASE \A j \in 0..l : At(m, d, j, k) = Absent
    BY <1>1, LookupNone
<1>2. CASE \E i \in 0..l : /\ At(m, d, i, k) # Absent
                           /\ \A j \in (i + 1)..l : At(m, d, j, k) = Absent
    BY <1>2, LookupAt
<1>3. QED
    BY <1>1, <1>2, HolderSplit

\* A lookup depends only on the entries of the key at the levels it crosses.
LEMMA LookupSame ==
    ASSUME NEW m, NEW n, NEW d, NEW e, NEW l \in Nat, NEW k,
           \A j \in 0..l : At(m, d, j, k) = At(n, e, j, k)
    PROVE  Lookup(n, e, l, k) = Lookup(m, d, l, k)
<1>1. CASE \A j \in 0..l : At(m, d, j, k) = Absent
    BY <1>1, LookupNone
<1>2. CASE \E i \in 0..l : /\ At(m, d, i, k) # Absent
                           /\ \A j \in (i + 1)..l : At(m, d, j, k) = Absent
    <2>1. PICK i \in 0..l : /\ At(m, d, i, k) # Absent
                            /\ \A j \in (i + 1)..l : At(m, d, j, k) = Absent
        BY <1>2
    <2>2. At(n, e, i, k) # Absent /\ At(n, e, i, k) = At(m, d, i, k)
        BY <2>1
    <2>3. \A j \in (i + 1)..l : At(n, e, j, k) = Absent
        BY <2>1
    <2>4. QED
        BY <2>1, <2>2, <2>3, LookupAt
<1>3. QED
    BY <1>1, <1>2, HolderSplit, Zenon

\* A lookup never gives Absent.
LEMMA LookupType ==
    ASSUME NEW m \in [Level -> [Key -> Entry]], NEW d \in [Key -> Entry],
           NEW l \in 0..MaxLevel, NEW k \in Key
    PROVE  Lookup(m, d, l, k) \in Data
<1>1. \A i \in 0..l : At(m, d, i, k) \in Entry
    BY BoundAssumption DEF At, Level
<1>2. CASE Lookup(m, d, l, k) = Empty
    BY <1>2 DEF Data
<1>3. CASE \E i \in 0..l : At(m, d, i, k) # Absent /\ Lookup(m, d, l, k) = At(m, d, i, k)
    BY <1>1, <1>3 DEF Entry
<1>4. Lookup(m, d, l, k) = Empty
      \/ \E i \in 0..l : At(m, d, i, k) # Absent /\ Lookup(m, d, l, k) = At(m, d, i, k)
    <2>1. l \in Nat
        BY BoundAssumption
    <2>2. QED
        BY <2>1, LookupCases
<1>5. QED
    BY <1>2, <1>3, <1>4

\* A lookup in the database, and in a map that holds the key.
LEMMA LookupHere ==
    ASSUME NEW m, NEW d, NEW l \in Nat, NEW k, At(m, d, l, k) # Absent
    PROVE  Lookup(m, d, l, k) = At(m, d, l, k)
    BY LookupAt

LEMMA LookupBelow ==
    ASSUME NEW m, NEW d, NEW l \in Nat \ {0}, NEW k, At(m, d, l, k) = Absent
    PROVE  Lookup(m, d, l, k) = Lookup(m, d, l - 1, k)
<1>1. CASE \A j \in 0..(l - 1) : At(m, d, j, k) = Absent
    <2>1. \A j \in 0..l : At(m, d, j, k) = Absent
        BY <1>1
    <2>2. QED
        BY <1>1, <2>1, LookupNone
<1>2. CASE \E i \in 0..(l - 1) : /\ At(m, d, i, k) # Absent
                                 /\ \A j \in (i + 1)..(l - 1) : At(m, d, j, k) = Absent
    <2>1. PICK i \in 0..(l - 1) : /\ At(m, d, i, k) # Absent
                                  /\ \A j \in (i + 1)..(l - 1) : At(m, d, j, k) = Absent
        BY <1>2
    <2>2. i \in 0..l /\ \A j \in (i + 1)..l : At(m, d, j, k) = Absent
        BY <2>1
    <2>3. QED
        BY <2>1, <2>2, LookupAt
<1>3. \/ \A j \in 0..(l - 1) : At(m, d, j, k) = Absent
      \/ \E i \in 0..(l - 1) : /\ At(m, d, i, k) # Absent
                                /\ \A j \in (i + 1)..(l - 1) : At(m, d, j, k) = Absent
    <2>1. l - 1 \in Nat
        OBVIOUS
    <2>2. QED
        BY <2>1, HolderSplit, Zenon
<1>4. QED
    BY <1>1, <1>2, <1>3

\* Absent entries above a level add nothing to what it reads.
LEMMA LookupSkip ==
    ASSUME NEW m, NEW d, NEW l \in Nat, NEW i \in Nat, l <= i, NEW k,
           \A j \in (l + 1)..i : At(m, d, j, k) = Absent
    PROVE  Lookup(m, d, i, k) = Lookup(m, d, l, k)
<1>1. CASE \A j \in 0..l : At(m, d, j, k) = Absent
    <2>1. \A j \in 0..i : At(m, d, j, k) = Absent
        BY <1>1
    <2>2. QED
        BY <1>1, <2>1, LookupNone
<1>2. CASE \E h \in 0..l : /\ At(m, d, h, k) # Absent
                           /\ \A j \in (h + 1)..l : At(m, d, j, k) = Absent
    <2>1. PICK h \in 0..l : /\ At(m, d, h, k) # Absent
                            /\ \A j \in (h + 1)..l : At(m, d, j, k) = Absent
        BY <1>2
    <2>2. h \in 0..i /\ \A j \in (h + 1)..i : At(m, d, j, k) = Absent
        BY <2>1
    <2>3. QED
        BY <2>1, <2>2, LookupAt
<1>3. QED
    BY <1>1, <1>2, HolderSplit, Zenon

\* Two stacks that read alike at a level and hold the same entries above it read
\* alike above it.
LEMMA LookupAgree ==
    ASSUME NEW m, NEW d, NEW n, NEW e, NEW l \in Nat, NEW i \in Nat, l <= i, NEW k,
           \A j \in (l + 1)..i : At(m, d, j, k) = At(n, e, j, k),
           Lookup(m, d, l, k) = Lookup(n, e, l, k)
    PROVE  Lookup(m, d, i, k) = Lookup(n, e, i, k)
<1>1. CASE \A j \in (l + 1)..i : At(m, d, j, k) = Absent
    <2>1. \A j \in (l + 1)..i : At(n, e, j, k) = Absent
        BY <1>1
    <2>2. Lookup(m, d, i, k) = Lookup(m, d, l, k)
        BY <1>1, LookupSkip
    <2>3. Lookup(n, e, i, k) = Lookup(n, e, l, k)
        BY <2>1, LookupSkip
    <2>4. QED
        BY <2>2, <2>3
<1>2. CASE \E j \in (l + 1)..i : At(m, d, j, k) # Absent
    <2>1. PICK g \in 0..i : /\ At(m, d, g, k) # Absent
                            /\ \A j \in (g + 1)..i : At(m, d, j, k) = Absent
        BY <1>2, HolderSplit
    <2>2. g > l
        BY <1>2, <2>1
    <2>3. At(n, e, g, k) = At(m, d, g, k)
        BY <2>2
    <2>4. At(n, e, g, k) # Absent /\ \A j \in (g + 1)..i : At(n, e, j, k) = Absent
        BY <2>1, <2>2, <2>3
    <2>5. Lookup(m, d, i, k) = At(m, d, g, k)
        <3>1. g \in 0..i
            BY <2>1
        <3>2. At(m, d, g, k) # Absent
            BY <2>1
        <3>3. \A j \in (g + 1)..i : At(m, d, j, k) = Absent
            BY <2>1
        <3>4. i \in Nat
            OBVIOUS
        <3>5. QED
            BY <3>1, <3>2, <3>3, <3>4, LookupAt, SMTT(60)
    <2>6. Lookup(n, e, i, k) = At(n, e, g, k)
        BY <2>4, LookupAt
    <2>7. QED
        BY <2>3, <2>5, <2>6
<1>3. QED
    BY <1>1, <1>2

\* Copying what was found into the levels it was read through changes no lookup.
LEMMA FillSame ==
    ASSUME TypeOK, NEW l \in 1..top, NEW k \in Key, NEW i \in 0..MaxLevel, NEW c \in Key
    PROVE  Lookup(GetDataIt(l, k), db, i, c) = Lookup(mapData, db, i, c)
<1> DEFINE n == GetDataIt(l, k)
<1>0. MaxLevel \in Nat /\ l \in Nat /\ i \in Nat /\ 1 <= l /\ l <= MaxLevel /\ i <= MaxLevel
    BY BoundAssumption DEF TypeOK, Level
<1>1. CASE c # k \/ Holders(mapData, db, l, k) = {}
    <2>1. \A j \in 0..i : At(mapData, db, j, c) = At(n, db, j, c)
        BY <1>1, <1>0 DEF At, GetDataIt, Level, TypeOK
    <2>2. QED
        BY <1>0, <2>1, LookupSame
<1>2. CASE c = k /\ Holders(mapData, db, l, k) # {}
    <2>1. PICK h \in 0..l : /\ At(mapData, db, h, k) # Absent
                            /\ \A j \in (h + 1)..l : At(mapData, db, j, k) = Absent
                            /\ Nearest(mapData, db, l, k) = h
                            /\ Lookup(mapData, db, l, k) = At(mapData, db, h, k)
        BY <1>0, <1>2, LookupCases
    <2>2. \A j \in 0..MaxLevel : At(n, db, j, k) =
              IF h < j /\ j <= l THEN At(mapData, db, h, k) ELSE At(mapData, db, j, k)
        BY <1>0, <1>2, <2>1 DEF At, GetDataIt, Found, Level, TypeOK
    <2>3. CASE i <= h
        <3>1. \A j \in 0..i : At(mapData, db, j, k) = At(n, db, j, k)
            BY <2>2, <2>3, <1>0
        <3>2. QED
            BY <1>0, <1>2, <3>1, LookupSame
    <2>4. CASE h < i /\ i <= l
        <3>1. At(n, db, i, k) = At(mapData, db, h, k)
            BY <2>2, <2>4, <1>0
        <3>2. Lookup(n, db, i, k) = At(mapData, db, h, k)
            BY <1>0, <2>1, <3>1, LookupHere
        <3>3. \A j \in (h + 1)..i : At(mapData, db, j, k) = Absent
            BY <2>1, <2>4
        <3>4. Lookup(mapData, db, i, k) = At(mapData, db, h, k)
            BY <1>0, <2>1, <2>4, <3>3, LookupAt
        <3>5. QED
            BY <1>2, <3>2, <3>4
    <2>5. CASE l < i
        <3>1. CASE \A j \in (l + 1)..i : At(mapData, db, j, k) = Absent
            <4>1. \A j \in (h + 1)..i : At(mapData, db, j, k) = Absent
                BY <2>1, <2>5, <3>1
            <4>2. Lookup(mapData, db, i, k) = At(mapData, db, h, k)
                BY <1>0, <2>1, <2>5, <4>1, LookupAt
            <4>3. At(n, db, l, k) = At(mapData, db, h, k)
                BY <1>0, <2>1, <2>2
            <4>4. \A j \in (l + 1)..i : At(n, db, j, k) = Absent
                BY <1>0, <2>2, <3>1
            <4>5. Lookup(n, db, i, k) = At(mapData, db, h, k)
                BY <1>0, <2>1, <2>5, <4>3, <4>4, LookupAt
            <4>6. QED
                BY <1>2, <4>2, <4>5
        <3>2. CASE \E j \in (l + 1)..i : At(mapData, db, j, k) # Absent
            <4>1. PICK g \in 0..i : /\ At(mapData, db, g, k) # Absent
                                    /\ \A j \in (g + 1)..i : At(mapData, db, j, k) = Absent
                                    /\ Lookup(mapData, db, i, k) = At(mapData, db, g, k)
                BY <1>0, <3>2, LookupCases
            <4>2. g > l
                BY <1>0, <3>2, <4>1
            <4>3. At(n, db, g, k) = At(mapData, db, g, k)
                BY <1>0, <2>2, <4>2
            <4>4. \A j \in (g + 1)..i : At(n, db, j, k) = Absent
                BY <1>0, <2>2, <4>1, <4>2
            <4>5. QED
                BY <1>0, <1>2, <4>1, <4>3, <4>4, LookupAt, SMTT(30)
        <3>3. QED
            BY <3>1, <3>2
    <2>6. QED
        BY <1>0, <2>3, <2>4, <2>5
<1>3. QED
    BY <1>1, <1>2

\* Read-through keeps the type of the stack.
LEMMA FillType ==
    ASSUME TypeOK, NEW l \in 1..top, NEW k \in Key
    PROVE  GetDataIt(l, k) \in [Level -> [Key -> Entry]]
<1>1. Found(l, k) \in Entry
    BY LookupType, BoundAssumption DEF Found, TypeOK, Level, Entry
<1>2. QED
    BY <1>1 DEF GetDataIt, TypeOK

-----------------------------------------------------------------------------
(* The operation log. *)

Logs == Seq([key : Key, old : Data])

\* The earliest entry of a key exists as soon as the log has one.
LEMMA FirstExists ==
    ASSUME NEW log \in Logs, NEW k, LogOf(log, k) # {}
    PROVE  /\ First(log, k) \in LogOf(log, k)
           /\ \A j \in LogOf(log, k) : First(log, k) <= j
<1>1. LogOf(log, k) \in SUBSET Nat
    BY LenProperties DEF LogOf, Logs
<1>2. \E i \in LogOf(log, k) : \A j \in LogOf(log, k) : i <= j
    BY <1>1, NatMinimum
<1>3. QED
    BY <1>2 DEF First

\* The value an undo would put back is data.
LEMMA LoggedValue ==
    ASSUME NEW log \in Logs, NEW k \in Key, LogOf(log, k) # {}
    PROVE  log[First(log, k)].old \in Data
<1>1. First(log, k) \in DOMAIN log
    BY FirstExists DEF LogOf
<1>2. log[First(log, k)] \in [key : Key, old : Data]
    BY <1>1, ElementOfSeq, LenProperties DEF Logs
<1>3. QED
    BY <1>2

\* Undoing a log gives entries where it was given entries, data where data.
LEMMA UndoneType ==
    ASSUME NEW log \in Logs, NEW S, Data \subseteq S, NEW f \in [Key -> S]
    PROVE  Undone(log, f) \in [Key -> S]
    BY LoggedValue DEF Undone

-----------------------------------------------------------------------------
(* Type correctness. *)

\* A logged value is a value of the data, and logging keeps a log a log.
LEMMA AddOpLogType ==
    ASSUME TypeOK, NEW k \in Key, NEW v \in Data, AddOpLog(k, v)
    PROVE  opLog' \in Seq([key : Key, old : Data])
<1>1. CASE logged = top
    <2>1. [key |-> k, old |-> v] \in [key : Key, old : Data]
        OBVIOUS
    <2>2. opLog' = Append(opLog, [key |-> k, old |-> v])
        BY <1>1 DEF AddOpLog
    <2>3. opLog \in Seq([key : Key, old : Data])
        BY DEF TypeOK
    <2>4. QED
        BY <2>1, <2>2, <2>3, AppendProperties
<1>2. CASE logged # top
    BY <1>2 DEF AddOpLog, TypeOK
<1>3. QED
    BY <1>1, <1>2

\* What a lookup leaves and gives at an open level.
LEMMA OpenLevelTypes ==
    ASSUME TypeOK, NEW l \in 1..top, NEW k \in Key
    PROVE  GetDataIt(l, k) \in [Level -> [Key -> Entry]] /\ Found(l, k) \in Data
<1>1. l \in 0..MaxLevel
    BY BoundAssumption DEF TypeOK, Level
<1>2. mapData \in [Level -> [Key -> Entry]] /\ db \in [Key -> Entry]
    BY DEF TypeOK
<1>3. Found(l, k) \in Data
    BY <1>1, <1>2, LookupType DEF Found
<1>4. QED
    BY <1>3, FillType

LEMMA TypeStep == TypeOK /\ [Next]_vars => TypeOK'
<1> SUFFICES ASSUME TypeOK, [Next]_vars PROVE TypeOK'
    OBVIOUS
<1>0. /\ MaxLevel \in Nat \ {0} /\ top \in Nat /\ top >= 1 /\ top <= MaxLevel
      /\ logged \in 0..top
      /\ Cleared \in [Key -> Entry]
    BY BoundAssumption DEF TypeOK, Level, Cleared, Entry
<1>1. CASE Open
    BY <1>0, <1>1 DEF Open, TypeOK, Level
<1>2. CASE Drop
    BY <1>0, <1>2 DEF Drop, TypeOK, Level
<1>2a. CASE Clear
    BY <1>0, <1>2a DEF Clear, TypeOK, Level
<1>3. CASE FlushToDb
    BY <1>0, <1>3 DEF FlushToDb, TypeOK, Level, Entry, Data
<1>4. CASE StartOpLog
    BY <1>0, <1>4 DEF StartOpLog, TypeOK, Level
<1>5. CASE StopOpLog
    BY <1>0, <1>5, EmptySeq DEF StopOpLog, TypeOK, Level
<1>6. CASE UndoDataList
    <2>1. Undone(opLog, mapData[top]) \in [Key -> Entry]
        <3>1. mapData[top] \in [Key -> Entry] /\ opLog \in Logs /\ Data \subseteq Entry
            BY DEF TypeOK, Logs, Entry
        <3>2. QED
            BY <3>1, UndoneType, Zenon
    <2>2. QED
        BY <1>0, <1>6, <2>1, EmptySeq DEF UndoDataList, TypeOK, Level
<1>7. CASE Restart
    BY <1>0, <1>7, EmptySeq DEF Restart, TypeOK, Level
<1>8. ASSUME NEW l \in 1..top, NEW k \in Key, GetData(l, k) PROVE TypeOK'
    BY <1>0, <1>8, FillType DEF GetData, TypeOK, Level
<1>9. ASSUME NEW k \in Key, EraseData(k) PROVE TypeOK'
    <2>1. GetDataIt(top, k) \in [Level -> [Key -> Entry]] /\ Found(top, k) \in Data
        BY <1>0, OpenLevelTypes
    <2>2. opLog' \in Seq([key : Key, old : Data])
        BY <1>9, <2>1, AddOpLogType DEF EraseData, TypeOK
    <2>3. mapData' \in [Level -> [Key -> Entry]]
        BY <1>0, <1>9, <2>1 DEF EraseData, Entry, Data, Level
    <2>4. QED
        BY <1>9, <2>2, <2>3 DEF EraseData, TypeOK
<1>10. ASSUME NEW k \in Key, NEW v \in Data, SetData(k, v) PROVE TypeOK'
    <2>1. GetDataIt(top, k) \in [Level -> [Key -> Entry]] /\ Found(top, k) \in Data
        BY <1>0, OpenLevelTypes
    <2>2. opLog' \in Seq([key : Key, old : Data])
        BY <1>10, <2>1, AddOpLogType DEF SetData, TypeOK
    <2>3. mapData' \in [Level -> [Key -> Entry]]
        BY <1>0, <1>10, <2>1 DEF SetData, Entry, Data, Level
    <2>4. QED
        BY <1>10, <2>2, <2>3 DEF SetData, TypeOK
<1>11. ASSUME NEW l \in 2..top, FlushToBase(l) PROVE TypeOK'
    <2>1. l \in Level /\ l - 1 \in Level
        BY <1>0 DEF Level
    <2>2. mapData' \in [Level -> [Key -> Entry]]
        BY <1>0, <1>11, <2>1 DEF FlushToBase, TypeOK
    <2>3. QED
        BY <1>11, <2>2 DEF FlushToBase, TypeOK
<1>12. CASE UNCHANGED vars
    BY <1>12 DEF vars, TypeOK
<1>13. QED
    BY <1>1, <1>2, <1>2a, <1>3, <1>4, <1>5, <1>6, <1>7, <1>8, <1>9, <1>10, <1>11, <1>12
        DEF Next

\* The stack of caches, the database and the log keep their types.
THEOREM TypeCorrect == Spec => []TypeOK
<1>1. Init => TypeOK
    BY BoundAssumption, EmptySeq DEF Init, TypeOK, Level, Cleared, Entry, Data
<1>2. QED
    BY <1>1, TypeStep, PTL DEF Spec

-----------------------------------------------------------------------------
(* The inductive invariant. *)

LEMMA IInvStep == IInv /\ [Next]_vars => IInv'
<1> SUFFICES ASSUME IInv, [Next]_vars PROVE IInv'
    OBVIOUS
<1> USE DEF IInv
<1>0. /\ MaxLevel \in Nat \ {0} /\ top \in Nat /\ top >= 1 /\ top <= MaxLevel
      /\ logged \in 0..top
    BY BoundAssumption DEF TypeOK, Level
<1>1. TypeOK'
    BY TypeStep
<1>2. LogMatchesLevel'
    <2>1. CASE UNCHANGED vars
        BY <2>1 DEF vars, LogMatchesLevel
    <2>2. CASE StartOpLog \/ StopOpLog \/ UndoDataList \/ Restart
        BY <1>0, <2>2 DEF StartOpLog, StopOpLog, UndoDataList, Restart, LogMatchesLevel
    <2>3. CASE UNCHANGED <<logged, opLog>>
        BY <2>3 DEF LogMatchesLevel
    <2>4. CASE logged = top /\ UNCHANGED logged
        BY <1>0, <2>4 DEF LogMatchesLevel
    <2>5. \A k \in Key : EraseData(k) =>
              UNCHANGED <<logged, opLog>> \/ (logged = top /\ UNCHANGED logged)
        BY DEF EraseData, AddOpLog
    <2>6. \A k \in Key, v \in Data : SetData(k, v) =>
              UNCHANGED <<logged, opLog>> \/ (logged = top /\ UNCHANGED logged)
        BY DEF SetData, AddOpLog
    <2>7. QED
        BY <2>1, <2>2, <2>3, <2>4, <2>5, <2>6
            DEF Next, Open, Drop, Clear, FlushToDb, GetData, FlushToBase
<1>3. ClosedIsEmpty'
    <2>1. CASE UNCHANGED vars \/ StartOpLog \/ StopOpLog
        BY <2>1 DEF vars, ClosedIsEmpty, StartOpLog, StopOpLog
    <2>2. CASE Open \/ Restart
        BY <1>0, <2>2 DEF ClosedIsEmpty, Open, Restart, Level
    <2>3. CASE Drop \/ Clear \/ FlushToDb \/ UndoDataList
        BY <1>0, <2>3 DEF ClosedIsEmpty, Drop, Clear, FlushToDb, UndoDataList, TypeOK, Level
    <2>4. ASSUME NEW l \in 1..top, NEW k \in Key,
                 NEW n, n \in Level, n > top
          PROVE  GetDataIt(l, k)[n] = mapData[n]
        <3>1. ~ (n <= l)
            BY <1>0, <2>4 DEF Level
        <3>2. QED
            BY <2>4, <3>1 DEF GetDataIt
    <2>5. ASSUME NEW l \in 1..top, NEW k \in Key, GetData(l, k) PROVE ClosedIsEmpty'
        BY <2>4, <2>5 DEF GetData, ClosedIsEmpty
    <2>6. ASSUME NEW k \in Key, EraseData(k) PROVE ClosedIsEmpty'
        BY <1>0, <2>4, <2>6, FillType DEF EraseData, ClosedIsEmpty, Level
    <2>7. ASSUME NEW k \in Key, NEW v \in Data, SetData(k, v) PROVE ClosedIsEmpty'
        BY <1>0, <2>4, <2>7, FillType DEF SetData, ClosedIsEmpty, Level
    <2>8. ASSUME NEW l \in 2..top, FlushToBase(l) PROVE ClosedIsEmpty'
        BY <1>0, <2>8 DEF FlushToBase, ClosedIsEmpty, TypeOK, Level
    <2>9. QED
        BY <2>1, <2>2, <2>3, <2>5, <2>6, <2>7, <2>8 DEF Next
<1>4. QED
    BY <1>1, <1>2, <1>3

LEMMA IInvInit == Init => IInv
<1> SUFFICES ASSUME Init PROVE IInv
    OBVIOUS
<1>1. TypeOK
    BY BoundAssumption, EmptySeq DEF Init, TypeOK, Level, Cleared, Entry, Data
<1>2. QED
    BY <1>1 DEF Init, IInv, ClosedIsEmpty, LogMatchesLevel

THEOREM Invariance == Spec => []IInv
    BY IInvInit, IInvStep, PTL DEF Spec

\* No step leaves an empty record in the database: Flush turns every empty entry
\* of the database-bound cache into an erasure.
THEOREM RecordsNotEmpty == Spec => []NoEmptyRecord
<1>1. Init => NoEmptyRecord
    BY EmptyAssumption, AbsentAssumption DEF Init, NoEmptyRecord
<1>2. NoEmptyRecord /\ [Next]_vars => NoEmptyRecord'
    <2> SUFFICES ASSUME NoEmptyRecord, [Next]_vars PROVE NoEmptyRecord'
        OBVIOUS
    <2>1. CASE FlushToDb
        BY <2>1, AbsentAssumption DEF FlushToDb, NoEmptyRecord
    <2>2. CASE UNCHANGED db
        BY <2>2 DEF NoEmptyRecord
    <2>3. FlushToDb \/ UNCHANGED db
        BY DEF Next, vars, Open, Drop, Clear, StartOpLog, StopOpLog, UndoDataList, Restart,
            GetData, EraseData, SetData, FlushToBase
    <2>4. QED
        BY <2>1, <2>2, <2>3
<1>3. QED
    BY <1>1, <1>2, PTL DEF Spec

-----------------------------------------------------------------------------
(* The refinement *)

\* Undoing nothing gives back what it was given.
LEMMA UndoneEmpty ==
    ASSUME NEW f \in [Key -> Data]
    PROVE  Undone(<<>>, f) = f
    BY DEF Undone, LogOf

\* Logging the value a write replaces leaves what the log restores unchanged.
LEMMA UndoneAppend ==
    ASSUME NEW log \in Logs, NEW f \in [Key -> Data], NEW k \in Key, NEW v \in Data
    PROVE  Undone(Append(log, [key |-> k, old |-> f[k]]), [f EXCEPT ![k] = v])
               = Undone(log, f)
<1> DEFINE e == [key |-> k, old |-> f[k]]
           longer == Append(log, e)
           g == [f EXCEPT ![k] = v]
<1>0. /\ e \in [key : Key, old : Data] /\ e.key = k /\ e.old = f[k]
      /\ Len(log) \in Nat /\ DOMAIN log = 1..Len(log)
    BY LenProperties DEF Logs
<1>1. /\ DOMAIN longer = 1..(Len(log) + 1)
      /\ \A i \in 1..Len(log) : longer[i] = log[i]
      /\ longer[Len(log) + 1] = e
    <2>1. log \in Seq([key : Key, old : Data])
        BY DEF Logs
    <2>2. longer \in Seq([key : Key, old : Data]) /\ Len(longer) = Len(log) + 1
        BY <1>0, <2>1, AppendProperties
    <2>3. QED
        BY <1>0, <2>1, <2>2, AppendProperties, LenProperties
<1> HIDE DEF e, longer
<1>2. longer \in Logs
    <2>1. log \in Seq([key : Key, old : Data])
        BY DEF Logs
    <2>2. QED
        BY <1>0, <2>1, AppendProperties DEF longer, Logs
<1>3. ASSUME NEW c \in Key
      PROVE  Undone(longer, g)[c] = Undone(log, f)[c]
    <2>1. CASE LogOf(log, c) = {} /\ c # k
        <3>1. LogOf(longer, c) = {}
            BY <1>0, <1>1, <2>1 DEF LogOf
        <3>2. QED
            BY <2>1, <3>1 DEF Undone
    <2>2. CASE LogOf(log, c) = {} /\ c = k
        <3>1. LogOf(longer, c) = {Len(log) + 1}
            BY <1>0, <1>1, <2>2 DEF LogOf
        <3>2. First(longer, c) = Len(log) + 1
            BY <1>2, <3>1, FirstExists
        <3>3. QED
            BY <1>0, <1>1, <2>2, <3>1, <3>2 DEF Undone
    <2>3. CASE LogOf(log, c) # {}
        <3>1. LogOf(log, c) \subseteq LogOf(longer, c)
            BY <1>0, <1>1 DEF LogOf
        <3>2. \A i \in LogOf(longer, c) : i \in LogOf(log, c) \/ i = Len(log) + 1
            BY <1>0, <1>1 DEF LogOf
        <3>3. /\ First(log, c) \in LogOf(log, c)
              /\ \A j \in LogOf(log, c) : First(log, c) <= j
              /\ First(log, c) \in 1..Len(log)
            BY <1>0, <2>3, FirstExists DEF LogOf
        <3>4. /\ First(longer, c) \in LogOf(longer, c)
              /\ \A j \in LogOf(longer, c) : First(longer, c) <= j
              /\ First(longer, c) \in 1..(Len(log) + 1)
            BY <1>1, <1>2, <2>3, <3>1, FirstExists DEF LogOf
        <3>5. First(longer, c) = First(log, c)
            BY <1>0, <3>1, <3>2, <3>3, <3>4
        <3>6. QED
            BY <1>1, <2>3, <3>1, <3>3, <3>5 DEF Undone
    <2>4. QED
        BY <2>1, <2>2, <2>3
<1>4. Undone(longer, g) = [c \in Key |-> Undone(longer, g)[c]]
      /\ Undone(log, f) = [c \in Key |-> Undone(log, f)[c]]
    BY DEF Undone
<1>5. QED
    BY <1>3, <1>4 DEF longer, e

-----------------------------------------------------------------------------
(* The views of a state. *)

LEMMA ViewType ==
    ASSUME IInv
    PROVE  /\ View \in [1..top -> [Key -> Data]]
           /\ \A l \in 1..top : View[l] \in [Key -> Data]
           /\ \A l \in 1..top, k \in Key : View[l][k] = Lookup(mapData, db, l, k)
           /\ DbView \in [Key -> Data]
<1>1. 1..top \subseteq 0..MaxLevel /\ 0 \in 0..MaxLevel
    BY BoundAssumption DEF IInv, TypeOK, Level
<1>2. mapData \in [Level -> [Key -> Entry]] /\ db \in [Key -> Entry]
    BY DEF IInv, TypeOK
<1>3. \A l \in 0..MaxLevel, k \in Key : Lookup(mapData, db, l, k) \in Data
    BY <1>2, LookupType
<1>4. QED
    BY <1>1, <1>3 DEF View, DbView, Found

\* A step that keeps the open levels, the log and every lookup keeps the views.
LEMMA SameViews ==
    ASSUME IInv, UNCHANGED <<top, logged, opLog>>,
           \A l \in 0..top, k \in Key :
               Lookup(mapData', db', l, k) = Lookup(mapData, db, l, k)
    PROVE  UNCHANGED Store!vars
<1>0. top \in Nat
    BY BoundAssumption DEF IInv, TypeOK, Level
<1>1. View' = View
    BY <1>0 DEF View, Found
<1>2. DbView' = DbView
    BY <1>0 DEF DbView, Found
<1>3. Savepoint' = Savepoint
    BY <1>1 DEF Savepoint, Undone
<1>4. QED
    BY <1>1, <1>2, <1>3 DEF Store!vars

LEMMA OpenRefines == ASSUME IInv, Open PROVE Store!Begin
<1>0. top \in Nat \ {0} /\ MaxLevel \in Nat /\ top + 1 \in Level
    BY BoundAssumption DEF IInv, TypeOK, Level, Open
<1>1. \A k \in Key : Lookup(mapData, db, top + 1, k) = Lookup(mapData, db, top, k)
    <2>0. mapData[top + 1] = Cleared /\ top + 1 # 0
        BY <1>0 DEF IInv, ClosedIsEmpty
    <2>1. \A k \in Key : At(mapData, db, top + 1, k) = Absent
        BY <2>0 DEF Cleared, At
    <2>2. PICK l \in Nat \ {0} : l = top + 1
        BY <1>0
    <2>3. l - 1 = top
        BY <1>0, <2>2
    <2>4. ASSUME NEW k \in Key PROVE Lookup(mapData, db, l, k) = Lookup(mapData, db, l - 1, k)
        <3>1. At(mapData, db, l, k) = Absent
            BY <2>1, <2>2
        <3>2. QED
            BY <3>1, LookupBelow
    <2>5. QED
        BY <2>2, <2>3, <2>4
<1>2. View' = [l \in 1..(top + 1) |-> IF l = top + 1 THEN View[top] ELSE View[l]]
    BY <1>0, <1>1 DEF Open, View, Found
<1>3. DbView' = DbView /\ (logged # 0 => View'[logged] = View[logged])
    BY <1>0, <1>2 DEF Open, DbView, Found, IInv, TypeOK
<1>4. Savepoint' = Savepoint
    BY <1>3 DEF Open, Savepoint
<1>5. QED
    BY <1>2, <1>3, <1>4 DEF Open, Store!Begin

LEMMA DropRefines == ASSUME IInv, Drop PROVE Store!Abort
<1>0. top \in Nat \ {0, 1} /\ logged \in 0..(top - 1) /\ top \in Level
    BY BoundAssumption DEF IInv, TypeOK, Level, Drop
<1>1. \A l \in 0..(top - 1), k \in Key :
          Lookup(mapData', db', l, k) = Lookup(mapData, db, l, k)
    <2>1. \A l \in 0..(top - 1), k \in Key :
              At(mapData', db', l, k) = At(mapData, db, l, k)
        BY <1>0 DEF Drop, At, IInv, TypeOK
    <2>2. QED
        BY <1>0, <2>1, LookupSame
<1>2. View' = [l \in 1..(top - 1) |-> View[l]]
    <2>1. \A l \in 1..(top - 1) : View[l] = [k \in Key |-> Lookup(mapData, db, l, k)]
        BY <1>0 DEF View, Found
    <2>2. View' = [l \in 1..(top - 1) |-> [k \in Key |-> Lookup(mapData', db', l, k)]]
        BY DEF Drop, View, Found
    <2>3. \A l \in 1..(top - 1) : [k \in Key |-> Lookup(mapData', db', l, k)] = View[l]
        BY <1>0, <1>1, <2>1
    <2>4. QED
        BY <2>2, <2>3
<1>3. DbView' = DbView /\ (logged # 0 => View'[logged] = View[logged])
    BY <1>0, <1>1, <1>2 DEF DbView, Found
<1>4. Savepoint' = Savepoint
    BY <1>3 DEF Drop, Savepoint
<1>5. QED
    BY <1>0, <1>2, <1>3, <1>4 DEF Drop, Store!Abort

LEMMA ClearRefines == ASSUME IInv, Clear PROVE Store!Reset
<1>0. /\ top \in Nat \ {0} /\ logged \in 0..(top - 1) /\ top \in Level
      /\ MaxLevel \in Nat /\ top <= MaxLevel
    BY BoundAssumption DEF IInv, TypeOK, Level, Clear
<1>1. /\ \A l \in 0..(top - 1), k \in Key : At(mapData', db', l, k) = At(mapData, db, l, k)
      /\ \A k \in Key : At(mapData', db', top, k) = Absent
    BY <1>0 DEF Clear, At, Cleared, IInv, TypeOK
<1>2. PICK n, e : n = mapData' /\ e = db'
    OBVIOUS
<1>3. /\ \A l \in 0..(top - 1), k \in Key : At(n, e, l, k) = At(mapData, db, l, k)
      /\ \A k \in Key : At(n, e, top, k) = Absent
    BY <1>1, <1>2, Zenon
<1>4. ASSUME NEW l \in 0..(top - 1), NEW k \in Key
      PROVE  Lookup(n, e, l, k) = Lookup(mapData, db, l, k)
    <2>1. l \in Nat
        BY <1>0
    <2>2. \A j \in 0..l : At(mapData, db, j, k) = At(n, e, j, k)
        BY <1>0, <1>3
    <2>3. QED
        BY <2>1, <2>2, LookupSame
<1>5. ASSUME NEW k \in Key
      PROVE  Lookup(n, e, top, k) = Lookup(mapData, db, top - 1, k)
    <2>1. Lookup(n, e, top, k) = Lookup(n, e, top - 1, k)
        BY <1>0, <1>3, LookupBelow, Zenon
    <2>2. QED
        BY <1>0, <1>4, <2>1
<1>6. /\ \A l \in 0..(top - 1), k \in Key :
             Lookup(mapData', db', l, k) = Lookup(mapData, db, l, k)
      /\ \A k \in Key : Lookup(mapData', db', top, k) = Lookup(mapData, db, top - 1, k)
    BY <1>2, <1>4, <1>5, Zenon
<1>7. DbView' = DbView
    BY <1>0, <1>6 DEF DbView, Found
<1>8. /\ View' = [l \in 1..top |-> [k \in Key |-> Lookup(mapData', db', l, k)]]
      /\ View = [l \in 1..top |-> [k \in Key |-> Lookup(mapData, db, l, k)]]
      /\ DbView = [k \in Key |-> Lookup(mapData, db, 0, k)]
    BY DEF Clear, View, DbView, Found
<1>9. View' = [View EXCEPT ![top] = IF top = 1 THEN DbView ELSE View[top - 1]]
    <2>1. ASSUME NEW l \in 1..top
          PROVE  View'[l] = IF l # top THEN View[l]
                            ELSE IF top = 1 THEN DbView ELSE View[top - 1]
        BY <1>0, <1>6, <1>8
    <2>2. QED
        BY <1>0, <1>8, <2>1
<1>10. Savepoint' = Savepoint
    <2>1. ASSUME logged # 0 PROVE View'[logged] = View[logged]
        <3>1. logged \in 1..top /\ logged # top /\ logged \in DOMAIN View
            BY <1>0, <1>8, <2>1
        <3>2. QED
            BY <1>9, <3>1
    <2>2. QED
        BY <2>1 DEF Clear, Savepoint
<1>11. QED
    BY <1>0, <1>7, <1>9, <1>10 DEF Clear, Store!Reset

LEMMA GetRefines ==
    ASSUME IInv, NEW l \in 1..top, NEW k \in Key, GetData(l, k)
    PROVE  UNCHANGED Store!vars
<1>1. 0..top \subseteq 0..MaxLevel
    BY BoundAssumption DEF IInv, TypeOK, Level
<1>2. \A i \in 0..top, c \in Key :
          Lookup(mapData', db', i, c) = Lookup(mapData, db, i, c)
    BY <1>1, FillSame DEF GetData, IInv
<1>3. QED
    BY <1>2, SameViews DEF GetData

\* What a write of v at key k of the innermost cache, after the read-through of
\* the key, does to the lookups.
LEMMA WriteLookups ==
    ASSUME IInv, NEW k \in Key, NEW v \in Data,
           NEW n, \A j \in Level, a \in Key : n[j][a] =
                      IF j = top /\ a = k THEN v ELSE GetDataIt(top, k)[j][a]
    PROVE  \A l \in 0..top, c \in Key : Lookup(n, db, l, c) =
               IF l = top /\ c = k THEN v ELSE Lookup(mapData, db, l, c)
<1> DEFINE f == GetDataIt(top, k)
<1>0. top \in Level /\ top \in 1..top /\ 0..top \subseteq 0..MaxLevel
    BY BoundAssumption DEF IInv, TypeOK, Level
<1>1. f \in [Level -> [Key -> Entry]] /\ db \in [Key -> Entry]
    BY <1>0, FillType DEF IInv, TypeOK
<1>2. \A l \in 0..top, c \in Key : Lookup(f, db, l, c) = Lookup(mapData, db, l, c)
    BY <1>0, FillSame DEF IInv
<1>3. \A j \in Level, a \in Key : n[j][a] = IF j = top /\ a = k THEN v ELSE f[j][a]
    OBVIOUS
<1> HIDE DEF f
<1>4. \A l \in 0..top, c \in Key : Lookup(n, db, l, c) =
          IF l = top /\ c = k THEN v ELSE Lookup(f, db, l, c)
    <2> SUFFICES ASSUME NEW l \in 0..top, NEW c \in Key
                 PROVE  Lookup(n, db, l, c) =
                            IF l = top /\ c = k THEN v ELSE Lookup(f, db, l, c)
        OBVIOUS
    <2>0. top \in Nat \ {0} /\ l \in Nat /\ MaxLevel \in Nat /\ top <= MaxLevel
        BY <1>0, BoundAssumption DEF Level
    <2>1. CASE l = top /\ c = k
        <3>1. At(n, db, l, c) = v /\ v # Absent
            BY <1>0, <1>3, <2>0, <2>1, AbsentAssumption DEF At, Data
        <3>2. QED
            BY <2>0, <2>1, <3>1, LookupHere
    <2>2. CASE ~ (l = top /\ c = k)
        <3>1. \A j \in 0..l : At(f, db, j, c) = At(n, db, j, c)
            BY <1>3, <2>0, <2>2 DEF At, Level
        <3>2. Lookup(n, db, l, c) = Lookup(f, db, l, c)
            BY <2>0, <3>1, LookupSame
        <3>3. QED
            BY <2>2, <3>2
    <2>3. QED
        BY <2>1, <2>2
<1>5. QED
    BY <1>2, <1>4

\* A step that changes one lookup of the innermost cache, logged when that cache
\* is, is a Put.
LEMMA PutRefines ==
    ASSUME IInv, NEW k \in Key, NEW v \in Data,
           AddOpLog(k, Found(top, k)),
           \A l \in 0..top, c \in Key : Lookup(mapData', db', l, c) =
               IF l = top /\ c = k THEN v ELSE Lookup(mapData, db, l, c),
           UNCHANGED <<top, logged>>
    PROVE  Store!Put(k, v)
<1>0. /\ top \in Nat \ {0} /\ top \in 1..top
      /\ logged \in 0..top
      /\ opLog \in Logs
    BY BoundAssumption DEF IInv, TypeOK, Level, Logs
<1>1. /\ View \in [1..top -> [Key -> Data]]
      /\ \A l \in 1..top : View[l] \in [Key -> Data]
      /\ \A l \in 1..top, c \in Key : View[l][c] = Lookup(mapData, db, l, c)
    BY ViewType
<1>2. View' = [View EXCEPT ![top][k] = v]
    <2>1. View' = [l \in 1..top |-> [c \in Key |-> Lookup(mapData', db', l, c)]]
        BY DEF View, Found
    <2>2. ASSUME NEW l \in 1..top
          PROVE  [c \in Key |-> Lookup(mapData', db', l, c)] = [View EXCEPT ![top][k] = v][l]
        <3>1. CASE l = top
            <4>1. [View EXCEPT ![top][k] = v][l] =
                      [c \in Key |-> IF c = k THEN v ELSE View[top][c]]
                BY <1>0, <1>1, <3>1
            <4>2. QED
                BY <1>0, <1>1, <3>1, <4>1
        <3>2. CASE l # top
            <4>1. [View EXCEPT ![top][k] = v][l] = View[l]
                BY <1>0, <1>1, <3>2
            <4>2. View[l] = [c \in Key |-> Lookup(mapData, db, l, c)]
                BY DEF View, Found
            <4>3. QED
                BY <1>0, <3>2, <4>1, <4>2
        <3>3. QED
            BY <3>1, <3>2
    <2>3. QED
        BY <1>1, <2>1, <2>2
<1>3. DbView' = DbView
    BY <1>0 DEF DbView, Found
<1>4. Savepoint' = Savepoint
    <2>1. CASE logged = 0
        BY <2>1 DEF Savepoint
    <2>2. CASE logged # 0 /\ logged # top
        <3>1. View'[logged] = View[logged]
            BY <1>0, <1>1, <1>2, <2>2
        <3>2. opLog' = opLog
            BY <2>2 DEF AddOpLog
        <3>3. QED
            BY <2>2, <3>1, <3>2 DEF Savepoint
    <2>3. CASE logged = top
        <3>1. Found(top, k) = View[top][k]
            BY <1>0, <1>1 DEF Found
        <3>2. opLog' = Append(opLog, [key |-> k, old |-> View[top][k]])
            BY <2>3, <3>1 DEF AddOpLog
        <3>3. View'[top] = [View[top] EXCEPT ![k] = v]
            BY <1>0, <1>1, <1>2
        <3>4. View[top] \in [Key -> Data]
            BY <1>0, <1>1
        <3>5. Undone(opLog', View'[top]) = Undone(opLog, View[top])
            BY <1>0, <3>2, <3>3, <3>4, UndoneAppend
        <3>6. QED
            BY <1>0, <2>3, <3>5 DEF Savepoint
    <2>4. QED
        BY <2>1, <2>2, <2>3
<1>5. QED
    BY <1>2, <1>3, <1>4 DEF Store!Put

LEMMA WriteRefines ==
    ASSUME IInv, NEW k \in Key, NEW v \in Data,
           AddOpLog(k, Found(top, k)),
           mapData' = [GetDataIt(top, k) EXCEPT ![top][k] = v],
           UNCHANGED <<top, db, logged>>
    PROVE  Store!Put(k, v)
<1>1. top \in Level /\ top \in 1..top
    BY BoundAssumption DEF IInv, TypeOK, Level
<1>2. GetDataIt(top, k) \in [Level -> [Key -> Entry]]
    BY <1>1, FillType DEF IInv
<1>3. \A j \in Level, a \in Key : mapData'[j][a] =
          IF j = top /\ a = k THEN v ELSE GetDataIt(top, k)[j][a]
    BY <1>1, <1>2
<1>4. PICK n : n = mapData'
    OBVIOUS
<1>5. \A j \in Level, a \in Key : n[j][a] =
          IF j = top /\ a = k THEN v ELSE GetDataIt(top, k)[j][a]
    BY <1>3, <1>4
<1>6. \A l \in 0..top, c \in Key : Lookup(n, db, l, c) =
          IF l = top /\ c = k THEN v ELSE Lookup(mapData, db, l, c)
    BY <1>5, WriteLookups
<1>7. \A l \in 0..top, c \in Key : Lookup(mapData', db', l, c) =
          IF l = top /\ c = k THEN v ELSE Lookup(mapData, db, l, c)
    BY <1>4, <1>6, Zenon
<1>8. QED
    BY <1>7, PutRefines, Zenon

LEMMA SetRefines ==
    ASSUME IInv, NEW k \in Key, NEW v \in Data, SetData(k, v)
    PROVE  Store!Put(k, v)
    BY WriteRefines DEF SetData

LEMMA EraseRefines ==
    ASSUME IInv, NEW k \in Key, EraseData(k)
    PROVE  Store!Put(k, Empty)
<1>1. CASE Found(top, k) = Empty
    <2>0. 0..top \subseteq 0..MaxLevel /\ top \in 1..top
        BY BoundAssumption DEF IInv, TypeOK, Level
    <2>1. mapData' = GetDataIt(top, k) /\ UNCHANGED <<top, db, logged, opLog>>
        BY <1>1 DEF EraseData
    <2>2. \A i \in 0..top, c \in Key :
              Lookup(mapData', db', i, c) = Lookup(mapData, db, i, c)
        BY <2>0, <2>1, FillSame DEF IInv
    <2>3. UNCHANGED Store!vars
        BY <2>1, <2>2, SameViews
    <2>4. View[top] \in [Key -> Data] /\ View \in [1..top -> [Key -> Data]]
        BY <2>0, ViewType
    <2>5. View[top][k] = Empty
        BY <2>0, <1>1 DEF View
    <2>6. View = [View EXCEPT ![top][k] = Empty]
        BY <2>0, <2>4, <2>5
    <2>7. QED
        BY <2>3, <2>6 DEF Store!Put, Store!vars
<1>2. CASE Found(top, k) # Empty
    BY <1>2, WriteRefines DEF EraseData, Data
<1>3. QED
    BY <1>1, <1>2

\* A flush moves the view of a cache into its base and keeps every other view.
LEMMA FlushLookups ==
    ASSUME IInv, NEW l \in 2..top, FlushToBase(l)
    PROVE  \A i \in 0..top, k \in Key : Lookup(mapData', db', i, k) =
               IF i = l - 1 THEN Lookup(mapData, db, l, k) ELSE Lookup(mapData, db, i, k)
<1>0. /\ top \in Nat /\ MaxLevel \in Nat /\ top <= MaxLevel
      /\ l \in Nat \ {0, 1} /\ l - 1 \in Nat \ {0} /\ l <= top
    BY BoundAssumption DEF IInv, TypeOK, Level
<1>1. \A i \in 0..MaxLevel, k \in Key : At(mapData', db', i, k) =
          IF i = l THEN Absent
          ELSE IF i = l - 1 /\ mapData[l][k] # Absent THEN mapData[l][k]
          ELSE At(mapData, db, i, k)
    BY <1>0 DEF FlushToBase, At, Cleared, IInv, TypeOK, Level
<1>2. PICK n, e : n = mapData' /\ e = db'
    OBVIOUS
<1>3. \A i \in 0..MaxLevel, k \in Key : At(n, e, i, k) =
          IF i = l THEN Absent
          ELSE IF i = l - 1 /\ mapData[l][k] # Absent THEN mapData[l][k]
          ELSE At(mapData, db, i, k)
    BY <1>1, <1>2, Zenon
<1>4. \A k \in Key : At(mapData, db, l, k) = mapData[l][k]
    BY <1>0 DEF At
<1>5. ASSUME NEW i \in 0..(l - 2), NEW k \in Key
      PROVE  Lookup(n, e, i, k) = Lookup(mapData, db, i, k)
    <2>1. \A j \in 0..i : At(mapData, db, j, k) = At(n, e, j, k)
        BY <1>0, <1>3
    <2>2. QED
        BY <1>0, <2>1, LookupSame
<1>6. ASSUME NEW k \in Key
      PROVE  Lookup(n, e, l - 1, k) = Lookup(mapData, db, l, k)
    <2>1. CASE mapData[l][k] # Absent
        <3>1. At(n, e, l - 1, k) = mapData[l][k] /\ At(n, e, l - 1, k) # Absent
            BY <1>0, <1>3, <2>1
        <3>2. Lookup(n, e, l - 1, k) = mapData[l][k]
            BY <1>0, <3>1, LookupHere
        <3>3. Lookup(mapData, db, l, k) = mapData[l][k]
            BY <1>0, <1>4, <2>1, LookupHere
        <3>4. QED
            BY <3>2, <3>3
    <2>2. CASE mapData[l][k] = Absent
        <3>1. Lookup(mapData, db, l, k) = Lookup(mapData, db, l - 1, k)
            BY <1>0, <1>4, <2>2, LookupBelow
        <3>2. \A j \in 0..(l - 1) : At(mapData, db, j, k) = At(n, e, j, k)
            BY <1>0, <1>3, <2>2
        <3>3. Lookup(n, e, l - 1, k) = Lookup(mapData, db, l - 1, k)
            BY <1>0, <3>2, LookupSame
        <3>4. QED
            BY <3>1, <3>3
    <2>3. QED
        BY <2>1, <2>2
<1>7. ASSUME NEW i \in l..top, NEW k \in Key
      PROVE  Lookup(n, e, i, k) = Lookup(mapData, db, i, k)
    <2>1. At(n, e, l, k) = Absent
        BY <1>0, <1>3
    <2>2. Lookup(n, e, l, k) = Lookup(n, e, l - 1, k)
        BY <1>0, <2>1, LookupBelow
    <2>3. Lookup(n, e, l, k) = Lookup(mapData, db, l, k)
        BY <1>6, <2>2
    <2>4. \A j \in (l + 1)..i : At(n, e, j, k) = At(mapData, db, j, k)
        BY <1>0, <1>3
    <2>5. i \in Nat /\ l <= i
        BY <1>0
    <2>6. QED
        BY <1>0, <2>3, <2>4, <2>5, LookupAgree
<1>8. \A i \in 0..top : i \in 0..(l - 2) \/ i = l - 1 \/ i \in l..top
    BY <1>0
<1>9. \A i \in 0..top, k \in Key : Lookup(n, e, i, k) =
          IF i = l - 1 THEN Lookup(mapData, db, l, k) ELSE Lookup(mapData, db, i, k)
    BY <1>0, <1>5, <1>6, <1>7, <1>8
<1>10. QED
    BY <1>2, <1>9, Zenon

LEMMA FlushRefines ==
    ASSUME IInv, NEW l \in 2..top, FlushToBase(l)
    PROVE  Store!Commit(l)
<1>0. /\ top \in Nat /\ l \in Nat \ {0, 1} /\ l - 1 \in 1..top /\ l \in 1..top
      /\ logged \in 0..top /\ logged # l - 1
      /\ UNCHANGED <<top, logged, opLog>>
    BY BoundAssumption DEF IInv, TypeOK, Level, FlushToBase
<1>1. \A i \in 0..top, k \in Key : Lookup(mapData', db', i, k) =
          IF i = l - 1 THEN Lookup(mapData, db, l, k) ELSE Lookup(mapData, db, i, k)
    BY FlushLookups
<1>2. \A i \in 1..top : View[i] = [k \in Key |-> Lookup(mapData, db, i, k)]
    BY DEF View, Found
<1>3. View' = [View EXCEPT ![l - 1] = View[l]]
    <2>1. View' = [i \in 1..top |-> [k \in Key |-> Lookup(mapData', db', i, k)]]
        BY <1>0 DEF View, Found
    <2>2. ASSUME NEW i \in 1..top
          PROVE  [k \in Key |-> Lookup(mapData', db', i, k)] =
                     IF i = l - 1 THEN View[l] ELSE View[i]
        BY <1>0, <1>1, <1>2
    <2>3. [View EXCEPT ![l - 1] = View[l]] =
              [i \in 1..top |-> IF i = l - 1 THEN View[l] ELSE View[i]]
        BY <1>0 DEF View
    <2>4. QED
        BY <2>1, <2>2, <2>3
<1>4. DbView' = DbView
    BY <1>0, <1>1 DEF DbView, Found
<1>5. Savepoint' = Savepoint
    <2>1. CASE logged = 0
        BY <1>0, <2>1 DEF Savepoint
    <2>2. CASE logged # 0
        <3>1. View'[logged] = [k \in Key |-> Lookup(mapData', db', logged, k)]
            BY <1>0, <2>2 DEF View, Found
        <3>2. View'[logged] = View[logged]
            BY <1>0, <1>1, <1>2, <2>2, <3>1
        <3>3. QED
            BY <1>0, <2>2, <3>2 DEF Savepoint
    <2>3. QED
        BY <2>1, <2>2
<1>6. QED
    BY <1>0, <1>3, <1>4, <1>5 DEF Store!Commit

\* A flush to the database keeps every view and gives the database the view of
\* the cache bound to it.
LEMMA PersistLookups ==
    ASSUME IInv, FlushToDb
    PROVE  \A i \in 0..top, k \in Key : Lookup(mapData', db', i, k) =
               IF i = 0 THEN Lookup(mapData, db, 1, k) ELSE Lookup(mapData, db, i, k)
<1>0. top \in Nat /\ MaxLevel \in Nat /\ top <= MaxLevel /\ 1 <= top
    BY BoundAssumption DEF IInv, TypeOK, Level
<1>1. /\ \A i \in 1..MaxLevel, k \in Key : At(mapData', db', i, k) =
             IF i = 1 THEN Absent ELSE At(mapData, db, i, k)
      /\ \A k \in Key : At(mapData', db', 0, k) =
             IF mapData[1][k] = Absent THEN db[k]
             ELSE IF mapData[1][k] = Empty THEN Absent ELSE mapData[1][k]
    BY <1>0 DEF FlushToDb, At, Cleared, IInv, TypeOK, Level
<1>2. \A k \in Key : At(mapData, db, 0, k) = db[k] /\ At(mapData, db, 1, k) = mapData[1][k]
    BY DEF At
<1>3. PICK n, e : n = mapData' /\ e = db'
    OBVIOUS
<1>4. /\ \A i \in 1..MaxLevel, k \in Key : At(n, e, i, k) =
             IF i = 1 THEN Absent ELSE At(mapData, db, i, k)
      /\ \A k \in Key : At(n, e, 0, k) =
             IF mapData[1][k] = Absent THEN db[k]
             ELSE IF mapData[1][k] = Empty THEN Absent ELSE mapData[1][k]
    BY <1>1, <1>3, Zenon
<1>5. ASSUME NEW k \in Key
      PROVE  Lookup(n, e, 0, k) = Lookup(mapData, db, 1, k)
    <2>1. CASE mapData[1][k] = Absent
        <3>1. Lookup(mapData, db, 1, k) = Lookup(mapData, db, 0, k)
            BY <1>2, <2>1, LookupBelow
        <3>2. \A j \in 0..0 : At(mapData, db, j, k) = At(n, e, j, k)
            BY <1>2, <1>4, <2>1
        <3>3. Lookup(n, e, 0, k) = Lookup(mapData, db, 0, k)
            BY <3>2, LookupSame
        <3>4. QED
            BY <3>1, <3>3
    <2>2. CASE mapData[1][k] # Absent
        <3>1. Lookup(mapData, db, 1, k) = mapData[1][k]
            BY <1>2, <2>2, LookupHere
        <3>2. CASE mapData[1][k] = Empty
            <4>1. \A j \in 0..0 : At(n, e, j, k) = Absent
                BY <1>4, <2>2, <3>2
            <4>2. QED
                BY <3>1, <3>2, <4>1, LookupNone
        <3>3. CASE mapData[1][k] # Empty
            <4>1. At(n, e, 0, k) = mapData[1][k] /\ At(n, e, 0, k) # Absent
                BY <1>4, <2>2, <3>3
            <4>2. QED
                BY <3>1, <4>1, LookupHere
        <3>4. QED
            BY <3>2, <3>3
    <2>3. QED
        BY <2>1, <2>2
<1>6. ASSUME NEW i \in 1..top, NEW k \in Key
      PROVE  Lookup(n, e, i, k) = Lookup(mapData, db, i, k)
    <2>1. At(n, e, 1, k) = Absent
        BY <1>0, <1>4
    <2>2. Lookup(n, e, 1, k) = Lookup(n, e, 0, k)
        BY <2>1, LookupBelow
    <2>3. Lookup(n, e, 1, k) = Lookup(mapData, db, 1, k)
        BY <1>5, <2>2
    <2>4. \A j \in (1 + 1)..i : At(n, e, j, k) = At(mapData, db, j, k)
        BY <1>0, <1>4
    <2>5. i \in Nat /\ 1 <= i
        BY <1>0
    <2>6. QED
        BY <2>3, <2>4, <2>5, LookupAgree
<1>7. \A i \in 0..top : i = 0 \/ i \in 1..top
    BY <1>0
<1>8. \A i \in 0..top, k \in Key : Lookup(n, e, i, k) =
          IF i = 0 THEN Lookup(mapData, db, 1, k) ELSE Lookup(mapData, db, i, k)
    BY <1>0, <1>5, <1>6, <1>7
<1>9. QED
    BY <1>3, <1>8, Zenon

LEMMA PersistRefines == ASSUME IInv, FlushToDb PROVE Store!Persist
<1>0. top \in Nat /\ 1 \in 1..top /\ logged \in 0..top /\ UNCHANGED <<top, logged, opLog>>
    BY BoundAssumption DEF IInv, TypeOK, Level, FlushToDb
<1>1. \A i \in 0..top, k \in Key : Lookup(mapData', db', i, k) =
          IF i = 0 THEN Lookup(mapData, db, 1, k) ELSE Lookup(mapData, db, i, k)
    BY PersistLookups
<1>2. View' = View
    BY <1>0, <1>1 DEF View, Found
<1>3. DbView' = View[1]
    BY <1>0, <1>1 DEF DbView, View, Found
<1>4. Savepoint' = Savepoint
    BY <1>0, <1>2 DEF Savepoint
<1>5. QED
    BY <1>0, <1>2, <1>3, <1>4 DEF Store!Persist

-----------------------------------------------------------------------------
(* The log and the savepoint. *)

LEMMA StartRefines == ASSUME IInv, StartOpLog PROVE Store!Save
<1>0. top \in 1..top /\ top # 0 /\ opLog = <<>> /\ opLog' = <<>> /\ logged' = top
    BY BoundAssumption DEF IInv, TypeOK, Level, LogMatchesLevel, StartOpLog
<1>1. View' = View /\ DbView' = DbView
    BY DEF StartOpLog, View, DbView, Found
<1>2. View[top] \in [Key -> Data]
    BY <1>0, ViewType
<1>3. Savepoint' = View[top]
    <2>1. Savepoint' = Undone(<<>>, View[top])
        BY <1>0, <1>1 DEF Savepoint, StartOpLog
    <2>2. QED
        BY <1>2, <2>1, UndoneEmpty
<1>4. QED
    BY <1>1, <1>3 DEF StartOpLog, Store!Save

LEMMA StopRefines == ASSUME IInv, StopOpLog PROVE Store!Release
<1>1. View' = View /\ DbView' = DbView
    BY DEF StopOpLog, View, DbView, Found
<1>2. Savepoint' = [k \in Key |-> Empty]
    BY DEF StopOpLog, Savepoint
<1>3. QED
    BY <1>1, <1>2 DEF StopOpLog, Store!Release

\* Replaying the log makes the innermost cache read what it read before logging.
LEMMA UndoLookups ==
    ASSUME IInv, UndoDataList
    PROVE  \A i \in 0..top, k \in Key : Lookup(mapData', db', i, k) =
               IF i = top THEN Savepoint[k] ELSE Lookup(mapData, db, i, k)
<1>0. /\ top \in Nat \ {0} /\ MaxLevel \in Nat /\ top <= MaxLevel /\ top \in Level
      /\ logged = top /\ opLog \in Logs /\ mapData[top] \in [Key -> Entry]
    BY BoundAssumption DEF IInv, TypeOK, Level, UndoDataList, Logs
<1>1. \A i \in 0..MaxLevel, k \in Key : At(mapData', db', i, k) =
          IF i = top THEN Undone(opLog, mapData[top])[k] ELSE At(mapData, db, i, k)
    BY <1>0 DEF UndoDataList, At, IInv, TypeOK, Level
<1>2. PICK n, e : n = mapData' /\ e = db'
    OBVIOUS
<1>3. \A i \in 0..MaxLevel, k \in Key : At(n, e, i, k) =
          IF i = top THEN Undone(opLog, mapData[top])[k] ELSE At(mapData, db, i, k)
    BY <1>1, <1>2, Zenon
<1>4. \A k \in Key : At(mapData, db, top, k) = mapData[top][k]
    BY <1>0 DEF At
<1>5. \A k \in Key : Savepoint[k] =
          IF LogOf(opLog, k) = {} THEN Lookup(mapData, db, top, k)
          ELSE opLog[First(opLog, k)].old
    <2>1. \A k \in Key : View[top][k] = Lookup(mapData, db, top, k)
        BY <1>0, ViewType
    <2>2. QED
        BY <1>0, <2>1 DEF Savepoint, Undone
<1>6. ASSUME NEW i \in 0..(top - 1), NEW k \in Key
      PROVE  Lookup(n, e, i, k) = Lookup(mapData, db, i, k)
    <2>1. \A j \in 0..i : At(mapData, db, j, k) = At(n, e, j, k)
        BY <1>0, <1>3
    <2>2. QED
        BY <1>0, <2>1, LookupSame
<1>7. ASSUME NEW k \in Key
      PROVE  Lookup(n, e, top, k) = Savepoint[k]
    <2>1. CASE LogOf(opLog, k) = {}
        <3>1. \A j \in 0..top : At(mapData, db, j, k) = At(n, e, j, k)
            BY <1>0, <1>3, <1>4, <2>1 DEF Undone
        <3>2. Lookup(n, e, top, k) = Lookup(mapData, db, top, k)
            BY <1>0, <3>1, LookupSame
        <3>3. QED
            BY <1>5, <2>1, <3>2
    <2>2. CASE LogOf(opLog, k) # {}
        <3>1. opLog[First(opLog, k)].old \in Data
            BY <1>0, <2>2, LoggedValue
        <3>2. At(n, e, top, k) = opLog[First(opLog, k)].old
            BY <1>0, <1>3, <2>2 DEF Undone
        <3>3. At(n, e, top, k) # Absent
            BY <3>1, <3>2, AbsentAssumption DEF Data
        <3>4. QED
            BY <1>0, <1>5, <2>2, <3>2, <3>3, LookupHere
    <2>3. QED
        BY <2>1, <2>2
<1>8. \A i \in 0..top : i = top \/ i \in 0..(top - 1)
    BY <1>0
<1>9. \A i \in 0..top, k \in Key : Lookup(n, e, i, k) =
          IF i = top THEN Savepoint[k] ELSE Lookup(mapData, db, i, k)
    BY <1>0, <1>6, <1>7, <1>8
<1>10. QED
    BY <1>2, <1>9, Zenon

LEMMA UndoRefines == ASSUME IInv, UndoDataList PROVE Store!Rollback
<1>0. top \in Nat \ {0} /\ logged = top /\ logged' = 0 /\ UNCHANGED top
    BY BoundAssumption DEF IInv, TypeOK, Level, UndoDataList
<1>1. \A i \in 0..top, k \in Key : Lookup(mapData', db', i, k) =
          IF i = top THEN Savepoint[k] ELSE Lookup(mapData, db, i, k)
    BY UndoLookups
<1>2. Savepoint = [k \in Key |-> Savepoint[k]]
    BY <1>0 DEF Savepoint, Undone
<1>3. View' = [View EXCEPT ![top] = Savepoint]
    <2>1. View' = [i \in 1..top |-> [k \in Key |-> Lookup(mapData', db', i, k)]]
        BY <1>0 DEF View, Found
    <2>2. \A i \in 1..top : View[i] = [k \in Key |-> Lookup(mapData, db, i, k)]
        BY DEF View, Found
    <2>3. ASSUME NEW i \in 1..top
          PROVE  [k \in Key |-> Lookup(mapData', db', i, k)] =
                     IF i = top THEN Savepoint ELSE View[i]
        BY <1>0, <1>1, <1>2, <2>2
    <2>4. [View EXCEPT ![top] = Savepoint] =
              [i \in 1..top |-> IF i = top THEN Savepoint ELSE View[i]]
        BY <1>0 DEF View
    <2>5. QED
        BY <2>1, <2>3, <2>4
<1>4. DbView' = DbView
    BY <1>0, <1>1 DEF DbView, Found
<1>5. Savepoint' = [k \in Key |-> Empty]
    BY <1>0 DEF Savepoint
<1>6. QED
    BY <1>0, <1>3, <1>4, <1>5 DEF Store!Rollback

LEMMA RestartRefines == ASSUME IInv, Restart PROVE Store!Crash
<1>0. MaxLevel \in Nat \ {0}
    BY BoundAssumption
<1>1. \A k \in Key : Lookup(mapData', db', 0, k) = Lookup(mapData, db, 0, k)
    <2>1. \A k \in Key : \A j \in 0..0 : At(mapData, db, j, k) = At(mapData', db', j, k)
        BY DEF Restart, At
    <2>2. QED
        BY <2>1, LookupSame
<1>2. \A k \in Key : Lookup(mapData', db', 1, k) = Lookup(mapData', db', 0, k)
    <2>1. \A k \in Key : At(mapData', db', 1, k) = Absent
        BY <1>0 DEF Restart, At, Cleared, Level
    <2>2. QED
        BY <2>1, LookupBelow
<1>3. DbView' = DbView
    BY <1>1 DEF DbView, Found
<1>4. View' = [l \in 1..1 |-> DbView]
    BY <1>1, <1>2 DEF Restart, View, DbView, Found
<1>5. Savepoint' = [k \in Key |-> Empty]
    BY DEF Restart, Savepoint
<1>6. QED
    BY <1>3, <1>4, <1>5 DEF Restart, Store!Crash

-----------------------------------------------------------------------------
LEMMA InitRefines == Init => Store!Init
<1> SUFFICES ASSUME Init PROVE Store!Init
    OBVIOUS
<1>0. IInv
    BY IInvInit
<1>1. DbView \in [Key -> Value \union {Empty}]
    BY <1>0, ViewType DEF Data
<1>2. View = [l \in 1..1 |-> DbView]
    <2>1. \A k \in Key : At(mapData, db, 1, k) = Absent
        BY BoundAssumption DEF Init, At, Cleared, Level
    <2>2. \A k \in Key : Lookup(mapData, db, 1, k) = Lookup(mapData, db, 1 - 1, k)
        <3>1. 1 \in Nat \ {0}
            OBVIOUS
        <3>2. QED
            BY <2>1, <3>1, LookupBelow, Zenon
    <2>3. QED
        BY <2>2 DEF Init, View, DbView, Found
<1>3. Savepoint = [k \in Key |-> Empty]
    BY DEF Init, Savepoint
<1>4. QED
    BY <1>1, <1>2, <1>3 DEF Init, Store!Init, Store!Content

LEMMA NextRefines == IInv /\ [Next]_vars => [Store!Next]_(Store!vars)
<1> SUFFICES ASSUME IInv, [Next]_vars PROVE Store!Next \/ UNCHANGED Store!vars
    OBVIOUS
<1>1. CASE UNCHANGED vars
    <2>1. View' = View /\ DbView' = DbView
        BY <1>1 DEF vars, View, DbView, Found
    <2>2. QED
        BY <1>1, <2>1 DEF vars, Store!vars, Savepoint
<1>2. CASE Open
    BY <1>2, OpenRefines DEF Store!Next
<1>3. CASE Drop
    BY <1>3, DropRefines DEF Store!Next
<1>3a. CASE Clear
    BY <1>3a, ClearRefines DEF Store!Next
<1>4. CASE FlushToDb
    BY <1>4, PersistRefines DEF Store!Next
<1>5. CASE StartOpLog
    BY <1>5, StartRefines DEF Store!Next
<1>6. CASE StopOpLog
    BY <1>6, StopRefines DEF Store!Next
<1>7. CASE UndoDataList
    BY <1>7, UndoRefines DEF Store!Next
<1>8. CASE Restart
    BY <1>8, RestartRefines DEF Store!Next
<1>9. ASSUME NEW l \in 1..top, NEW k \in Key, GetData(l, k)
      PROVE  UNCHANGED Store!vars
    BY <1>9, GetRefines
<1>10. ASSUME NEW k \in Key, EraseData(k)
       PROVE  Store!Next
    <2>1. Store!Put(k, Empty)
        BY <1>10, EraseRefines
    <2>2. QED
        BY <2>1 DEF Store!Next
<1>11. ASSUME NEW k \in Key, NEW v \in Data, SetData(k, v)
       PROVE  Store!Next
    <2>1. Store!Put(k, v)
        BY <1>11, SetRefines
    <2>2. QED
        BY <2>1 DEF Store!Next, Data
<1>12. ASSUME NEW l \in 2..top, FlushToBase(l)
       PROVE  Store!Next
    <2>1. Store!Commit(l)
        BY <1>12, FlushRefines
    <2>2. QED
        BY <2>1 DEF Store!Next
<1>13. QED
    BY <1>1, <1>2, <1>3, <1>3a, <1>4, <1>5, <1>6, <1>7, <1>8, <1>9, <1>10, <1>11, <1>12
        DEF Next

\* Each operation is the one of the store it is named after.
LEMMA StepsRefine == IInv => StepsCorrespond
<1> SUFFICES ASSUME IInv PROVE StepsCorrespond
    OBVIOUS
<1>1. Open => Store!Begin
    BY OpenRefines
<1>2. Drop => Store!Abort
    BY DropRefines
<1>3. Clear => Store!Reset
    BY ClearRefines
<1>4. ASSUME NEW l \in 1..top, NEW k \in Key
      PROVE  GetData(l, k) => UNCHANGED Store!vars
    BY GetRefines
<1>5. ASSUME NEW k \in Key, NEW v \in Data
      PROVE  SetData(k, v) => Store!Put(k, v)
    BY SetRefines
<1>6. ASSUME NEW k \in Key
      PROVE  EraseData(k) => Store!Put(k, Empty)
    BY EraseRefines
<1>7. ASSUME NEW l \in 2..top
      PROVE  FlushToBase(l) => Store!Commit(l)
    BY FlushRefines
<1>8. FlushToDb => Store!Persist
    BY PersistRefines
<1>9. StartOpLog => Store!Save
    BY StartRefines
<1>10. StopOpLog => Store!Release
    BY StopRefines
<1>11. UndoDataList => Store!Rollback
    BY UndoRefines
<1>12. Restart => Store!Crash
    BY RestartRefines
<1>13. QED
    BY <1>1, <1>2, <1>3, <1>4, <1>5, <1>6, <1>7, <1>8, <1>9, <1>10, <1>11, <1>12
        DEF StepsCorrespond

\* The stacked caches implement the store of nested transactions with a savepoint,
\* operation by operation, for every set of keys and values, every depth and every
\* bound of the log.
THEOREM CacheImplementsStore == Spec => ImplementsStore
<1>1. Init => Store!Init
    BY InitRefines
<1>2. IInv /\ [Next]_vars => [Store!Next]_(Store!vars)
    BY NextRefines
<1>3. IInv /\ [Next]_vars => [StepsCorrespond]_vars
    BY StepsRefine
<1>4. Spec => []IInv
    BY Invariance
<1>5. QED
    BY <1>1, <1>2, <1>3, <1>4, PTL DEF Spec, ImplementsStore, Store!Spec

-----------------------------------------------------------------------------
(* Folds over finite sets: what MapThenFoldSet computes, by the elements in the order in  *)
(* which pick takes them.                                                                  *)

Picks(pick, S) == IsFiniteSet(S) /\ \A s \in SUBSET S : s # {} => pick[s] \in s

\* What is left after the element that comes first.
Left(pick, s) == s \ {pick[s]}

\* Of a fold with steps F that stay in A.
Folds(pick, F, base, A, S) == Picks(pick, S) /\ base \in A /\ F \in [S -> [A -> A]]
Commutes(F, A, S) == \A x, y \in S : \A a \in A : F[x][F[y][a]] = F[y][F[x][a]]

\* g is the fold of F over each subset of S.
IsFold(g, pick, F, base, S) ==
    g = [s \in SUBSET S |-> IF s = {} THEN base ELSE F[pick[s]][g[Left(pick, s)]]]

\* It is, and stays in A.
FoldIn(g, pick, F, base, A, S) ==
    IsFold(g, pick, F, base, S) /\ \A s \in SUBSET S : g[s] \in A

AnyFirst(g, F, S) == \A s \in SUBSET S : \A x \in s : g[s] = F[x][g[s \ {x}]]

\* What holds of a set if it holds of all smaller ones, holds of all.
LEMMA SetInduction ==
    ASSUME NEW S, IsFiniteSet(S), NEW P,
           \A s \in SUBSET S : (\A t \in SUBSET s : t # s => t \in P) => s \in P
    PROVE  \A s \in SUBSET S : s \in P
<1> DEFINE Bad == {s \in SUBSET S : s \notin P}
<1> SUFFICES ASSUME Bad # {} PROVE FALSE
    OBVIOUS
<1>1. Bad \subseteq FiniteSubsetsOf(S)
    BY FS_FiniteSubsetsOfFinite
<1>2. PICK s \in Bad : \A t \in Bad : ~ (<<t, s>> \in StrictSubsetOrdering(S))
    <2> HIDE DEF Bad
    <2>1. QED
        BY <1>1, FS_StrictSubsetOrderingWellFounded, WFMin
<1>3. ASSUME NEW t \in SUBSET s, t # s PROVE t \in P
    <2>1. <<t, s>> \in StrictSubsetOrdering(S)
        BY <1>3 DEF StrictSubsetOrdering
    <2>2. t \in SUBSET S /\ t \notin Bad
        BY <1>2, <2>1
    <2>3. QED
        BY <2>2
<1>4. QED
    BY <1>3

\* What holds of the empty set and of a set if it does without the first element, holds of all.
LEMMA FoldInduction ==
    ASSUME NEW pick, NEW S, Picks(pick, S), NEW P, {} \in P,
           \A s \in SUBSET S : s # {} /\ Left(pick, s) \in P => s \in P
    PROVE  \A s \in SUBSET S : s \in P
<1>1. ASSUME NEW s \in SUBSET S, \A t \in SUBSET s : t # s => t \in P
      PROVE  s \in P
    <2>1. s # {} => Left(pick, s) \in SUBSET s /\ Left(pick, s) # s
        BY DEF Picks, Left
    <2>2. QED
        BY <1>1, <2>1
<1>2. IsFiniteSet(S)
    BY DEF Picks
<1>3. QED
    BY <1>1, <1>2, SetInduction

\* The function that a fold chooses exists, and stays in the set that F stays in.
LEMMA FoldExists ==
    ASSUME NEW pick, NEW S, NEW A, NEW base, NEW F, Folds(pick, F, base, A, S)
    PROVE  \E g : FoldIn(g, pick, F, base, A, S)
<1>0. Picks(pick, S) /\ base \in A /\ F \in [S -> [A -> A]]
    BY DEF Folds
<1> USE <1>0
<1> DEFINE Step(h, s) == IF s = {} THEN base ELSE F[pick[s]][h[Left(pick, s)]]
           Closed(D) == \A s \in D : s # {} => Left(pick, s) \in D
           Solves(h, D) == \A s \in D : h[s] = Step(h, s)
           Small(n) == {s \in SUBSET S : Cardinality(s) <= n}
           Bad == {n \in Nat : ~ \E h : Solves(h, Small(n))}
<1>1. \A s \in SUBSET S : IsFiniteSet(s) /\ Cardinality(s) \in Nat /\ Cardinality(s) <= Cardinality(S)
    BY FS_Subset, FS_CardinalityType DEF Picks
<1>2. \A s \in SUBSET S : s # {} => /\ pick[s] \in s /\ Left(pick, s) \in SUBSET S
                                    /\ Cardinality(Left(pick, s)) = Cardinality(s) - 1
                                    /\ Cardinality(s) > 0
    <2>1. SUFFICES ASSUME NEW s \in SUBSET S, s # {}
                   PROVE  /\ pick[s] \in s /\ Left(pick, s) \in SUBSET S
                          /\ Cardinality(Left(pick, s)) = Cardinality(s) - 1
                          /\ Cardinality(s) > 0
        OBVIOUS
    <2>2. pick[s] \in s
        BY <2>1 DEF Picks
    <2>3. Cardinality(Left(pick, s)) = Cardinality(s) - 1 /\ Left(pick, s) \in SUBSET S
        BY <1>1, <2>2, FS_RemoveElement DEF Left
    <2>4. QED
        BY <1>1, <2>2, <2>3
<1>3. Cardinality({}) = 0
    BY FS_EmptySet
<1>4. Bad = {}
    <2> SUFFICES ASSUME Bad # {} PROVE FALSE
        OBVIOUS
    <2>1. PICK n \in Bad : \A m \in Bad : ~ (m < n)
        <3>1. PICK n \in Bad : \A m \in Bad : ~ (<<m, n>> \in OpToRel(<, Nat))
            <4>1. Bad \in SUBSET Nat
                OBVIOUS
            <4> HIDE DEF Bad
            <4>2. QED
                BY <4>1, NatLessThanWellFounded, WFMin
        <3>2. \A m \in Bad : m \in Nat
            OBVIOUS
        <3> HIDE DEF Bad
        <3>3. QED
            BY <3>1, <3>2 DEF OpToRel
    <2>2. CASE n = 0
        <3> DEFINE h == [s \in SUBSET S |-> base]
        <3>1. \A s \in Small(n) : s = {}
            <4> TAKE s \in Small(n)
            <4>1. s \in SUBSET S /\ Cardinality(s) <= 0
                BY <2>2
            <4>2. Cardinality(s) \in Nat /\ (s # {} => Cardinality(s) > 0)
                BY <1>1, <1>2, <4>1
            <4>3. QED
                BY <4>1, <4>2
        <3>2. Solves(h, Small(n))
            BY <3>1
        <3>3. QED
            BY <3>2
    <2>3. CASE n # 0
        <3>1. n \in Nat /\ n - 1 \in Nat /\ n - 1 \notin Bad
            <4>1. n \in Nat
                OBVIOUS
            <4> HIDE DEF Bad
            <4>2. n - 1 \in Bad => ~ (n - 1 < n)
                BY <2>1
            <4>3. QED
                BY <2>3, <4>1, <4>2
        <3>2. PICK h : Solves(h, Small(n - 1))
            BY <3>1
        <3> DEFINE g == [s \in SUBSET S |-> IF s \in Small(n - 1) THEN h[s] ELSE Step(h, s)]
        <3>3. ASSUME NEW s \in Small(n) PROVE g[s] = Step(g, s)
            <4>1. CASE s = {}
                <5>1. s \in Small(n - 1)
                    BY <1>3, <3>1, <4>1
                <5>2. QED
                    BY <3>2, <4>1, <5>1
            <4>2. CASE s # {}
                <5> DEFINE t == Left(pick, s)
                <5>1. t \in Small(n - 1)
                    BY <1>1, <1>2, <3>1, <4>2
                <5>2. g[t] = h[t]
                    BY <5>1
                <5>3. s \in Small(n - 1) => h[s] = Step(h, s)
                    BY <3>2
                <5>4. g[s] = Step(h, s)
                    BY <5>3
                <5>5. QED
                    BY <4>2, <5>2, <5>4
            <4>3. QED
                BY <4>1, <4>2
        <3>4. Solves(g, Small(n))
            BY <3>3
        <3>5. QED
            BY <3>4
    <2>4. QED
        BY <2>2, <2>3
<1>5. PICK h : Solves(h, Small(Cardinality(S)))
    BY <1>1, <1>4
<1> DEFINE g == [s \in SUBSET S |-> h[s]]
<1>6. ASSUME NEW s \in SUBSET S PROVE g[s] = Step(g, s)
    <2>1. h[s] = Step(h, s)
        BY <1>1, <1>5
    <2>2. s # {} => g[Left(pick, s)] = h[Left(pick, s)]
        BY <1>2
    <2>3. QED
        BY <2>1, <2>2
<1>7. IsFold(g, pick, F, base, S)
    BY <1>6 DEF IsFold
<1>8. \A s \in SUBSET S : g[s] \in A
    <2> DEFINE P == {s \in SUBSET S : g[s] \in A}
    <2>1. {} \in P
        BY <1>6
    <2>2. \A s \in SUBSET S : s # {} /\ Left(pick, s) \in P => s \in P
        <3>1. SUFFICES ASSUME NEW s \in SUBSET S, s # {}, g[Left(pick, s)] \in A PROVE g[s] \in A
            OBVIOUS
        <3>2. pick[s] \in S /\ g[s] = F[pick[s]][g[Left(pick, s)]]
            BY <1>2, <1>6, <3>1
        <3> HIDE DEF g
        <3>3. QED
            BY <3>1, <3>2
    <2> HIDE DEF P
    <2>3. \A s \in SUBSET S : s \in P
        BY <2>1, <2>2, FoldInduction
    <2>4. QED
        BY <2>3 DEF P
<1>9. QED
    BY <1>7, <1>8 DEF FoldIn

\* A fold whose steps commute may take any element first.
LEMMA FoldAny ==
    ASSUME NEW pick, NEW S, NEW A, NEW base, NEW F, Folds(pick, F, base, A, S), Commutes(F, A, S),
           NEW g, FoldIn(g, pick, F, base, A, S)
    PROVE  AnyFirst(g, F, S)
<1>0. /\ Picks(pick, S) /\ F \in [S -> [A -> A]]
      /\ \A x, y \in S : \A a \in A : F[x][F[y][a]] = F[y][F[x][a]]
      /\ IsFold(g, pick, F, base, S) /\ \A s \in SUBSET S : g[s] \in A
    BY DEF Folds, Commutes, FoldIn
<1> USE <1>0
<1> DEFINE P == {s \in SUBSET S : \A x \in s : g[s] = F[x][g[s \ {x}]]}
<1>1. ASSUME NEW s \in SUBSET S, \A t \in SUBSET s : t # s => t \in P
      PROVE  s \in P
    <2>1. SUFFICES ASSUME NEW x \in s PROVE g[s] = F[x][g[s \ {x}]]
        OBVIOUS
    <2>2. PICK y \in s : g[s] = F[y][g[s \ {y}]]
        BY <2>1 DEF IsFold, Picks, Left
    <2>3. CASE x = y
        BY <2>2, <2>3
    <2>4. CASE x # y
        <3> DEFINE r == s \ {x, y}
        <3>1. /\ s \ {x} \in SUBSET s /\ s \ {x} # s /\ y \in s \ {x}
              /\ s \ {y} \in SUBSET s /\ s \ {y} # s /\ x \in s \ {y}
              /\ (s \ {x}) \ {y} = r /\ (s \ {y}) \ {x} = r /\ r \in SUBSET S
            BY <2>4
        <3> HIDE DEF r
        <3>2. s \ {x} \in P /\ s \ {y} \in P
            BY <1>1, <3>1
        <3>3. g[s \ {x}] = F[y][g[r]] /\ g[s \ {y}] = F[x][g[r]]
            BY <3>1, <3>2
        <3>4. g[r] \in A /\ x \in S /\ y \in S
            BY <3>1
        <3>5. F[x][F[y][g[r]]] = F[y][F[x][g[r]]]
            BY <3>4
        <3>6. QED
            BY <2>2, <3>3, <3>5
    <2>5. QED
        BY <2>3, <2>4
<1> HIDE DEF P
<1>2. \A s \in SUBSET S : s \in P
    BY <1>1, SetInduction DEF Picks
<1>3. QED
    BY <1>2 DEF P, AnyFirst

-----------------------------------------------------------------------------
(* The size of a map: what it holds, each key once *)

Maps == [Key -> Entry]
Has(m) == {k \in Key : m[k] # Absent}
SizeOf(m) == FoldSet(LAMBDA k, s : s + ItemSize(k, m[k]), 0, Has(m))

Weight(m, k) == IF m[k] = Absent THEN 0 ELSE ItemSize(k, m[k])

\* g[s] is the size of the entries of m for the keys of s.
Sums(g, m, S) ==
    /\ g[{}] = 0
    /\ \A s \in SUBSET S : g[s] \in Nat /\ \A x \in s : g[s] = g[s \ {x}] + Weight(m, x)

\* The element that FoldSet takes first.
Chosen(S) == [s \in SUBSET S |-> CHOOSE x \in s : TRUE]

\* CHOOSE takes an element of the set.
LEMMA ChosenPicks ==
    ASSUME NEW S, IsFiniteSet(S)
    PROVE  Picks(Chosen(S), S)
BY DEF Picks, Chosen

\* Weights are natural numbers.
LEMMA WeightType ==
    ASSUME SizesAreNat, NEW m \in Maps, NEW k \in Key
    PROVE  Weight(m, k) \in Nat
BY DEF SizesAreNat, Maps, Entry, Weight, ItemSize

\* There are such sums.
LEMMA SumsExist ==
    ASSUME SizesAreNat, NEW m \in Maps, NEW S \in SUBSET Key, IsFiniteSet(S)
    PROVE  \E g : Sums(g, m, S)
<1> DEFINE F == [k \in S |-> [a \in Nat |-> a + Weight(m, k)]]
<1>1. \A k \in S : Weight(m, k) \in Nat
    BY WeightType
<1>2. F \in [S -> [Nat -> Nat]] /\ \A k \in S : \A a \in Nat : F[k][a] = a + Weight(m, k)
    BY <1>1
<1> HIDE DEF F
<1>3. Commutes(F, Nat, S)
    <2>1. SUFFICES ASSUME NEW x \in S, NEW y \in S, NEW a \in Nat
                   PROVE  F[x][F[y][a]] = F[y][F[x][a]]
        BY DEF Commutes
    <2>2. F[y][a] = a + Weight(m, y) /\ F[x][a] = a + Weight(m, x)
        BY <1>2
    <2>3. a + Weight(m, y) \in Nat /\ a + Weight(m, x) \in Nat
        BY <1>1
    <2>4. F[x][a + Weight(m, y)] = a + Weight(m, y) + Weight(m, x)
          /\ F[y][a + Weight(m, x)] = a + Weight(m, x) + Weight(m, y)
        BY <1>2, <2>3
    <2>5. QED
        BY <1>1, <2>2, <2>4
<1>4. Folds(Chosen(S), F, 0, Nat, S)
    BY <1>2, ChosenPicks DEF Folds
<1>5. PICK g : FoldIn(g, Chosen(S), F, 0, Nat, S)
    BY <1>4, FoldExists
<1>6. IsFold(g, Chosen(S), F, 0, S) /\ \A s \in SUBSET S : g[s] \in Nat
    BY <1>5 DEF FoldIn
<1>7. AnyFirst(g, F, S)
    BY <1>3, <1>4, <1>5, FoldAny
<1>8. g[{}] = 0
    BY <1>6 DEF IsFold
<1>9. \A s \in SUBSET S : \A x \in s : g[s] = g[s \ {x}] + Weight(m, x)
    BY <1>2, <1>6, <1>7 DEF AnyFirst
<1>10. QED
    BY <1>6, <1>8, <1>9 DEF Sums

\* They are the size, over any keys that include those the map holds.
LEMMA SizeIs ==
    ASSUME SizesAreNat, NEW m \in Maps, NEW S \in SUBSET Key, IsFiniteSet(S), Has(m) \subseteq S,
           NEW g, Sums(g, m, S)
    PROVE  SizeOf(m) = g[S]
<1> DEFINE H == Has(m)
           Eq(h) == h = [s \in SUBSET H |->
                           IF s = {} THEN 0
                           ELSE h[s \ {CHOOSE x \in s : TRUE}]
                                + ItemSize(CHOOSE x \in s : TRUE, m[CHOOSE x \in s : TRUE])]
           it == CHOOSE h : Eq(h)
<1>1. IsFiniteSet(H) /\ H \subseteq Key /\ H \subseteq S
    BY FS_Subset DEF Has
<1>2. Picks(Chosen(H), H)
    BY <1>1, ChosenPicks
<1>3. \A k \in H : Weight(m, k) = ItemSize(k, m[k])
    BY DEF Weight, Has
<1>4. PICK h : h = [s \in SUBSET H |-> g[s]]
    OBVIOUS
<1>5. Eq(it)
    <2>1. ASSUME NEW s \in SUBSET H, NEW x \in s
          PROVE  h[s] = h[s \ {x}] + ItemSize(x, m[x])
        <3>1. s \in SUBSET S /\ s \ {x} \in SUBSET H /\ x \in H
            BY <1>1
        <3>2. g[s] = g[s \ {x}] + Weight(m, x)
            BY <3>1 DEF Sums
        <3>3. QED
            BY <1>3, <1>4, <3>1, <3>2
    <2>2. h[{}] = 0
        BY <1>4 DEF Sums
    <2>3. \A s \in SUBSET H : s # {} => (CHOOSE x \in s : TRUE) \in s
        OBVIOUS
    <2> HIDE DEF H
    <2>4. Eq(h)
        BY <1>4, <2>1, <2>2, <2>3
    <2> HIDE DEF Eq
    <2>5. QED
        BY <2>4
<1>6. SizeOf(m) = it[H]
    BY DEF SizeOf, FoldSet, MapThenFoldSet
<1> HIDE DEF it
<1>7. \A s \in SUBSET H : s \in {t \in SUBSET H : it[t] = g[t]}
    <2> DEFINE P == {t \in SUBSET H : it[t] = g[t]}
    <2>1. {} \in P
        BY <1>5 DEF Sums
    <2>2. ASSUME NEW s \in SUBSET H, s # {}, Left(Chosen(H), s) \in P
          PROVE  s \in P
        <3>1. PICK x \in s : x = Chosen(H)[s] /\ x = (CHOOSE y \in s : TRUE)
            BY <2>2 DEF Chosen
        <3>2. it[s] = it[s \ {x}] + ItemSize(x, m[x])
            BY <1>5, <2>2, <3>1
        <3>3. it[s \ {x}] = g[s \ {x}]
            BY <2>2, <3>1 DEF Left
        <3>4. s \in SUBSET S /\ x \in H
            BY <1>1, <2>2
        <3>5. g[s] = g[s \ {x}] + Weight(m, x)
            BY <3>1, <3>4 DEF Sums
        <3>6. QED
            BY <1>3, <2>2, <3>2, <3>3, <3>4, <3>5
    <2> HIDE DEF P, H
    <2>3. \A s \in SUBSET H : s \in P
        BY <1>2, <2>1, <2>2, FoldInduction
    <2>4. QED
        BY <2>3 DEF P
<1>8. it[H] = g[H]
    BY <1>7
<1>9. g[S] = g[H]
    <2> DEFINE R == S \ H
               P == {t \in SUBSET R : g[H \union t] = g[H]}
    <2>1. {} \in P
        OBVIOUS
    <2>2. IsFiniteSet(R)
        BY FS_Subset
    <2>3. Picks(Chosen(R), R)
        BY <2>2, ChosenPicks
    <2>4. ASSUME NEW s \in SUBSET R, s # {}, Left(Chosen(R), s) \in P
          PROVE  s \in P
        <3>1. PICK x \in s : x = Chosen(R)[s]
            BY <2>4 DEF Chosen
        <3>2. g[H \union (s \ {x})] = g[H]
            BY <2>4, <3>1 DEF Left
        <3>3. /\ H \union s \in SUBSET S /\ x \in H \union s
              /\ (H \union s) \ {x} = H \union (s \ {x})
            BY <1>1, <2>4
        <3>4. Weight(m, x) = 0
            BY <2>4 DEF Has, Weight
        <3>5. g[H \union s] = g[(H \union s) \ {x}] + 0 /\ g[(H \union s) \ {x}] \in Nat
            BY <3>3, <3>4 DEF Sums
        <3>6. g[H \union s] = g[H]
            <4> HIDE DEF H, Eq, P, R
            <4>1. QED
                BY <3>2, <3>3, <3>5
        <3>7. QED
            BY <2>4, <3>6
    <2>5. H \union R = S
        BY <1>1
    <2> HIDE DEF P, R, H
    <2>6. \A s \in SUBSET R : s \in P
        BY <2>1, <2>3, <2>4, FoldInduction
    <2>7. QED
        BY <2>5, <2>6 DEF P
<1>10. QED
    BY <1>6, <1>8, <1>9

\* A map with another entry for one key.
LEMMA SizePut ==
    ASSUME SizesAreNat, NEW m \in Maps, IsFiniteSet(Has(m)), NEW k \in Key, NEW v \in Entry,
           NEW n, n = [m EXCEPT ![k] = v]
    PROVE  /\ n \in Maps /\ IsFiniteSet(Has(n))
           /\ SizeOf(m) \in Nat /\ SizeOf(n) \in Nat /\ SizeOf(m) >= Weight(m, k)
           /\ SizeOf(n) = SizeOf(m) - Weight(m, k) + Weight(n, k)
<1> DEFINE S == Has(m) \union {k}
           T == S \ {k}
<1>1. n \in Maps /\ n[k] = v /\ \A x \in Key \ {k} : n[x] = m[x]
    BY DEF Maps
<1>2. IsFiniteSet(S) /\ S \in SUBSET Key /\ Has(m) \subseteq S /\ Has(n) \subseteq S
    <2>1. IsFiniteSet(S)
        BY FS_AddElement
    <2>2. QED
        BY <1>1, <2>1 DEF Has
<1>3. IsFiniteSet(Has(n)) /\ IsFiniteSet(T) /\ T \in SUBSET S
    BY <1>2, FS_Subset
<1> HIDE DEF S, T
<1>4. PICK g : Sums(g, m, S)
    BY <1>2, SumsExist
<1>5. PICK h : Sums(h, n, S)
    BY <1>1, <1>2, SumsExist
<1>6. SizeOf(m) = g[S] /\ SizeOf(n) = h[S]
    BY <1>1, <1>2, <1>4, <1>5, SizeIs
<1>7. g[T] = h[T]
    <2> DEFINE P == {t \in SUBSET T : g[t] = h[t]}
    <2>1. {} \in P
        BY <1>4, <1>5 DEF Sums
    <2>2. ASSUME NEW s \in SUBSET T, s # {}, Left(Chosen(T), s) \in P
          PROVE  s \in P
        <3>1. PICK x \in s : x = Chosen(T)[s]
            BY <2>2 DEF Chosen
        <3>2. g[s \ {x}] = h[s \ {x}]
            BY <2>2, <3>1 DEF Left
        <3>3. s \in SUBSET S /\ x \in Key \ {k}
            BY <1>2, <1>3, <2>2 DEF T
        <3>4. Weight(m, x) = Weight(n, x)
            BY <1>1, <3>3 DEF Weight
        <3>5. g[s] = g[s \ {x}] + Weight(m, x) /\ h[s] = h[s \ {x}] + Weight(n, x)
            BY <1>4, <1>5, <3>3 DEF Sums
        <3>6. QED
            BY <2>2, <3>2, <3>4, <3>5
    <2>3. Picks(Chosen(T), T)
        BY <1>3, ChosenPicks
    <2> HIDE DEF P
    <2>4. \A s \in SUBSET T : s \in P
        BY <2>1, <2>2, <2>3, FoldInduction
    <2>5. QED
        BY <2>4 DEF P
<1>8. k \in S /\ S \ {k} = T
    BY DEF S, T
<1>9. g[S] = g[T] + Weight(m, k) /\ h[S] = h[T] + Weight(n, k) /\ g[T] \in Nat
    BY <1>3, <1>4, <1>5, <1>8 DEF Sums
<1>10. Weight(m, k) \in Nat /\ Weight(n, k) \in Nat
    BY <1>1, WeightType
<1>11. QED
    BY <1>1, <1>3, <1>6, <1>7, <1>9, <1>10

\* SetDataToSelf counts right.
LEMMA PutIsExact ==
    ASSUME SizesAreNat, NEW m \in Maps, IsFiniteSet(Has(m)), NEW k \in Key, NEW v \in Data
    PROVE  /\ PutToSelf(SizeOf(m), m, k, v) = SizeOf([m EXCEPT ![k] = v])
           /\ [m EXCEPT ![k] = v] \in Maps /\ IsFiniteSet(Has([m EXCEPT ![k] = v]))
           /\ SizeOf([m EXCEPT ![k] = v]) \in Nat
<1>1. PICK n : n = [m EXCEPT ![k] = v]
    OBVIOUS
<1>2. v \in Entry /\ v # Absent
    BY AbsentAssumption DEF Data, Entry
<1>3. PICK a, b : a = SizeOf(m) /\ b = SizeOf(n)
    OBVIOUS
<1>4. /\ n \in Maps /\ IsFiniteSet(Has(n))
      /\ a \in Nat /\ b \in Nat /\ a >= Weight(m, k)
      /\ b = a - Weight(m, k) + Weight(n, k)
    BY <1>1, <1>2, <1>3, SizePut
<1>5. n[k] = v
    BY <1>1 DEF Maps
<1>6. Weight(n, k) = KeySize[k] + ValueSize[v] /\ KeySize[k] \in Nat /\ ValueSize[v] \in Nat
    BY <1>2, <1>5 DEF Weight, ItemSize, SizesAreNat
<1>7. PutToSelf(a, m, k, v) = b
    <2>1. CASE m[k] = Absent
        BY <1>4, <1>6, <2>1 DEF PutToSelf, Weight, AddItem, ItemSize
    <2>2. CASE m[k] # Absent
        <3>1. ValueSize[m[k]] \in Nat
            BY <2>2 DEF SizesAreNat, Maps, Entry
        <3>2. Weight(m, k) = KeySize[k] + ValueSize[m[k]]
            BY <2>2 DEF Weight, ItemSize
        <3>3. PICK old, new, key : old = ValueSize[m[k]] /\ new = ValueSize[v] /\ key = KeySize[k]
            OBVIOUS
        <3>4. b = a - (key + old) + (key + new) /\ a >= key + old
              /\ old \in Nat /\ new \in Nat /\ key \in Nat
            BY <1>4, <1>6, <3>1, <3>2, <3>3
        <3>5. PutToSelf(a, m, k, v) = IF a + new > old THEN a + new - old ELSE 0
            <4>1. PutToSelf(a, m, k, v) = UpdateDataSize(a, m[k], v)
                BY <2>2 DEF PutToSelf
            <4>2. QED
                BY <1>4, <3>3, <3>4, <4>1 DEF UpdateDataSize, DecDataSize
        <3>6. QED
            BY <1>4, <3>4, <3>5
    <2>3. QED
        BY <2>1, <2>2
<1>8. QED
    BY <1>1, <1>3, <1>4, <1>7

\* A cleared map has no size.
LEMMA ClearedSize ==
    ASSUME SizesAreNat
    PROVE  Cleared \in Maps /\ IsFiniteSet(Has(Cleared)) /\ SizeOf(Cleared) = 0
<1>1. Cleared \in Maps /\ Has(Cleared) = {}
    BY DEF Cleared, Maps, Entry, Has
<1>2. IsFiniteSet({}) /\ {} \in SUBSET Key /\ Has(Cleared) \subseteq {}
    BY <1>1, FS_EmptySet
<1>3. PICK g : Sums(g, Cleared, {})
    BY <1>1, <1>2, SumsExist
<1>4. SizeOf(Cleared) = g[{}]
    BY <1>1, <1>2, <1>3, SizeIs
<1>5. QED
    BY <1>1, <1>2, <1>3, <1>4 DEF Sums

\* The entries of d for the keys of s put into m.
Merged(m, d, s) == [k \in Key |-> IF k \in s THEN d[k] ELSE m[k]]

\* One more of them.
LEMMA MergeOne ==
    ASSUME SizesAreNat, NEW m \in Maps, NEW d \in Maps, NEW s \in SUBSET Has(d), NEW x \in s,
           NEW n, n = Merged(m, d, s \ {x}), n \in Maps, IsFiniteSet(Has(n)),
           NEW q, q = Merged(m, d, s)
    PROVE  /\ q \in Maps /\ IsFiniteSet(Has(q))
           /\ SizeOf(q) = PutToSelf(SizeOf(n), m, x, d[x])
<1>1. x \in Key /\ d[x] \in Data
    BY DEF Has, Maps, Entry
<1>2. q = [n EXCEPT ![x] = d[x]] /\ n[x] = m[x]
    BY <1>1 DEF Merged
<1>3. PutToSelf(SizeOf(n), m, x, d[x]) = PutToSelf(SizeOf(n), n, x, d[x])
    BY <1>2 DEF PutToSelf
<1>4. PICK r : r = [n EXCEPT ![x] = d[x]]
    OBVIOUS
<1>5. /\ PutToSelf(SizeOf(n), n, x, d[x]) = SizeOf(r)
      /\ r \in Maps /\ IsFiniteSet(Has(r))
    BY <1>1, <1>4, PutIsExact
<1>6. QED
    BY <1>2, <1>3, <1>4, <1>5

\* The fold of a Flush into its base counts right.
LEMMA FlushIsExact ==
    ASSUME SizesAreNat, NEW m \in Maps, NEW d \in Maps, IsFiniteSet(Has(m)), IsFiniteSet(Has(d))
    PROVE  /\ FoldSet(LAMBDA k, s : PutToSelf(s, m, k, d[k]), SizeOf(m), {k \in Key : d[k] # Absent})
                  = SizeOf(Merged(m, d, Has(d)))
           /\ Merged(m, d, Has(d)) \in Maps /\ IsFiniteSet(Has(Merged(m, d, Has(d))))
<1>1. PICK H, base : H = Has(d) /\ base = SizeOf(m)
    OBVIOUS
<1> DEFINE Eq(h) == h = [s \in SUBSET H |->
                           IF s = {} THEN base
                           ELSE PutToSelf(h[s \ {CHOOSE x \in s : TRUE}], m,
                                          CHOOSE x \in s : TRUE, d[CHOOSE x \in s : TRUE])]
           it == CHOOSE h : Eq(h)
           Fits(s) == Merged(m, d, s) \in Maps /\ IsFiniteSet(Has(Merged(m, d, s)))
           FitP == {s \in SUBSET H : Fits(s)}
<1>2. Picks(Chosen(H), H)
    BY <1>1, ChosenPicks
<1>3. Merged(m, d, {}) = m
    BY DEF Merged, Maps
<1>4. \A s \in SUBSET H : s \in FitP
    <2>1. {} \in FitP
        BY <1>3
    <2>2. ASSUME NEW s \in SUBSET H, s # {}, Left(Chosen(H), s) \in FitP
          PROVE  s \in FitP
        <3>1. PICK x \in s : x = Chosen(H)[s]
            BY <2>2 DEF Chosen
        <3>2. PICK n, q : n = Merged(m, d, s \ {x}) /\ q = Merged(m, d, s)
            OBVIOUS
        <3>3. n \in Maps /\ IsFiniteSet(Has(n))
            BY <2>2, <3>1, <3>2 DEF Left
        <3>4. q \in Maps /\ IsFiniteSet(Has(q))
            BY <1>1, <3>2, <3>3, MergeOne
        <3>5. QED
            BY <2>2, <3>2, <3>4
    <2> HIDE DEF FitP
    <2>3. QED
        BY <1>2, <2>1, <2>2, FoldInduction
<1>5. PICK h : h = [s \in SUBSET H |-> SizeOf(Merged(m, d, s))]
    OBVIOUS
<1>6. Eq(h)
    <2>1. ASSUME NEW s \in SUBSET H, s # {}, NEW x \in s
          PROVE  h[s] = PutToSelf(h[s \ {x}], m, x, d[x])
        <3>1. PICK n, q : n = Merged(m, d, s \ {x}) /\ q = Merged(m, d, s)
            OBVIOUS
        <3>2. n \in Maps /\ IsFiniteSet(Has(n))
            <4>1. s \ {x} \in FitP
                BY <1>4, <2>1
            <4>2. QED
                BY <3>1, <4>1
        <3>3. SizeOf(q) = PutToSelf(SizeOf(n), m, x, d[x])
            BY <1>1, <2>1, <3>1, <3>2, MergeOne
        <3>4. h[s] = SizeOf(q) /\ h[s \ {x}] = SizeOf(n)
            BY <1>5, <2>1, <3>1
        <3>5. QED
            BY <3>3, <3>4
    <2>2. h[{}] = base
        BY <1>1, <1>3, <1>5
    <2>3. \A s \in SUBSET H : s # {} => (CHOOSE x \in s : TRUE) \in s
        OBVIOUS
    <2>4. QED
        BY <1>5, <2>1, <2>2, <2>3
<1>7. Eq(it)
    <2> HIDE DEF Eq
    <2>1. QED
        BY <1>6
<1>8. FoldSet(LAMBDA k, s : PutToSelf(s, m, k, d[k]), SizeOf(m), {k \in Key : d[k] # Absent}) = it[H]
    BY <1>1 DEF FoldSet, MapThenFoldSet, Has
<1> HIDE DEF it
<1>9. it[H] = h[H]
    <2> DEFINE P == {s \in SUBSET H : it[s] = h[s]}
    <2>1. {} \in P
        BY <1>6, <1>7
    <2>2. ASSUME NEW s \in SUBSET H, s # {}, Left(Chosen(H), s) \in P
          PROVE  s \in P
        <3>1. PICK x \in s : x = Chosen(H)[s] /\ x = (CHOOSE y \in s : TRUE)
            BY <2>2 DEF Chosen
        <3>2. it[s \ {x}] = h[s \ {x}]
            BY <2>2, <3>1 DEF Left
        <3>3. /\ it[s] = PutToSelf(it[s \ {x}], m, x, d[x])
              /\ h[s] = PutToSelf(h[s \ {x}], m, x, d[x])
            BY <1>6, <1>7, <2>2, <3>1
        <3>4. QED
            BY <2>2, <3>2, <3>3
    <2> HIDE DEF P, Eq
    <2>3. \A s \in SUBSET H : s \in P
        BY <1>2, <2>1, <2>2, FoldInduction
    <2>4. QED
        BY <2>3 DEF P
<1>10. Fits(H) /\ h[H] = SizeOf(Merged(m, d, H))
    BY <1>4, <1>5
<1>11. QED
    BY <1>1, <1>8, <1>9, <1>10

-----------------------------------------------------------------------------
(* The replay of a log *)

LogIn(log, s, k) == {i \in s : log[i].key = k}

\* What replaying the entries at the positions of s leaves.
UndoneBy(log, s, m) ==
    [k \in Key |-> IF LogIn(log, s, k) = {} THEN m[k] ELSE log[Min(LogIn(log, s, k))].old]

\* The position that FoldRight takes first, and last to be replayed.
Lowest(S) == [s \in SUBSET S |-> Min(s)]

\* Min of positions is one of them, and the only one below the others.
LEMMA MinIs ==
    ASSUME NEW s \in SUBSET Nat, s # {}
    PROVE  /\ Min(s) \in s /\ \A j \in s : Min(s) <= j
           /\ \A i \in s : (\A j \in s : i <= j) => Min(s) = i
<1>1. Min(s) \in s /\ \A j \in s : Min(s) <= j
    BY NatMinimum DEF Min
<1>2. PICK n : n = Min(s)
    OBVIOUS
<1>3. ASSUME NEW i \in s, \A j \in s : i <= j PROVE n = i
    <2>1. n <= i /\ i <= n /\ n \in Nat /\ i \in Nat
        BY <1>1, <1>2, <1>3
    <2>2. QED
        BY <2>1
<1>4. QED
    BY <1>1, <1>2, <1>3

\* The positions of a log have a lowest one.
LEMMA LowestPicks ==
    ASSUME NEW n \in Nat
    PROVE  Picks(Lowest(1..n), 1..n)
<1>1. IsFiniteSet(1..n)
    BY FS_Interval
<1>2. \A s \in SUBSET (1..n) : s # {} => Min(s) \in s
    BY MinIs
<1>3. QED
    BY <1>1, <1>2 DEF Picks, Lowest

\* Replaying one more entry, the lowest, puts back what it replaced.
LEMMA ReplayOne ==
    ASSUME NEW log \in Logs, NEW s \in SUBSET (1..Len(log)), s # {}, NEW m,
           NEW x, x = Min(s), NEW t, t = s \ {x}
    PROVE  /\ x \in 1..Len(log) /\ log[x].key \in Key /\ log[x].old \in Data
           /\ UndoneBy(log, s, m) = [UndoneBy(log, t, m) EXCEPT ![log[x].key] = log[x].old]
<1>1. s \in SUBSET Nat
    BY DEF Logs
<1>2. x \in s /\ \A j \in s : x <= j
    BY <1>1, MinIs
<1>3. log[x].key \in Key /\ log[x].old \in Data
    <2>1. log[x] \in [key : Key, old : Data]
        <3>1. x \in 1..Len(log)
            BY <1>2
        <3>2. PICK R : R = [key : Key, old : Data]
            OBVIOUS
        <3>3. log \in Seq(R)
            BY <3>2 DEF Logs
        <3>4. log[x] \in R
            BY <3>1, <3>3
        <3>5. QED
            BY <3>2, <3>4
    <2>2. QED
        BY <2>1
<1>4. ASSUME NEW k \in Key
      PROVE  UndoneBy(log, s, m)[k]
                 = IF k = log[x].key THEN log[x].old ELSE UndoneBy(log, t, m)[k]
    <2>1. CASE k = log[x].key
        <3>1. PICK I : I = LogIn(log, s, k)
            OBVIOUS
        <3>2. x \in I /\ I \in SUBSET Nat /\ \A j \in I : x <= j
            BY <1>1, <1>2, <2>1, <3>1 DEF LogIn
        <3>3. Min(I) = x
            BY <3>2, MinIs
        <3>4. QED
            BY <2>1, <3>1, <3>2, <3>3 DEF UndoneBy
    <2>2. CASE k # log[x].key
        <3>1. LogIn(log, s, k) = LogIn(log, t, k)
            BY <2>2 DEF LogIn
        <3>2. QED
            BY <2>2, <3>1 DEF UndoneBy
    <2>3. QED
        BY <2>1, <2>2
<1>5. UndoneBy(log, s, m) = [UndoneBy(log, t, m) EXCEPT ![log[x].key] = log[x].old]
    <2>1. UndoneBy(log, s, m) = [k \in Key |-> UndoneBy(log, s, m)[k]]
          /\ UndoneBy(log, t, m) = [k \in Key |-> UndoneBy(log, t, m)[k]]
        BY DEF UndoneBy
    <2>2. PICK p, q : p = UndoneBy(log, s, m) /\ q = UndoneBy(log, t, m)
        OBVIOUS
    <2>3. /\ p = [k \in Key |-> p[k]] /\ q = [k \in Key |-> q[k]]
          /\ \A k \in Key : p[k] = IF k = log[x].key THEN log[x].old ELSE q[k]
        BY <1>4, <2>1, <2>2
    <2>4. p = [q EXCEPT ![log[x].key] = log[x].old]
        BY <2>3
    <2>5. QED
        BY <2>2, <2>4
<1>6. QED
    BY <1>2, <1>3, <1>5

\* All of the log, or nothing of it.
LEMMA UndoneIs ==
    ASSUME NEW log \in Logs, NEW m \in Maps
    PROVE  UndoneBy(log, 1..Len(log), m) = Undone(log, m) /\ UndoneBy(log, {}, m) = m
<1>1. DOMAIN log = 1..Len(log)
    BY DEF Logs
<1>2. \A k \in Key : LogIn(log, 1..Len(log), k) = LogOf(log, k)
    BY <1>1 DEF LogIn, LogOf
<1>3. \A k \in Key : Min(LogOf(log, k)) = First(log, k)
    BY DEF Min, First
<1>4. UndoneBy(log, 1..Len(log), m) = Undone(log, m)
    BY <1>2, <1>3 DEF UndoneBy, Undone
<1>5. UndoneBy(log, {}, m) = m
    BY DEF UndoneBy, LogIn, Maps
<1>6. QED
    BY <1>4, <1>5

\* The loop of UndoDataList leaves what the entry of each key written first says.
LEMMA ReplayIsUndone ==
    ASSUME NEW log \in Logs, NEW m \in Maps
    PROVE  Replay(log, m) = Undone(log, m)
<1> DEFINE Eq(h) == h = [s \in SUBSET (DOMAIN log) |->
                           IF s = {} THEN m
                           ELSE [h[s \ {Min(s)}] EXCEPT ![log[Min(s)].key] = log[Min(s)].old]]
           it == CHOOSE h : Eq(h)
<1>1. PICK n \in Nat : n = Len(log) /\ DOMAIN log = 1..n
    BY DEF Logs
<1>2. PICK h : h = [s \in SUBSET (1..n) |-> UndoneBy(log, s, m)]
    OBVIOUS
<1>3. Eq(h)
    <2>1. ASSUME NEW s \in SUBSET (1..n)
          PROVE  h[s] = IF s = {} THEN m
                        ELSE [h[s \ {Min(s)}] EXCEPT ![log[Min(s)].key] = log[Min(s)].old]
        <3>1. CASE s = {}
            BY <1>2, <3>1, UndoneIs
        <3>2. CASE s # {}
            <4>1. PICK x, t : x = Min(s) /\ t = s \ {x}
                OBVIOUS
            <4>2. UndoneBy(log, s, m) = [UndoneBy(log, t, m) EXCEPT ![log[x].key] = log[x].old]
                BY <1>1, <3>2, <4>1, ReplayOne
            <4>3. h[s] = UndoneBy(log, s, m) /\ h[t] = UndoneBy(log, t, m)
                BY <1>2, <4>1
            <4>4. QED
                BY <3>2, <4>1, <4>2, <4>3
        <3>3. QED
            BY <3>1, <3>2
    <2>2. QED
        BY <1>1, <1>2, <2>1
<1>4. Eq(it)
    <2> HIDE DEF Eq
    <2>1. QED
        BY <1>3
<1>5. Replay(log, m) = it[DOMAIN log]
    BY DEF Replay, FoldRight, MapThenFoldSet
<1> HIDE DEF it
<1>6. PICK D : D = 1..n
    OBVIOUS
<1>7. \A s \in SUBSET D : s \in {t \in SUBSET D : it[t] = h[t]}
    <2> DEFINE P == {t \in SUBSET D : it[t] = h[t]}
    <2>1. {} \in P
        BY <1>1, <1>6, <1>3, <1>4
    <2>2. ASSUME NEW s \in SUBSET D, s # {}, Left(Lowest(D), s) \in P
          PROVE  s \in P
        <3>1. it[s \ {Min(s)}] = h[s \ {Min(s)}]
            BY <2>2 DEF Left, Lowest
        <3>2. PICK r : r = s \ {Min(s)}
            OBVIOUS
        <3>3. it[s] = [it[r] EXCEPT ![log[Min(s)].key] = log[Min(s)].old]
            BY <1>1, <1>6, <1>4, <2>2, <3>2
        <3>4. h[s] = [h[r] EXCEPT ![log[Min(s)].key] = log[Min(s)].old]
            BY <1>1, <1>6, <1>3, <2>2, <3>2
        <3>5. QED
            BY <2>2, <3>1, <3>2, <3>3, <3>4
    <2>3. Picks(Lowest(D), D)
        BY <1>6, LowestPicks
    <2> HIDE DEF P, Eq
    <2>4. \A s \in SUBSET D : s \in P
        BY <2>1, <2>2, <2>3, FoldInduction
    <2>5. QED
        BY <2>4 DEF P
<1>8. it[1..n] = UndoneBy(log, 1..n, m)
    BY <1>2, <1>6, <1>7
<1>9. QED
    BY <1>1, <1>5, <1>8, UndoneIs

\* The loop of UndoDataList counts right.
LEMMA UndoIsExact ==
    ASSUME SizesAreNat, NEW log \in Logs, NEW m \in Maps, IsFiniteSet(Has(m))
    PROVE  /\ FoldRight(LAMBDA e, acc :
                    [map |-> [acc.map EXCEPT ![e.key] = e.old],
                     sum |-> PutToSelf(acc.sum, acc.map, e.key, e.old)],
                    log, [map |-> m, sum |-> SizeOf(m)]).sum = SizeOf(Undone(log, m))
           /\ Undone(log, m) \in Maps /\ IsFiniteSet(Has(Undone(log, m)))
<1> DEFINE Eq(h) == h = [s \in SUBSET (DOMAIN log) |->
                IF s = {} THEN [map |-> m, sum |-> SizeOf(m)]
                ELSE [map |-> [h[s \ {Min(s)}].map EXCEPT ![log[Min(s)].key] = log[Min(s)].old],
                      sum |-> PutToSelf(h[s \ {Min(s)}].sum, h[s \ {Min(s)}].map,
                                        log[Min(s)].key, log[Min(s)].old)]]
           it == CHOOSE h : Eq(h)
           Step(a, x) == [map |-> [a.map EXCEPT ![log[x].key] = log[x].old],
                          sum |-> PutToSelf(a.sum, a.map, log[x].key, log[x].old)]
           Sized(n) == [map |-> n, sum |-> SizeOf(n)]
           Fits(n) == n \in Maps /\ IsFiniteSet(Has(n))
<1>1. PICK n, D : n \in Nat /\ n = Len(log) /\ D = 1..n /\ DOMAIN log = D
    BY DEF Logs
<1>2. Picks(Lowest(D), D)
    BY <1>1, LowestPicks
<1>3. UndoneBy(log, {}, m) = m
    BY UndoneIs
<1>4. ASSUME NEW s \in SUBSET D, s # {}, NEW x, x = Min(s), NEW t, t = s \ {x},
             Fits(UndoneBy(log, t, m))
      PROVE  Fits(UndoneBy(log, s, m))
             /\ Sized(UndoneBy(log, s, m)) = Step(Sized(UndoneBy(log, t, m)), x)
    <2>1. PICK p, q : p = UndoneBy(log, s, m) /\ q = UndoneBy(log, t, m)
        OBVIOUS
    <2>2. /\ log[x].key \in Key /\ log[x].old \in Data
          /\ p = [q EXCEPT ![log[x].key] = log[x].old]
        BY <1>1, <1>4, <2>1, ReplayOne
    <2>3. q \in Maps /\ IsFiniteSet(Has(q))
        BY <1>4, <2>1
    <2>4. PICK k, v, r : k = log[x].key /\ v = log[x].old /\ r = [q EXCEPT ![k] = v]
        OBVIOUS
    <2>5. /\ PutToSelf(SizeOf(q), q, k, v) = SizeOf(r)
          /\ r \in Maps /\ IsFiniteSet(Has(r))
        BY <2>2, <2>3, <2>4, PutIsExact
    <2>6. QED
        BY <2>1, <2>2, <2>4, <2>5
<1>5. \A s \in SUBSET D : s \in {t \in SUBSET D : Fits(UndoneBy(log, t, m))}
    <2> DEFINE P == {t \in SUBSET D : Fits(UndoneBy(log, t, m))}
    <2> HIDE DEF Fits
    <2>1. {} \in P
        BY <1>3 DEF Fits
    <2>2. ASSUME NEW s \in SUBSET D, s # {}, Left(Lowest(D), s) \in P
          PROVE  s \in P
        <3>1. PICK x, t : x = Min(s) /\ t = s \ {x} /\ t = Left(Lowest(D), s)
            BY DEF Left, Lowest
        <3>2. Fits(UndoneBy(log, s, m))
            BY <1>4, <2>2, <3>1
        <3>3. QED
            BY <2>2, <3>2
    <2> HIDE DEF P
    <2>3. \A s \in SUBSET D : s \in P
        BY <1>2, <2>1, <2>2, FoldInduction
    <2>4. QED
        BY <2>3 DEF P
<1>6. PICK h : h = [s \in SUBSET D |-> Sized(UndoneBy(log, s, m))]
    OBVIOUS
<1>7. Eq(h)
    <2> HIDE DEF Fits, Step
    <2>1. ASSUME NEW s \in SUBSET D, s # {}
          PROVE  h[s] = Step(h[s \ {Min(s)}], Min(s))
        <3>1. PICK x, t : x = Min(s) /\ t = s \ {x}
            OBVIOUS
        <3>2. t \in SUBSET D
            BY <2>1, <3>1
        <3>3. Fits(UndoneBy(log, t, m))
            BY <1>5, <3>2
        <3> HIDE DEF Sized
        <3>4. Sized(UndoneBy(log, s, m)) = Step(Sized(UndoneBy(log, t, m)), x)
            BY <1>4, <2>1, <3>1, <3>3
        <3>5. QED
            BY <1>6, <3>1, <3>2, <3>4
    <2>2. h[{}] = [map |-> m, sum |-> SizeOf(m)]
        BY <1>3, <1>6
    <2> HIDE DEF Sized
    <2>3. \A s \in SUBSET D : h[s] = IF s = {} THEN [map |-> m, sum |-> SizeOf(m)]
                                     ELSE Step(h[s \ {Min(s)}], Min(s))
        BY <2>1, <2>2
    <2>4. QED
        BY <1>1, <1>6, <2>3 DEF Step
<1>8. Eq(it)
    <2> HIDE DEF Eq
    <2>1. QED
        BY <1>7
<1>9. FoldRight(LAMBDA e, acc :
                    [map |-> [acc.map EXCEPT ![e.key] = e.old],
                     sum |-> PutToSelf(acc.sum, acc.map, e.key, e.old)],
                    log, [map |-> m, sum |-> SizeOf(m)]) = it[DOMAIN log]
    BY DEF FoldRight, MapThenFoldSet
<1> HIDE DEF it, Fits, Sized
<1>10. \A s \in SUBSET D : s \in {t \in SUBSET D : it[t] = h[t]}
    <2> DEFINE P == {t \in SUBSET D : it[t] = h[t]}
    <2>1. {} \in P
        BY <1>1, <1>7, <1>8
    <2>2. ASSUME NEW s \in SUBSET D, s # {}, Left(Lowest(D), s) \in P
          PROVE  s \in P
        <3>1. it[s \ {Min(s)}] = h[s \ {Min(s)}]
            BY <2>2 DEF Left, Lowest
        <3>2. it[s] = Step(it[s \ {Min(s)}], Min(s))
            BY <1>1, <1>8, <2>2
        <3>3. h[s] = Step(h[s \ {Min(s)}], Min(s))
            BY <1>1, <1>7, <2>2
        <3> HIDE DEF Step
        <3>4. QED
            BY <2>2, <3>1, <3>2, <3>3
    <2> HIDE DEF P, Eq
    <2>3. \A s \in SUBSET D : s \in P
        BY <1>2, <2>1, <2>2, FoldInduction
    <2>4. QED
        BY <2>3 DEF P
<1>11. it[D] = Sized(UndoneBy(log, D, m)) /\ Fits(UndoneBy(log, D, m))
    BY <1>5, <1>6, <1>10
<1>12. UndoneBy(log, D, m) = Undone(log, m)
    BY <1>1, UndoneIs
<1>13. it[DOMAIN log].sum = SizeOf(Undone(log, m))
    BY <1>1, <1>11, <1>12 DEF Sized
<1>14. Undone(log, m) \in Maps /\ IsFiniteSet(Has(Undone(log, m)))
    BY <1>11, <1>12 DEF Fits
<1>15. QED
    BY <1>9, <1>13, <1>14

-----------------------------------------------------------------------------
(* The counter of the database-bound cache *)

FiniteMaps == \A l \in Level : IsFiniteSet(Has(mapData[l]))
SizeInv == IInv /\ FiniteMaps /\ size = SizeOf(mapData[1])

\* The levels there are, and what they keep.
LEMMA SizeTypes ==
    ASSUME SizeInv
    PROVE  /\ MaxLevel \in Nat \ {0} /\ 1 \in Level /\ top \in Level /\ top \in Nat /\ top >= 1
           /\ logged \in 0..top /\ db \in Maps /\ opLog \in Logs
           /\ mapData \in [Level -> Maps] /\ \A l \in Level : l \in Nat /\ mapData[l] \in Maps
           /\ \A l \in 1..top : l \in Level
           /\ TypeOK
BY BoundAssumption DEF SizeInv, IInv, TypeOK, Level, Maps, Logs

\* A map with another entry for one key is finite.
LEMMA PutIsFinite ==
    ASSUME NEW m \in Maps, IsFiniteSet(Has(m)), NEW k \in Key, NEW v
    PROVE  IsFiniteSet(Has([m EXCEPT ![k] = v]))
<1>1. PICK n : n = [m EXCEPT ![k] = v]
    OBVIOUS
<1>2. Has(n) \subseteq Has(m) \union {k}
    BY <1>1 DEF Has, Maps
<1>3. IsFiniteSet(Has(m) \union {k})
    BY FS_AddElement
<1>4. QED
    BY <1>1, <1>2, <1>3, FS_Subset

\* So is one with the entries of another.
LEMMA MergedIsFinite ==
    ASSUME NEW m, NEW d, IsFiniteSet(Has(m)), IsFiniteSet(Has(d))
    PROVE  IsFiniteSet(Has(Merged(m, d, Has(d))))
<1>1. Has(Merged(m, d, Has(d))) \subseteq Has(m) \union Has(d)
    BY DEF Has, Merged
<1>2. IsFiniteSet(Has(m) \union Has(d))
    BY FS_Union
<1>3. QED
    BY <1>1, <1>2, FS_Subset

\* What GetDataIt does at the database-bound level, and that it is counted.
LEMMA ReadIsExact ==
    ASSUME SizesAreNat, SizeInv, NEW l \in 1..top, NEW k \in Key, NEW f, f = GetDataIt(l, k)
    PROVE  /\ f \in [Level -> Maps] /\ \A i \in Level : IsFiniteSet(Has(f[i]))
           /\ ReadSize(l, k) = SizeOf(f[1])
           /\ Holders(mapData, db, l, k) = {} => f[1] = mapData[1] /\ f[1][k] = Absent
           /\ l = 1 /\ Holders(mapData, db, l, k) # {} => f[1][k] = Found(l, k)
           /\ Found(l, k) \in Data
<1>0. /\ 1 \in Level /\ l \in Nat /\ l >= 1 /\ l \in Level /\ db \in Maps /\ TypeOK
      /\ mapData \in [Level -> Maps] /\ \A i \in Level : i \in Nat /\ mapData[i] \in Maps
    BY SizeTypes
<1>1. f \in [Level -> Maps] /\ Found(l, k) \in Data
    BY <1>0, OpenLevelTypes DEF Maps
<1>2. PICK m, n : m = mapData[1] /\ n = f[1]
    OBVIOUS
<1>3. m \in Maps /\ IsFiniteSet(Has(m)) /\ size = SizeOf(m)
    BY <1>0, <1>2 DEF SizeInv, FiniteMaps
<1>4. ASSUME NEW i \in Level PROVE IsFiniteSet(Has(f[i]))
    <2>1. f[i] = mapData[i] \/ f[i] = [mapData[i] EXCEPT ![k] = Found(l, k)]
        BY <1>4 DEF GetDataIt
    <2>2. mapData[i] \in Maps /\ IsFiniteSet(Has(mapData[i]))
        BY <1>0, <1>4 DEF SizeInv, FiniteMaps
    <2>3. QED
        BY <2>1, <2>2, PutIsFinite
<1>5. CASE \A j \in 0..l : At(mapData, db, j, k) = Absent
    <2>1. Holders(mapData, db, l, k) = {}
        BY <1>5 DEF Holders
    <2>2. n = m /\ ReadSize(l, k) = size
        BY <1>0, <1>2, <2>1 DEF GetDataIt, ReadSize
    <2>3. m[k] = Absent
        BY <1>0, <1>2, <1>5 DEF At
    <2>4. QED
        BY <1>1, <1>2, <1>3, <1>4, <2>1, <2>2, <2>3
<1>6. ASSUME NEW i \in 0..l, At(mapData, db, i, k) # Absent,
             \A j \in (i + 1)..l : At(mapData, db, j, k) = Absent,
             Holders(mapData, db, l, k) # {}, Nearest(mapData, db, l, k) = i,
             Found(l, k) = At(mapData, db, i, k)
      PROVE  ReadSize(l, k) = SizeOf(n) /\ (l = 1 => n[k] = Found(l, k))
    <2>1. CASE i = 0
        <3>1. Holders(mapData, db, l, k) = {0} /\ m[k] = Absent
            BY <1>0, <1>2, <1>6, <2>1 DEF Holders, At
        <3>2. n = [m EXCEPT ![k] = db[k]] /\ Found(l, k) = db[k]
            BY <1>0, <1>2, <1>6, <2>1 DEF GetDataIt, At
        <3>3. PICK v, a : v = db[k] /\ v \in Data /\ a = SizeOf(m)
            BY <1>1, <3>2
        <3>4. PutToSelf(a, m, k, v) = SizeOf([m EXCEPT ![k] = v])
            BY <1>3, <3>3, PutIsExact
        <3>5. PutToSelf(a, m, k, v) = AddItem(a, k, v)
            BY <3>1 DEF PutToSelf
        <3>6. ReadSize(l, k) = AddItem(a, k, v)
            BY <1>3, <3>1, <3>3 DEF ReadSize
        <3>7. n[k] = Found(l, k)
            BY <1>3, <3>2 DEF Maps
        <3>8. QED
            BY <3>2, <3>3, <3>4, <3>5, <3>6, <3>7
    <2>2. CASE i # 0
        <3>1. Holders(mapData, db, l, k) # {0}
            BY <1>6, <2>2 DEF Holders
        <3>2. n = m
            BY <1>0, <1>2, <1>6, <2>2 DEF GetDataIt
        <3>3. l = 1 => Found(l, k) = m[k]
            BY <1>0, <1>2, <1>6, <2>2 DEF At
        <3>4. QED
            BY <1>3, <3>1, <3>2, <3>3 DEF ReadSize
    <2>3. QED
        BY <2>1, <2>2
<1>7. CASE \E i \in 0..l : /\ At(mapData, db, i, k) # Absent
                           /\ \A j \in (i + 1)..l : At(mapData, db, j, k) = Absent
                           /\ Holders(mapData, db, l, k) # {}
                           /\ Nearest(mapData, db, l, k) = i
                           /\ Lookup(mapData, db, l, k) = At(mapData, db, i, k)
    <2>1. PICK i \in 0..l : /\ At(mapData, db, i, k) # Absent
                            /\ \A j \in (i + 1)..l : At(mapData, db, j, k) = Absent
                            /\ Holders(mapData, db, l, k) # {}
                            /\ Nearest(mapData, db, l, k) = i
                            /\ Found(l, k) = At(mapData, db, i, k)
        BY <1>7 DEF Found
    <2>2. ReadSize(l, k) = SizeOf(n) /\ (l = 1 => n[k] = Found(l, k))
        BY <1>6, <2>1
    <2>3. QED
        BY <1>1, <1>2, <1>4, <2>1, <2>2
<1>8. QED
    BY <1>0, <1>5, <1>7, LookupCases

\* A step of the caches keeps their invariant; what is left is the maps and the counter.
LEMMA SizeInvGives ==
    ASSUME SizeInv, Next, \A i \in Level : IsFiniteSet(Has(mapData'[i])), size' = SizeOf(mapData'[1])
    PROVE  SizeInv'
BY IInvStep DEF SizeInv, FiniteMaps

\* A level is emptied.
LEMMA ClearedLevel ==
    ASSUME SizesAreNat, SizeInv, NEW l \in Level, mapData' = [mapData EXCEPT ![l] = Cleared]
    PROVE  /\ \A i \in Level : IsFiniteSet(Has(mapData'[i]))
           /\ SizeOf(mapData'[1]) = IF l = 1 THEN 0 ELSE size
<1>1. /\ 1 \in Level /\ mapData \in [Level -> Maps] /\ IsFiniteSet(Has(Cleared)) /\ SizeOf(Cleared) = 0
      /\ \A i \in Level : IsFiniteSet(Has(mapData[i]))
      /\ size = SizeOf(mapData[1])
    BY SizeTypes, ClearedSize DEF SizeInv, FiniteMaps
<1>2. mapData'[1] = IF l = 1 THEN Cleared ELSE mapData[1]
    BY <1>1
<1>3. \A i \in Level : mapData'[i] = Cleared \/ mapData'[i] = mapData[i]
    BY <1>1
<1>4. QED
    BY <1>1, <1>2, <1>3

\* GetData: what is read from the database is counted.
LEMMA GetKeepsSize ==
    ASSUME SizesAreNat, SizeInv, NEW l \in 1..top, NEW k \in Key, GetDataSize(l, k)
    PROVE  SizeInv'
<1>1. PICK f : f = GetDataIt(l, k)
    OBVIOUS
<1>2. (\A i \in Level : IsFiniteSet(Has(f[i]))) /\ ReadSize(l, k) = SizeOf(f[1])
    BY <1>1, ReadIsExact
<1>3. mapData' = f /\ size' = ReadSize(l, k) /\ Next
    BY <1>1 DEF GetDataSize, GetData, Next
<1>4. QED
    BY <1>2, <1>3, SizeInvGives

\* A value put in the innermost cache, whose size changed by what SetDataToSelf counts.
LEMMA WriteKeepsSize ==
    ASSUME SizesAreNat, SizeInv, Next, NEW k \in Key, NEW v \in Data,
           NEW f, f = GetDataIt(top, k), mapData' = [f EXCEPT ![top][k] = v],
           size' = IF top = 1 THEN PutToSelf(SizeOf(f[1]), f[1], k, v) ELSE ReadSize(top, k)
    PROVE  SizeInv'
<1>1. 1 \in Level /\ top \in Level /\ top \in Nat /\ top \in 1..top
    BY SizeTypes
<1>2. /\ f \in [Level -> Maps] /\ \A i \in Level : IsFiniteSet(Has(f[i]))
      /\ ReadSize(top, k) = SizeOf(f[1])
    BY <1>1, ReadIsExact
<1>3. PICK m, n : m = f[top] /\ n = [m EXCEPT ![k] = v]
    OBVIOUS
<1>4. m \in Maps /\ IsFiniteSet(Has(m))
    BY <1>1, <1>2, <1>3
<1>5. IsFiniteSet(Has(n)) /\ PutToSelf(SizeOf(m), m, k, v) = SizeOf(n)
    BY <1>3, <1>4, PutIsExact
<1>6. mapData'[top] = n /\ \A i \in Level \ {top} : mapData'[i] = f[i]
    BY <1>1, <1>2, <1>3
<1>7. \A i \in Level : IsFiniteSet(Has(mapData'[i]))
    BY <1>2, <1>5, <1>6
<1>8. size' = SizeOf(mapData'[1])
    <2>1. CASE top = 1
        BY <1>3, <1>5, <1>6, <2>1
    <2>2. CASE top # 1
        BY <1>1, <1>2, <1>6, <2>2
    <2>3. QED
        BY <2>1, <2>2
<1>9. QED
    BY <1>7, <1>8, SizeInvGives

\* SetData.
LEMMA SetKeepsSize ==
    ASSUME SizesAreNat, SizeInv, NEW k \in Key, NEW v \in Data, SetDataSize(k, v)
    PROVE  SizeInv'
<1>1. PICK f : f = GetDataIt(top, k)
    OBVIOUS
<1>2. top \in Nat /\ top >= 1 /\ top \in 1..top
    BY SizeTypes
<1>3. Next /\ mapData' = [f EXCEPT ![top][k] = v]
    BY <1>1 DEF SetDataSize, SetData, Next
<1>4. /\ ReadSize(top, k) = SizeOf(f[1])
      /\ Holders(mapData, db, top, k) = {} => f[1] = mapData[1] /\ f[1][k] = Absent
      /\ top = 1 /\ Holders(mapData, db, top, k) # {} => f[1][k] = Found(top, k)
      /\ Found(top, k) # Absent
    BY <1>1, <1>2, ReadIsExact, AbsentAssumption DEF Data
<1>5. CASE top # 1
    <2>1. size' = ReadSize(top, k)
        BY <1>2, <1>5 DEF SetDataSize
    <2>2. QED
        BY <1>1, <1>3, <1>5, <2>1, WriteKeepsSize
<1>6. CASE top = 1
    <2>1. CASE Holders(mapData, db, 1, k) = {}
        <3>1. size' = AddItem(size, k, v)
            BY <1>6, <2>1 DEF SetDataSize
        <3>2. size = SizeOf(f[1]) /\ f[1][k] = Absent
            BY <1>4, <1>6, <2>1 DEF SizeInv
        <3>3. size' = PutToSelf(SizeOf(f[1]), f[1], k, v)
            BY <3>1, <3>2 DEF PutToSelf
        <3>4. QED
            BY <1>1, <1>3, <1>6, <3>3, WriteKeepsSize
    <2>2. CASE Holders(mapData, db, 1, k) # {}
        <3>1. size' = UpdateDataSize(ReadSize(1, k), Found(1, k), v)
            BY <1>6, <2>2 DEF SetDataSize
        <3>2. ReadSize(1, k) = SizeOf(f[1]) /\ f[1][k] = Found(1, k) /\ f[1][k] # Absent
            BY <1>4, <1>6, <2>2
        <3>3. size' = PutToSelf(SizeOf(f[1]), f[1], k, v)
            BY <3>1, <3>2 DEF PutToSelf
        <3>4. QED
            BY <1>1, <1>3, <1>6, <3>3, WriteKeepsSize
    <2>3. QED
        BY <2>1, <2>2
<1>7. QED
    BY <1>5, <1>6

\* A value is taken off, and no more than there is.
LEMMA DecIs ==
    ASSUME NEW s, NEW v
    PROVE  DecDataSize(s, v) = IF s > ValueSize[v] THEN s - ValueSize[v] ELSE 0
BY DEF DecDataSize

\* EraseData takes the value off before it counts the empty one.
LEMMA EraseKeepsSize ==
    ASSUME SizesAreNat, SizeInv, NEW k \in Key, EraseDataSize(k)
    PROVE  SizeInv'
<1>1. PICK f : f = GetDataIt(top, k)
    OBVIOUS
<1>2. /\ top \in Nat /\ top >= 1 /\ top \in 1..top /\ 1 \in Level
      /\ Next /\ Empty \in Data
    BY SizeTypes DEF EraseDataSize, Next, Data
<1>3. /\ f \in [Level -> Maps] /\ \A i \in Level : IsFiniteSet(Has(f[i]))
      /\ ReadSize(top, k) = SizeOf(f[1])
      /\ top = 1 /\ Holders(mapData, db, top, k) # {} => f[1][k] = Found(top, k)
      /\ Found(top, k) # Absent /\ Found(top, k) \in Data
    BY <1>1, <1>2, ReadIsExact, AbsentAssumption DEF Data
<1>4. CASE Found(top, k) = Empty
    <2>1. mapData' = f /\ size' = ReadSize(top, k)
        BY <1>1, <1>4 DEF EraseDataSize, EraseData
    <2>2. QED
        BY <1>2, <1>3, <2>1, SizeInvGives
<1>5. CASE Found(top, k) # Empty /\ top # 1
    <2>1. mapData' = [f EXCEPT ![top][k] = Empty] /\ size' = ReadSize(top, k)
        BY <1>1, <1>2, <1>5 DEF EraseDataSize, EraseData
    <2>2. QED
        BY <1>1, <1>2, <1>5, <2>1, WriteKeepsSize
<1>6. CASE Found(top, k) # Empty /\ top = 1
    <2>1. PICK m, a, old, e : /\ m = f[1] /\ a = SizeOf(m)
                              /\ old = ValueSize[Found(1, k)] /\ e = ValueSize[Empty]
        OBVIOUS
    <2>2. mapData' = [f EXCEPT ![top][k] = Empty]
          /\ size' = DecDataSize(a, Found(1, k)) + e
        BY <1>1, <1>3, <1>6, <2>1 DEF EraseDataSize, EraseData
    <2>3. m[k] = Found(1, k) /\ m[k] # Absent
        <3>1. Holders(mapData, db, top, k) # {}
            BY <1>6 DEF Found, Lookup
        <3>2. QED
            BY <1>3, <1>6, <2>1, <3>1
    <2>4. a \in Nat /\ a >= Weight(m, k)
        <3>1. m \in Maps /\ IsFiniteSet(Has(m)) /\ Empty \in Entry
            BY <1>2, <1>3, <2>1 DEF Entry
        <3>2. QED
            BY <2>1, <3>1, SizePut
    <2>5. old \in Nat /\ e \in Nat /\ KeySize[k] \in Nat
        BY <1>2, <1>3, <1>6, <2>1 DEF SizesAreNat
    <2>6. Weight(m, k) = KeySize[k] + old
        BY <2>1, <2>3 DEF Weight, ItemSize
    <2>7. PutToSelf(a, m, k, Empty) = IF a + e > old THEN a + e - old ELSE 0
        <3>1. PICK w, z : w = m[k] /\ z = a + e
            OBVIOUS
        <3>2. PutToSelf(a, m, k, Empty) = UpdateDataSize(a, w, Empty)
            BY <2>3, <3>1 DEF PutToSelf
        <3>3. UpdateDataSize(a, w, Empty) = DecDataSize(z, w)
            BY <2>1, <3>1 DEF UpdateDataSize
        <3>4. DecDataSize(z, w) = IF z > ValueSize[w] THEN z - ValueSize[w] ELSE 0
            BY DecIs
        <3>5. ValueSize[w] = old
            BY <2>1, <2>3, <3>1
        <3>6. PutToSelf(a, m, k, Empty) = IF z > old THEN z - old ELSE 0
            BY <3>2, <3>3, <3>4, <3>5
        <3>7. (IF z > old THEN z - old ELSE 0) = (IF a + e > old THEN a + e - old ELSE 0)
            BY <2>4, <2>5, <3>1
        <3>8. QED
            BY <3>6, <3>7
    <2>8. DecDataSize(a, Found(1, k)) = IF a > old THEN a - old ELSE 0
        BY <2>1 DEF DecDataSize
    <2>9. size' = PutToSelf(a, m, k, Empty)
        <3>1. a >= old
            BY <2>4, <2>5, <2>6
        <3>2. QED
            BY <2>2, <2>4, <2>5, <2>7, <2>8, <3>1
    <2>10. QED
        BY <1>1, <1>2, <1>6, <2>1, <2>2, <2>9, WriteKeepsSize
<1>7. QED
    BY <1>4, <1>5, <1>6

\* The two loops, as the model names them (entries of the cache flushed).
LEMMA FlushedSizeIs ==
    ASSUME SizesAreNat, NEW m \in Maps, NEW d \in Maps, IsFiniteSet(Has(m)), IsFiniteSet(Has(d))
    PROVE  FlushedSize(SizeOf(m), m, d) = SizeOf(Merged(m, d, Has(d)))
BY FlushIsExact DEF FlushedSize

\* (entries of the log from its end)
LEMMA ReplayedSizeIs ==
    ASSUME SizesAreNat, NEW log \in Logs, NEW m \in Maps, IsFiniteSet(Has(m))
    PROVE  ReplayedSize(SizeOf(m), log, m) = SizeOf(Undone(log, m))
BY UndoIsExact DEF ReplayedSize

\* Flush into the base: only into the database-bound cache is it counted.
LEMMA FlushKeepsSize ==
    ASSUME SizesAreNat, SizeInv, NEW l \in 2..top, FlushToBaseSize(l)
    PROVE  SizeInv'
<1>1. /\ 1 \in Level /\ l \in Level /\ l - 1 \in Level /\ l \in Nat /\ l >= 2
      /\ mapData \in [Level -> Maps] /\ \A i \in Level : IsFiniteSet(Has(mapData[i]))
      /\ size = SizeOf(mapData[1])
    <2>1. /\ 1 \in Level /\ top \in Level /\ top \in Nat /\ MaxLevel \in Nat
          /\ mapData \in [Level -> Maps]
        BY SizeTypes
    <2>2. l \in Nat /\ l >= 2 /\ l \in 1..MaxLevel /\ l - 1 \in 1..MaxLevel
        BY <2>1 DEF Level
    <2>3. QED
        BY <2>1, <2>2 DEF Level, SizeInv, FiniteMaps
<1>2. /\ FlushToBase(l)
      /\ size' = IF l > 2 THEN size ELSE FlushedSize(size, mapData[1], mapData[2])
    BY DEF FlushToBaseSize
<1>3. Next
    BY <1>2 DEF Next
<1>4. PICK m, d, n : m = mapData[l - 1] /\ d = mapData[l] /\ n = Merged(m, d, Has(d))
    OBVIOUS
<1>5. m \in Maps /\ d \in Maps /\ IsFiniteSet(Has(m)) /\ IsFiniteSet(Has(d))
    BY <1>1, <1>4
<1>6. n = [k \in Key |-> IF d[k] = Absent THEN m[k] ELSE d[k]]
    BY <1>4 DEF Merged, Has
<1>7. mapData' = [mapData EXCEPT ![l - 1] = n, ![l] = Cleared]
    BY <1>2, <1>4, <1>6 DEF FlushToBase
<1>8. /\ mapData'[l - 1] = n /\ mapData'[l] = Cleared
      /\ \A i \in Level \ {l - 1, l} : mapData'[i] = mapData[i]
    <2>1. l - 1 # l
        BY <1>1
    <2>2. QED
        BY <1>1, <1>7, <2>1
<1>9. IsFiniteSet(Has(n)) /\ IsFiniteSet(Has(Cleared))
    BY <1>4, <1>5, MergedIsFinite, ClearedSize
<1>10. \A i \in Level : IsFiniteSet(Has(mapData'[i]))
    BY <1>1, <1>8, <1>9
<1>11. size' = SizeOf(mapData'[1])
    <2>1. CASE l > 2
        <3>1. size' = size
            BY <1>2, <2>1
        <3>2. mapData'[1] = mapData[1]
            BY <1>1, <1>8, <2>1
        <3>3. QED
            BY <1>1, <3>1, <3>2
    <2>2. CASE l = 2
        <3>1. m = mapData[1] /\ d = mapData[2] /\ mapData'[1] = n
            BY <1>4, <1>8, <2>2
        <3>2. size' = FlushedSize(SizeOf(m), m, d)
            BY <1>1, <1>2, <2>2, <3>1
        <3>3. QED
            BY <1>4, <1>5, <3>1, <3>2, FlushedSizeIs
    <2>3. QED
        BY <1>1, <2>1, <2>2
<1>12. QED
    BY <1>3, <1>10, <1>11, SizeInvGives

\* UndoDataList: each entry of the log is put back and counted.
LEMMA UndoKeepsSize ==
    ASSUME SizesAreNat, SizeInv, UndoDataListSize
    PROVE  SizeInv'
<1>1. /\ 1 \in Level /\ top \in Level /\ top \in Nat /\ top >= 1 /\ opLog \in Logs
      /\ mapData \in [Level -> Maps] /\ \A i \in Level : IsFiniteSet(Has(mapData[i]))
      /\ size = SizeOf(mapData[1])
    BY SizeTypes DEF SizeInv, FiniteMaps
<1>2. /\ UndoDataList
      /\ size' = IF top > 1 THEN size ELSE ReplayedSize(size, opLog, mapData[1])
    BY DEF UndoDataListSize
<1>3. Next
    BY <1>2 DEF Next
<1>4. PICK m, n : m = mapData[top] /\ n = Undone(opLog, m)
    OBVIOUS
<1>5. m \in Maps /\ IsFiniteSet(Has(m))
    BY <1>1, <1>4
<1>6. IsFiniteSet(Has(n))
    BY <1>1, <1>4, <1>5, UndoIsExact
<1>7. mapData'[top] = n /\ \A i \in Level \ {top} : mapData'[i] = mapData[i]
    BY <1>1, <1>2, <1>4 DEF UndoDataList
<1>8. \A i \in Level : IsFiniteSet(Has(mapData'[i]))
    BY <1>1, <1>6, <1>7
<1>9. size' = SizeOf(mapData'[1])
    <2>1. CASE top > 1
        <3>1. size' = size
            BY <1>2, <2>1
        <3>2. mapData'[1] = mapData[1]
            BY <1>1, <1>7, <2>1
        <3>3. QED
            BY <1>1, <3>1, <3>2
    <2>2. CASE top = 1
        <3>1. m = mapData[1] /\ mapData'[1] = n
            BY <1>4, <1>7, <2>2
        <3>2. size' = ReplayedSize(SizeOf(m), opLog, m)
            BY <1>1, <1>2, <2>2, <3>1
        <3>3. QED
            BY <1>1, <1>4, <1>5, <3>1, <3>2, ReplayedSizeIs
    <2>3. QED
        BY <1>1, <2>1, <2>2
<1>10. QED
    BY <1>3, <1>8, <1>9, SizeInvGives

\* The steps that leave the counter alone, or set it to zero.
LEMMA OthersKeepSize ==
    ASSUME SizesAreNat, SizeInv,
           \/ (Open \/ Drop \/ StartOpLog \/ StopOpLog) /\ UNCHANGED size
           \/ ClearSize \/ FlushToDbSize \/ RestartSize
    PROVE  SizeInv'
<1>1. /\ 1 \in Level /\ top \in Level /\ top \in Nat /\ mapData \in [Level -> Maps]
      /\ \A i \in Level : IsFiniteSet(Has(mapData[i]))
      /\ size = SizeOf(mapData[1])
    BY SizeTypes DEF SizeInv, FiniteMaps
<1>2. Next
    BY DEF Next, ClearSize, FlushToDbSize, RestartSize
<1>3. CASE (Open \/ StartOpLog \/ StopOpLog) /\ UNCHANGED size
    <2>1. mapData' = mapData /\ size' = size
        BY <1>3 DEF Open, StartOpLog, StopOpLog
    <2>2. QED
        BY <1>1, <1>2, <2>1, SizeInvGives
<1>4. CASE Drop /\ UNCHANGED size
    <2>1. top # 1 /\ mapData' = [mapData EXCEPT ![top] = Cleared] /\ size' = size
        BY <1>1, <1>4 DEF Drop
    <2>2. QED
        BY <1>1, <1>2, <2>1, ClearedLevel, SizeInvGives
<1>5. CASE ClearSize
    <2>1. /\ mapData' = [mapData EXCEPT ![top] = Cleared]
          /\ size' = IF top = 1 THEN 0 ELSE size
        BY <1>5 DEF ClearSize, Clear
    <2>2. QED
        BY <1>1, <1>2, <2>1, ClearedLevel, SizeInvGives
<1>6. CASE FlushToDbSize
    <2>1. mapData' = [mapData EXCEPT ![1] = Cleared] /\ size' = 0
        BY <1>6 DEF FlushToDbSize, FlushToDb
    <2>2. QED
        BY <1>1, <1>2, <2>1, ClearedLevel, SizeInvGives
<1>7. CASE RestartSize
    <2>1. size' = 0 /\ \A i \in Level : mapData'[i] = Cleared
        BY <1>7 DEF RestartSize, Restart
    <2>2. QED
        BY <1>1, <1>2, <2>1, ClearedSize, SizeInvGives
<1>8. QED
    BY <1>3, <1>4, <1>5, <1>6, <1>7

\* Every step keeps the counter exact.
LEMMA SizeStep ==
    ASSUME SizesAreNat, SizeInv, [SizeNext]_sizeVars
    PROVE  SizeInv'
<1>1. CASE UNCHANGED sizeVars
    <2>1. [Next]_vars /\ mapData' = mapData /\ size' = size
        BY <1>1 DEF sizeVars, vars
    <2>2. QED
        BY <2>1, IInvStep DEF SizeInv, FiniteMaps
<1>2. CASE SizeNext
    BY <1>2, OthersKeepSize, GetKeepsSize, SetKeepsSize, EraseKeepsSize, FlushKeepsSize,
       UndoKeepsSize DEF SizeNext
<1>3. QED
    BY <1>1, <1>2

\* Nothing is cached at the start.
LEMMA SizeStart ==
    ASSUME SizesAreNat, SizeInit
    PROVE  SizeInv
<1>1. IInv /\ 1 \in Level /\ size = 0 /\ \A i \in Level : mapData[i] = Cleared
    BY IInvInit, BoundAssumption DEF SizeInit, Init, Level
<1>2. QED
    BY <1>1, ClearedSize DEF SizeInv, FiniteMaps

\* The counter by which the node decides to flush is the size of what the database-bound
\* cache holds, for any keys and values of any sizes and any caches stacked above it.
THEOREM SizeAlwaysExact ==
    ASSUME SizesAreNat
    PROVE  SizeSpec => []SizeIsExact
<1>1. SizeInit => SizeInv
    BY SizeStart
<1>2. SizeInv /\ [SizeNext]_sizeVars => SizeInv'
    BY SizeStep
<1>3. SizeInv => SizeIsExact
    BY DEF SizeInv, SizeIsExact, SizeOf, Has
<1>4. QED
    BY <1>1, <1>2, <1>3, PTL DEF SizeSpec

\* What UndoDataList leaves is what its loop computes, entry by entry from the end of the log:
\* of each key the value logged first.
THEOREM UndoAlwaysReplays == Spec => []UndoIsReplay
<1>1. IInv => UndoIsReplay
    <2>1. SUFFICES ASSUME IInv, logged # 0 PROVE Undone(opLog, mapData[logged]) = Replay(opLog, mapData[logged])
        BY DEF UndoIsReplay
    <2>2. opLog \in Logs /\ mapData[logged] \in Maps
        BY <2>1, BoundAssumption DEF IInv, TypeOK, Level, Maps, Logs
    <2>3. QED
        BY <2>2, ReplayIsUndone
<1>2. QED
    BY <1>1, Invariance, PTL
=============================================================================
