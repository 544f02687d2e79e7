------------------------ MODULE SimpleKVCacheProofs -------------------------
(***************************************************************************)
(* The single-value caches, for any values, objects and depth: no two      *)
(* levels come to share an object, and because of that the stack is a      *)
(* store with nested transactions and a savepoint.                         *)
(***************************************************************************)
EXTENDS SimpleKVCache, WellFoundedInduction, TLAPS

Pointers == [Level -> Ref \union {Null}]

NoShared(p) == \A i, j \in Level : i # j /\ p[i] # Null => p[i] # p[j]

SimpleTypeOK ==
    /\ top \in Level
    /\ ptrData \in Pointers
    /\ heap \in [Ref -> Data]
    /\ db \in Value \union {NoRecord}
    /\ logged \in 0..top
    /\ opLog \in Seq(Data)

\* Levels that are not open hold nothing, and without a level that logs there is no log.
SimpleInv ==
    /\ SimpleTypeOK
    /\ NoShared(ptrData)
    /\ \A l \in Level : l > top => ptrData[l] = Null
    /\ logged = 0 => opLog = <<>>

-----------------------------------------------------------------------------
(* What a level shows, for any pointers, objects and record. *)

\* A set of levels that is not empty has a highest one.
LEMMA HighestExists ==
    ASSUME NEW b \in Nat, NEW S \in SUBSET (1..b), S # {}
    PROVE  \E x \in S : \A y \in S : y <= x
<1> DEFINE T == {b - x : x \in S}
<1>1. T \in SUBSET Nat /\ T # {}
    <2>1. \A x \in S : x \in Int /\ 0 <= x /\ x <= b
        OBVIOUS
    <2>2. \A x \in S : b - x \in Nat
        BY <2>1
    <2>3. QED
        BY <2>2
<1>2. PICK t \in T : \A u \in T : ~ (<<u, t>> \in OpToRel(<, Nat))
    BY <1>1, NatLessThanWellFounded, WFMin
<1>3. \A u \in T : t <= u
    <2>1. TAKE u \in T
    <2>2. ~ (u < t)
        BY <1>1, <1>2 DEF OpToRel
    <2>3. QED
        BY <1>1, <2>2
<1>4. PICK x \in S : t = b - x
    OBVIOUS
<1>5. \A y \in S : y <= x
    <2>1. TAKE y \in S
    <2>2. b - y \in T
        OBVIOUS
    <2>3. QED
        BY <1>3, <1>4, <2>2
<1>6. QED
    BY <1>5

Nearest(p, l) == CHOOSE i \in Held(p, l) : \A j \in Held(p, l) : j <= i

Recorded(d) == IF d # NoRecord THEN d ELSE Empty

Shown(p, h, d, l) == IF Held(p, l) # {} THEN h[p[Nearest(p, l)]] ELSE Recorded(d)

LEMMA NearestIs ==
    ASSUME NEW p, NEW l \in Nat, Held(p, l) # {}
    PROVE  /\ Nearest(p, l) \in 1..l /\ p[Nearest(p, l)] # Null
           /\ \A j \in 1..l : p[j] # Null => j <= Nearest(p, l)
<1>1. Held(p, l) \in SUBSET (1..l)
    BY DEF Held
<1>2. \E i \in Held(p, l) : \A j \in Held(p, l) : j <= i
    BY <1>1, HighestExists
<1>3. Nearest(p, l) \in Held(p, l) /\ \A j \in Held(p, l) : j <= Nearest(p, l)
    BY <1>2 DEF Nearest
<1>4. QED
    BY <1>3 DEF Held

\* A level shows the object nearest to it.
LEMMA ShownAt ==
    ASSUME NEW p, NEW h, NEW d, NEW l \in Nat, NEW i \in 1..l, p[i] # Null,
           \A j \in (i + 1)..l : p[j] = Null
    PROVE  Shown(p, h, d, l) = h[p[i]]
<1>1. i \in Held(p, l)
    BY DEF Held
<1>2. Nearest(p, l) \in 1..l /\ p[Nearest(p, l)] # Null /\ i <= Nearest(p, l)
    BY <1>1, NearestIs
<1>3. Nearest(p, l) = i
    BY <1>2
<1>4. QED
    BY <1>1, <1>3 DEF Shown

\* A level without objects from m on shows what m shows.
LEMMA ShownBelow ==
    ASSUME NEW p, NEW h, NEW d, NEW l \in Nat, NEW m \in 0..l, \A j \in (m + 1)..l : p[j] = Null
    PROVE  Shown(p, h, d, l) = Shown(p, h, d, m)
<1>1. Held(p, l) = Held(p, m)
    BY DEF Held
<1>2. QED
    BY <1>1 DEF Shown, Nearest

\* Without any there is the record.
LEMMA ShownRoot ==
    ASSUME NEW p, NEW h, NEW d
    PROVE  Shown(p, h, d, 0) = Recorded(d)
BY DEF Shown, Held

\* Two stacks that are alike above m and show the same at m show the same.
LEMMA ShownAlike ==
    ASSUME NEW p, NEW h, NEW d, NEW q, NEW g, NEW e, NEW l \in Nat, NEW m \in 0..l,
           Shown(p, h, d, m) = Shown(q, g, e, m),
           \A i \in (m + 1)..l : /\ p[i] = Null <=> q[i] = Null
                                 /\ p[i] # Null => h[p[i]] = g[q[i]]
    PROVE  Shown(p, h, d, l) = Shown(q, g, e, l)
<1>1. CASE \A i \in (m + 1)..l : p[i] = Null
    <2>1. \A i \in (m + 1)..l : q[i] = Null
        BY <1>1
    <2>2. Shown(p, h, d, l) = Shown(p, h, d, m) /\ Shown(q, g, e, l) = Shown(q, g, e, m)
        BY <1>1, <2>1, ShownBelow
    <2>3. QED
        BY <2>2
<1>2. CASE \E i \in (m + 1)..l : p[i] # Null
    <2>1. Held(p, l) # {}
        BY <1>2 DEF Held
    <2>2. PICK i : i = Nearest(p, l)
        OBVIOUS
    <2>3. i \in (m + 1)..l /\ p[i] # Null /\ \A j \in (i + 1)..l : p[j] = Null
        BY <1>2, <2>1, <2>2, NearestIs
    <2>4. q[i] # Null /\ (\A j \in (i + 1)..l : q[j] = Null) /\ i \in 1..l
        BY <2>3
    <2>5. Shown(p, h, d, l) = h[p[i]] /\ Shown(q, g, e, l) = g[q[i]]
        BY <2>3, <2>4, ShownAt
    <2>6. QED
        BY <2>3, <2>5
<1>3. QED
    BY <1>1, <1>2

\* From the record up.
LEMMA ShownSame ==
    ASSUME NEW p, NEW h, NEW d, NEW q, NEW g, NEW l \in Nat,
           \A i \in 1..l : /\ p[i] = Null <=> q[i] = Null
                           /\ p[i] # Null => h[p[i]] = g[q[i]]
    PROVE  Shown(p, h, d, l) = Shown(q, g, d, l)
<1>1. Shown(p, h, d, 0) = Shown(q, g, d, 0) /\ 0 \in 0..l
    BY ShownRoot
<1>2. QED
    BY <1>1, ShownAlike

\* Found is what is shown.
LEMMA FoundIs ==
    ASSUME NEW l \in Nat
    PROVE  /\ Found(l) = Shown(ptrData, heap, db, l)
           /\ Found(l)' = Shown(ptrData', heap', db', l)
           /\ Held(ptrData, l) # {} => Source(l) = Nearest(ptrData, l)
           /\ Held(ptrData, l) = {} => Source(l) = IF db # NoRecord THEN 0 ELSE l + 1
<1>1. /\ Held(ptrData, l) # {} => Source(l) = Nearest(ptrData, l)
      /\ Held(ptrData, l) = {} => Source(l) = IF db # NoRecord THEN 0 ELSE l + 1
    BY DEF Source, Nearest
<1>2. Found(l) = Shown(ptrData, heap, db, l)
    <2>1. CASE Held(ptrData, l) # {}
        <3>1. Source(l) = Nearest(ptrData, l) /\ Source(l) \in 1..l
            BY <1>1, <2>1, NearestIs
        <3>2. QED
            BY <2>1, <3>1 DEF Found, Shown
    <2>2. CASE Held(ptrData, l) = {}
        BY <1>1, <2>2 DEF Found, Shown, Recorded
    <2>3. QED
        BY <2>1, <2>2
<1>3. Found(l)' = Shown(ptrData', heap', db', l)
    <2>0. /\ Held(ptrData', l) # {} => Source(l)' = Nearest(ptrData', l)
          /\ Held(ptrData', l) = {} => Source(l)' = IF db' # NoRecord THEN 0 ELSE l + 1
        BY DEF Source, Nearest, Held
    <2>1. CASE Held(ptrData', l) # {}
        <3>1. Source(l)' = Nearest(ptrData', l) /\ Source(l)' \in 1..l
            BY <2>0, <2>1, NearestIs
        <3>2. QED
            BY <2>1, <3>1 DEF Found, Shown
    <2>2. CASE Held(ptrData', l) = {}
        BY <2>0, <2>2 DEF Found, Shown, Recorded
    <2>3. QED
        BY <2>1, <2>2
<1>4. QED
    BY <1>1, <1>2, <1>3

\* The level GetDataPtr finds the value at; between it and l there are no objects.
LEMMA SourceIs ==
    ASSUME SimpleInv, NEW l \in Level
    PROVE  /\ l \in Nat /\ Source(l) \in Nat /\ Source(l) <= l + 1
           /\ \A j \in (Source(l) + 1)..l : ptrData[j] = Null
           /\ Found(l) = Shown(ptrData, heap, db, l) /\ Found(l) \in Data
           /\ Found(l) # Empty => Source(l) <= l
           /\ Source(l) = l => ptrData[l] # Null
<1>0. l \in Nat /\ 1 <= l
    BY SimpleConstants DEF Level
<1>1. CASE Held(ptrData, l) # {}
    <2>1. Source(l) = Nearest(ptrData, l) /\ Found(l) = Shown(ptrData, heap, db, l)
        BY <1>0, <1>1, FoundIs
    <2>2. /\ Source(l) \in 1..l /\ ptrData[Source(l)] # Null
          /\ \A j \in 1..l : ptrData[j] # Null => j <= Source(l)
        BY <1>0, <1>1, <2>1, NearestIs
    <2>3. Found(l) = heap[ptrData[Source(l)]]
        BY <1>1, <2>1 DEF Shown
    <2>4. ptrData[Source(l)] \in Ref
        BY <1>0, <2>2, SimpleConstants DEF SimpleInv, SimpleTypeOK, Pointers, Level
    <2>5. Found(l) \in Data
        BY <2>3, <2>4 DEF SimpleInv, SimpleTypeOK
    <2>6. QED
        BY <1>0, <2>1, <2>2, <2>5
<1>2. CASE Held(ptrData, l) = {}
    <2>1. /\ Source(l) = IF db # NoRecord THEN 0 ELSE l + 1
          /\ Found(l) = Shown(ptrData, heap, db, l)
        BY <1>0, <1>2, FoundIs
    <2>2. \A j \in 1..l : ptrData[j] = Null
        BY <1>2 DEF Held
    <2>3. Found(l) = Recorded(db)
        BY <1>2, <2>1 DEF Shown
    <2>4. Found(l) \in Data /\ (db = NoRecord => Found(l) = Empty)
        BY <2>3 DEF Recorded, Data, SimpleInv, SimpleTypeOK
    <2>5. QED
        BY <1>0, <2>1, <2>2, <2>4
<1>3. QED
    BY <1>1, <1>2

\* Reading through copies the value into objects of their own, and shows nothing new.
LEMMA GetDataPtrGives ==
    ASSUME SimpleInv, NEW l \in 1..top, NEW s \in GetDataPtr(l)
    PROVE  /\ s.ptr \in Pointers /\ s.mem \in [Ref -> Data] /\ NoShared(s.ptr)
           /\ \A i \in Level : i > l => s.ptr[i] = ptrData[i]
           /\ \A i \in 0..MaxLevel : Shown(s.ptr, s.mem, db, i) = Shown(ptrData, heap, db, i)
           /\ Found(l) # Empty => s.ptr[l] # Null
<1>0. /\ MaxLevel \in Nat /\ l \in Level /\ l \in Nat /\ 1 <= l
      /\ ptrData \in Pointers /\ heap \in [Ref -> Data] /\ Null \notin Ref /\ NoShared(ptrData)
    BY SimpleConstants DEF SimpleInv, SimpleTypeOK, Level
<1>1. PICK src, v : src = Source(l) /\ v = Found(l)
    OBVIOUS
<1>2. /\ src \in Nat /\ src <= l + 1 /\ \A j \in (src + 1)..l : ptrData[j] = Null
      /\ v = Shown(ptrData, heap, db, l) /\ v \in Data
      /\ v # Empty => src <= l
      /\ src = l => ptrData[l] # Null
    BY <1>0, <1>1, SourceIs
<1>3. PICK f \in [(src + 1)..l -> Ref \ InUse(ptrData)] :
         /\ IsInjective(f)
         /\ s = [ptr |-> [i \in Level |-> IF i \in DOMAIN f THEN f[i] ELSE ptrData[i]],
                 mem |-> [r \in Ref |-> IF r \in Range(f) THEN v ELSE heap[r]]]
    BY <1>1 DEF GetDataPtr
<1>4. PICK D : D = (src + 1)..l /\ D = DOMAIN f /\ D \subseteq Level
    BY <1>0, <1>2, <1>3 DEF Level
<1>5. /\ \A i \in D : s.ptr[i] = f[i] /\ f[i] \in Ref /\ f[i] \notin InUse(ptrData)
      /\ \A i \in Level \ D : s.ptr[i] = ptrData[i]
      /\ \A r \in Ref : s.mem[r] = IF r \in Range(f) THEN v ELSE heap[r]
    BY <1>3, <1>4
<1>6. \A i \in D : f[i] \in Range(f)
    BY <1>4 DEF Range
<1>7. \A i \in Level : ptrData[i] # Null => ptrData[i] \in InUse(ptrData) /\ ptrData[i] \in Ref
    BY <1>0 DEF InUse, Held, Level, Pointers
<1>8. \A r \in Range(f) : r \notin InUse(ptrData)
    BY <1>3, <1>4, <1>5 DEF Range
<1>9. s.ptr \in Pointers /\ s.mem \in [Ref -> Data]
    BY <1>0, <1>2, <1>3, <1>4, <1>5 DEF Pointers
<1>10. NoShared(s.ptr)
    <2>1. ASSUME NEW i \in Level, NEW j \in Level, i # j, s.ptr[i] # Null PROVE s.ptr[i] # s.ptr[j]
        <3>1. CASE i \in D /\ j \in D
            BY <1>3, <1>4, <1>5, <2>1, <3>1 DEF IsInjective
        <3>2. CASE i \in D /\ j \notin D
            <4>1. s.ptr[i] \in Ref /\ s.ptr[i] \notin InUse(ptrData)
                BY <1>5, <3>2
            <4>2. s.ptr[j] = ptrData[j]
                BY <1>5, <3>2
            <4>3. ptrData[j] = Null \/ ptrData[j] \in InUse(ptrData)
                BY <1>7
            <4>4. QED
                BY <1>0, <4>1, <4>2, <4>3
        <3>3. CASE i \notin D /\ j \in D
            BY <1>0, <1>5, <1>7, <2>1, <3>3
        <3>4. CASE i \notin D /\ j \notin D
            BY <1>0, <1>5, <2>1, <3>4 DEF NoShared
        <3>5. QED
            BY <3>1, <3>2, <3>3, <3>4
    <2>2. QED
        BY <2>1 DEF NoShared
<1>11. \A i \in Level \ D : /\ s.ptr[i] = ptrData[i]
                            /\ ptrData[i] # Null => s.mem[s.ptr[i]] = heap[ptrData[i]]
    BY <1>5, <1>7, <1>8
<1>12. ASSUME NEW i \in 0..MaxLevel
       PROVE  Shown(s.ptr, s.mem, db, i) = Shown(ptrData, heap, db, i)
    <2>0. i \in Nat /\ \A j \in 1..i : j \in Level
        BY <1>0 DEF Level
    <2>1. ASSUME NEW k \in Nat, k <= MaxLevel, k <= src
          PROVE  Shown(s.ptr, s.mem, db, k) = Shown(ptrData, heap, db, k)
        <3>1. \A j \in 1..k : j \in Level \ D
            BY <1>0, <1>2, <1>4, <2>1 DEF Level
        <3>2. \A j \in 1..k : /\ s.ptr[j] = Null <=> ptrData[j] = Null
                              /\ s.ptr[j] # Null => s.mem[s.ptr[j]] = heap[ptrData[j]]
            BY <1>11, <3>1
        <3>3. QED
            BY <3>2, ShownSame
    <2>2. ASSUME NEW k \in Nat, src < k, k <= l
          PROVE  Shown(s.ptr, s.mem, db, k) = Shown(ptrData, heap, db, k)
        <3>1. k \in D /\ k \in 1..k /\ k \in Level
            BY <1>2, <1>4, <2>2
        <3>2. s.ptr[k] # Null /\ s.mem[s.ptr[k]] = v
            BY <1>0, <1>5, <1>6, <3>1
        <3>3. \A j \in (k + 1)..k : s.ptr[j] = Null
            OBVIOUS
        <3>4. Shown(s.ptr, s.mem, db, k) = s.mem[s.ptr[k]]
            BY <3>1, <3>2, <3>3, ShownAt
        <3>5. src \in 0..k /\ src \in 0..l /\ \A j \in (src + 1)..k : ptrData[j] = Null
            BY <1>0, <1>2, <2>2
        <3>6. Shown(ptrData, heap, db, k) = Shown(ptrData, heap, db, src)
            BY <3>5, ShownBelow
        <3>7. Shown(ptrData, heap, db, l) = Shown(ptrData, heap, db, src)
            BY <1>0, <1>2, <3>5, ShownBelow
        <3>8. QED
            BY <1>2, <3>2, <3>4, <3>6, <3>7
    <2>3. Shown(s.ptr, s.mem, db, l) = Shown(ptrData, heap, db, l)
        BY <1>0, <1>2, <2>1, <2>2 DEF Level
    <2>4. CASE l < i
        <3>1. l \in 0..i /\ \A j \in (l + 1)..i : j \in Level \ D
            BY <1>0, <1>4, <2>0, <2>4 DEF Level
        <3>2. \A j \in (l + 1)..i : /\ s.ptr[j] = Null <=> ptrData[j] = Null
                                    /\ s.ptr[j] # Null => s.mem[s.ptr[j]] = heap[ptrData[j]]
            BY <1>11, <3>1
        <3>3. QED
            BY <2>0, <2>3, <3>1, <3>2, ShownAlike
    <2>5. CASE i <= l
        BY <1>0, <1>2, <2>0, <2>1, <2>2, <2>5
    <2>6. QED
        BY <1>0, <2>0, <2>4, <2>5
<1>13. v # Empty => s.ptr[l] # Null
    <2>1. CASE l \in D
        BY <1>0, <1>5, <2>1
    <2>2. CASE l \notin D
        BY <1>0, <1>2, <1>4, <1>5, <2>2
    <2>3. QED
        BY <2>1, <2>2
<1>14. \A i \in Level : i > l => s.ptr[i] = ptrData[i]
    BY <1>0, <1>4, <1>5 DEF Level
<1>15. QED
    BY <1>1, <1>9, <1>10, <1>12, <1>13, <1>14

\* The levels outside S hold what they held.
SameOutside(p, q, S) == \A i \in Level : i \notin S => q[i] = p[i]

\* The objects the levels hold have the values they had.
KeepsObjects(q, h, g) == \A i \in Level : q[i] # Null => g[q[i]] = h[q[i]]

\* No object but r is written.
WritesOnly(h, g, r) == \A x \in Ref : x # r => g[x] = h[x]

\* Collection keeps the objects in use.
LEMMA CollectedKeeps ==
    ASSUME NEW p \in Pointers, NEW h \in [Ref -> Data]
    PROVE  /\ Collected(p, h) \in [Ref -> Data]
           /\ \A i \in Level : p[i] # Null => Collected(p, h)[p[i]] = h[p[i]]
<1>1. Empty \in Data
    BY DEF Data
<1>2. \A i \in Level : p[i] # Null => p[i] \in InUse(p) /\ p[i] \in Ref
    BY DEF InUse, Held, Level, Pointers
<1>3. QED
    BY <1>1, <1>2 DEF Collected

\* A level that gives up its object shows what its base shows.
LEMMA LevelReleased ==
    ASSUME NEW p \in Pointers, NEW h, NoShared(p), NEW n \in Level,
           NEW q \in Pointers, q[n] = Null, SameOutside(p, q, {n}),
           NEW g, KeepsObjects(q, h, g), NEW d
    PROVE  /\ NoShared(q)
           /\ \A i \in 0..(n - 1) : Shown(q, g, d, i) = Shown(p, h, d, i)
           /\ Shown(q, g, d, n) = Shown(p, h, d, n - 1)
<1> USE DEF SameOutside, KeepsObjects
<1>0. n \in Nat /\ 1 <= n /\ n <= MaxLevel /\ MaxLevel \in Nat
    BY SimpleConstants DEF Level
<1>2. NoShared(q)
    BY DEF NoShared
<1>4. ASSUME NEW i \in 0..(n - 1) PROVE Shown(q, g, d, i) = Shown(p, h, d, i)
    <2>1. i \in Nat /\ \A j \in 1..i : j \in Level /\ j # n
        BY <1>0 DEF Level
    <2>2. \A j \in 1..i : /\ q[j] = Null <=> p[j] = Null
                          /\ q[j] # Null => g[q[j]] = h[p[j]]
        BY <2>1
    <2>3. QED
        BY <2>1, <2>2, ShownSame
<1>5. Shown(q, g, d, n) = Shown(q, g, d, n - 1)
    <2>1. n - 1 \in 0..n /\ \A j \in (n - 1 + 1)..n : q[j] = Null
        BY <1>0
    <2>2. QED
        BY <1>0, <2>1, ShownBelow
<1>6. n - 1 \in 0..(n - 1)
    BY <1>0
<1>7. QED
    BY <1>2, <1>4, <1>5, <1>6

\* A level that writes an object of its own shows the value written, and no other level
\* sees it.
LEMMA LevelWritten ==
    ASSUME NEW p \in Pointers, NEW h \in [Ref -> Data], NoShared(p), NEW n \in Level,
           NEW q \in Pointers, q[n] \in OwnPtr(p, n), SameOutside(p, q, {n}),
           NEW g, WritesOnly(h, g, q[n]), NEW d
    PROVE  /\ NoShared(q)
           /\ \A i \in 0..(n - 1) : Shown(q, g, d, i) = Shown(p, h, d, i)
           /\ Shown(q, g, d, n) = g[q[n]]
<1> USE DEF SameOutside, WritesOnly
<1>0. n \in Nat /\ 1 <= n /\ n <= MaxLevel /\ MaxLevel \in Nat /\ Null \notin Ref
    BY SimpleConstants DEF Level
<1>9. PICK r : r = q[n]
    OBVIOUS
<1>1. r \in Ref
    BY <1>9 DEF OwnPtr, Pointers
<1>3. \A i \in Level : i # n => p[i] # r
    <2>1. CASE p[n] # Null
        BY <1>9, <2>1 DEF OwnPtr, NoShared
    <2>2. CASE p[n] = Null
        <3>1. r \notin InUse(p)
            BY <1>9, <2>2 DEF OwnPtr
        <3>2. QED
            BY <1>0, <1>1, <3>1 DEF InUse, Held, Level
    <2>3. QED
        BY <2>1, <2>2
<1>4. NoShared(q)
    BY <1>3, <1>9 DEF NoShared
<1>5. ASSUME NEW i \in 0..(n - 1) PROVE Shown(q, g, d, i) = Shown(p, h, d, i)
    <2>1. i \in Nat /\ \A j \in 1..i : j \in Level /\ j # n
        BY <1>0 DEF Level
    <2>2. ASSUME NEW j \in 1..i
          PROVE  /\ q[j] = Null <=> p[j] = Null
                 /\ q[j] # Null => g[q[j]] = h[p[j]]
        <3>1. q[j] = p[j] /\ p[j] # r /\ p[j] \in Ref \union {Null}
            BY <1>3, <2>1 DEF Pointers
        <3>2. QED
            BY <1>9, <3>1
    <2>3. QED
        BY <2>1, <2>2, ShownSame
<1>6. Shown(q, g, d, n) = g[q[n]]
    <2>1. n \in 1..n /\ q[n] # Null /\ \A j \in (n + 1)..n : q[j] = Null
        BY <1>0, <1>1, <1>9
    <2>2. Shown(q, g, d, n) = g[q[n]]
        BY <1>0, <2>1, ShownAt
    <2>3. QED
        BY <2>2
<1>7. QED
    BY <1>4, <1>5, <1>6

\* A level that passes its object to its base: the base shows what the level showed, and
\* so does every level from there on.
LEMMA LevelPassed ==
    ASSUME NEW p \in Pointers, NEW h, NoShared(p), NEW m \in Level, NEW l \in Level,
           l = m + 1, p[l] # Null,
           NEW q \in Pointers, q[m] = p[l], q[l] = Null, SameOutside(p, q, {m, l}),
           NEW g, KeepsObjects(q, h, g), NEW d
    PROVE  /\ NoShared(q)
           /\ \A i \in 0..MaxLevel : i # m => Shown(q, g, d, i) = Shown(p, h, d, i)
           /\ Shown(q, g, d, m) = Shown(p, h, d, l)
<1> USE DEF SameOutside, KeepsObjects
<1>1. /\ l \in Nat /\ m \in Nat /\ 1 <= m /\ l = m + 1 /\ l <= MaxLevel /\ MaxLevel \in Nat
    BY SimpleConstants DEF Level
<1>3. NoShared(q)
    <2>1. ASSUME NEW i \in Level, NEW j \in Level, i # j, q[i] # Null PROVE q[i] # q[j]
        <3>1. i # l
            BY <2>1
        <3>2. CASE i = m
            BY <1>1, <2>1, <3>2 DEF NoShared
        <3>3. CASE i # m
            BY <1>1, <2>1, <3>1, <3>3 DEF NoShared
        <3>4. QED
            BY <3>2, <3>3
    <2>2. QED
        BY <2>1 DEF NoShared
<1>5. ASSUME NEW i \in 0..(m - 1) PROVE Shown(q, g, d, i) = Shown(p, h, d, i)
    <2>1. i \in Nat /\ \A j \in 1..i : j \in Level /\ j # m /\ j # l
        BY <1>1 DEF Level
    <2>2. \A j \in 1..i : /\ q[j] = Null <=> p[j] = Null
                          /\ q[j] # Null => g[q[j]] = h[p[j]]
        BY <2>1
    <2>3. QED
        BY <2>1, <2>2, ShownSame
<1>6. Shown(q, g, d, m) = g[q[m]]
    <2>1. m \in 1..m /\ q[m] # Null /\ \A j \in (m + 1)..m : q[j] = Null
        BY <1>1
    <2>2. QED
        BY <1>1, <2>1, ShownAt
<1>7. Shown(p, h, d, l) = h[p[l]]
    <2>1. l \in 1..l /\ \A j \in (l + 1)..l : p[j] = Null
        BY <1>1
    <2>2. QED
        BY <1>1, <2>1, ShownAt
<1>8. g[q[m]] = h[p[l]]
    BY <1>1
<1>9. Shown(q, g, d, l) = Shown(q, g, d, m)
    <2>1. m \in 0..l /\ \A j \in (m + 1)..l : q[j] = Null
        BY <1>1
    <2>2. QED
        BY <1>1, <2>1, ShownBelow
<1>10. ASSUME NEW i \in l..MaxLevel PROVE Shown(q, g, d, i) = Shown(p, h, d, i)
    <2>1. i \in Nat /\ l \in 0..i /\ \A j \in (l + 1)..i : j \in Level /\ j # m /\ j # l
        BY <1>1 DEF Level
    <2>2. \A j \in (l + 1)..i : /\ q[j] = Null <=> p[j] = Null
                                /\ q[j] # Null => g[q[j]] = h[p[j]]
        BY <2>1
    <2>3. Shown(q, g, d, l) = Shown(p, h, d, l)
        BY <1>6, <1>7, <1>8, <1>9
    <2>4. QED
        BY <2>1, <2>2, <2>3, ShownAlike
<1>11. ASSUME NEW i \in 0..MaxLevel, i # m PROVE Shown(q, g, d, i) = Shown(p, h, d, i)
    <2>1. i \in 0..(m - 1) \/ i \in l..MaxLevel
        BY <1>1, <1>11
    <2>2. QED
        BY <1>5, <1>10, <2>1
<1>12. QED
    BY <1>3, <1>6, <1>7, <1>8, <1>11

-----------------------------------------------------------------------------
(* The operations.  Each lemma gives what the next state is made of: the pointers and
   objects, and what the levels show. *)

NextPointers == ptrData' \in Pointers /\ heap' \in [Ref -> Data] /\ NoShared(ptrData')

ShownNow(l) == Shown(ptrData, heap, db, l)
ShownNext(l) == Shown(ptrData', heap', db', l)

LEMMA SimpleFacts ==
    ASSUME SimpleInv
    PROVE  /\ MaxLevel \in Nat /\ top \in Nat /\ 1 <= top /\ top <= MaxLevel /\ top \in Level
           /\ ptrData \in Pointers /\ heap \in [Ref -> Data] /\ NoShared(ptrData)
           /\ logged \in Nat /\ logged <= top /\ opLog \in Seq(Data)
           /\ db \in Value \union {NoRecord} /\ Null \notin Ref
BY SimpleConstants DEF SimpleInv, SimpleTypeOK, Level

\* Drop and Clear.
LEMMA TopReleased ==
    ASSUME SimpleInv, NEW n, n = top,
           ptrData' = [ptrData EXCEPT ![n] = Null], heap' = Collected(ptrData', heap), db' = db
    PROVE  /\ NextPointers /\ ptrData'[n] = Null /\ \A i \in Level : i # n => ptrData'[i] = ptrData[i]
           /\ \A i \in 0..(n - 1) : ShownNext(i) = ShownNow(i)
           /\ ShownNext(n) = ShownNow(n - 1)
<1>1. n \in Level
    BY SimpleFacts
<1>2. PICK q : q = ptrData'
    OBVIOUS
<1>3. q \in Pointers /\ q[n] = Null /\ \A i \in Level : i # n => q[i] = ptrData[i]
    BY <1>1, <1>2, SimpleFacts DEF Pointers
<1>4. PICK g : g = heap'
    OBVIOUS
<1>5. g \in [Ref -> Data] /\ \A i \in Level : q[i] # Null => g[q[i]] = heap[q[i]]
    <2>1. g = Collected(q, heap)
        BY <1>2, <1>4
    <2>2. QED
        BY <1>3, <2>1, CollectedKeeps, SimpleFacts
<1>6. /\ NoShared(q)
      /\ \A i \in 0..(n - 1) : Shown(q, g, db, i) = Shown(ptrData, heap, db, i)
      /\ Shown(q, g, db, n) = Shown(ptrData, heap, db, n - 1)
    <2> HIDE <1>2, <1>4
    <2>1. ptrData \in Pointers /\ NoShared(ptrData)
        BY SimpleFacts
    <2>2. SameOutside(ptrData, q, {n}) /\ KeepsObjects(q, heap, g)
        BY <1>3, <1>5 DEF SameOutside, KeepsObjects
    <2>3. QED
        BY <1>1, <1>3, <2>1, <2>2, LevelReleased
<1>7. QED
    BY <1>2, <1>3, <1>4, <1>5, <1>6 DEF NextPointers, ShownNext, ShownNow

\* Flush into the base.
LEMMA BaseTakes ==
    ASSUME SimpleInv, NEW l \in 2..top, FlushToBase(l)
    PROVE  /\ NextPointers
           /\ \A i \in Level : i > top => ptrData'[i] = Null
           /\ \A i \in 0..MaxLevel : i # l - 1 => ShownNext(i) = ShownNow(i)
           /\ ShownNext(l - 1) = ShownNow(l)
<1>0. PICK m : m = l - 1
    OBVIOUS
<1>1. /\ m \in Level /\ l \in Level /\ l = m + 1 /\ l <= top
      /\ top \in Nat /\ ptrData \in Pointers /\ NoShared(ptrData) /\ heap \in [Ref -> Data]
    BY <1>0, SimpleFacts DEF Level
<1>2. /\ ptrData[l] # Null /\ db' = db
      /\ ptrData' = [ptrData EXCEPT ![m] = ptrData[l], ![l] = Null]
      /\ heap' = Collected(ptrData', heap)
    BY <1>0 DEF FlushToBase
<1>3. PICK q : q = ptrData'
    OBVIOUS
<1>4. /\ q \in Pointers /\ q[m] = ptrData[l] /\ q[l] = Null
      /\ \A i \in Level : i # m /\ i # l => q[i] = ptrData[i]
    BY <1>1, <1>2, <1>3 DEF Pointers
<1>5. PICK g : g = heap'
    OBVIOUS
<1>6. g \in [Ref -> Data] /\ \A i \in Level : q[i] # Null => g[q[i]] = heap[q[i]]
    <2>1. g = Collected(q, heap)
        BY <1>2, <1>3, <1>5
    <2>2. QED
        BY <1>1, <1>4, <2>1, CollectedKeeps
<1>7. /\ NoShared(q)
      /\ \A i \in 0..MaxLevel : i # m => Shown(q, g, db, i) = Shown(ptrData, heap, db, i)
      /\ Shown(q, g, db, m) = Shown(ptrData, heap, db, l)
    <2> HIDE <1>0, <1>3, <1>5
    <2>1. ptrData[l] # Null
        BY <1>2
    <2>2. SameOutside(ptrData, q, {m, l}) /\ KeepsObjects(q, heap, g)
        BY <1>4, <1>6 DEF SameOutside, KeepsObjects
    <2>3. QED
        BY <1>1, <1>4, <2>1, <2>2, LevelPassed
<1>8. \A i \in Level : i > top => q[i] = Null
    BY <1>1, <1>4 DEF SimpleInv, Level
<1>9. QED
    BY <1>0, <1>2, <1>3, <1>4, <1>5, <1>6, <1>7, <1>8 DEF NextPointers, ShownNext, ShownNow

\* Flush to the database.
LEMMA DbTakes ==
    ASSUME SimpleInv, FlushToDb
    PROVE  /\ NextPointers /\ db' \in Value \union {NoRecord}
           /\ \A i \in Level : i > top => ptrData'[i] = Null
           /\ \A i \in 1..MaxLevel : ShownNext(i) = ShownNow(i)
           /\ ShownNext(0) = ShownNow(1)
<1>0. /\ 1 \in Level /\ top \in Nat /\ 1 <= top /\ Level \subseteq Nat
      /\ ptrData \in Pointers /\ NoShared(ptrData) /\ heap \in [Ref -> Data]
    BY SimpleFacts DEF Level
<1>1. /\ ptrData[1] # Null
      /\ db' = IF heap[ptrData[1]] = Empty THEN NoRecord ELSE heap[ptrData[1]]
      /\ ptrData' = [ptrData EXCEPT ![1] = Null] /\ heap' = Collected(ptrData', heap)
    BY DEF FlushToDb
<1>2. PICK q : q = ptrData'
    OBVIOUS
<1>3. q \in Pointers /\ q[1] = Null /\ \A i \in Level : i # 1 => q[i] = ptrData[i]
    BY <1>0, <1>1, <1>2 DEF Pointers
<1>4. PICK g : g = heap'
    OBVIOUS
<1>5. g \in [Ref -> Data] /\ \A i \in Level : q[i] # Null => g[q[i]] = heap[q[i]]
    <2>1. g = Collected(q, heap)
        BY <1>1, <1>2, <1>4
    <2>2. QED
        BY <1>0, <1>3, <2>1, CollectedKeeps
<1>6. NoShared(q)
    BY <1>0, <1>3 DEF NoShared
<1>7. heap[ptrData[1]] \in Data
    BY <1>0, <1>1 DEF Pointers
<1>8. db' \in Value \union {NoRecord} /\ Recorded(db') = heap[ptrData[1]]
    BY <1>1, <1>7, SimpleConstants DEF Recorded, Data
<1>9. Shown(ptrData, heap, db, 1) = heap[ptrData[1]]
    <2>1. 1 \in 1..1 /\ \A j \in (1 + 1)..1 : ptrData[j] = Null
        OBVIOUS
    <2>2. QED
        BY <1>1, <2>1, ShownAt
<1>10. Shown(q, g, db', 0) = heap[ptrData[1]]
    BY <1>8, ShownRoot
<1>11. Shown(q, g, db', 1) = heap[ptrData[1]]
    <2>1. 0 \in 0..1 /\ \A j \in (0 + 1)..1 : q[j] = Null
        BY <1>3
    <2>2. Shown(q, g, db', 1) = Shown(q, g, db', 0)
        BY <2>1, ShownBelow
    <2>3. QED
        BY <1>10, <2>2
<1>12. ASSUME NEW i \in 1..MaxLevel PROVE Shown(q, g, db', i) = Shown(ptrData, heap, db, i)
    <2>1. i \in Nat /\ 1 \in 0..i /\ \A j \in (1 + 1)..i : j \in Level /\ j # 1
        BY SimpleFacts DEF Level
    <2>2. \A j \in (1 + 1)..i : /\ q[j] = Null <=> ptrData[j] = Null
                                /\ q[j] # Null => g[q[j]] = heap[ptrData[j]]
        BY <1>3, <1>5, <2>1
    <2>3. Shown(q, g, db', 1) = Shown(ptrData, heap, db, 1)
        BY <1>9, <1>11
    <2>4. QED
        BY <2>1, <2>2, <2>3, ShownAlike
<1>13. \A i \in Level : i > top => q[i] = Null
    BY <1>0, <1>3 DEF SimpleInv
<1>14. QED
    BY <1>2, <1>3, <1>4, <1>5, <1>6, <1>8, <1>9, <1>10, <1>12, <1>13 DEF NextPointers, ShownNext, ShownNow

\* A value written at the innermost level, over pointers and objects p and h that show
\* what the levels show now: SetData, EraseData and UndoDataList.
LEMMA TopWrites ==
    ASSUME SimpleInv, NEW n, n = top, NEW p \in Pointers, NEW h \in [Ref -> Data],
           NoShared(p), \A i \in Level : i > n => p[i] = ptrData[i],
           \A i \in 0..MaxLevel : Shown(p, h, db, i) = ShownNow(i), db' = db,
           ptrData' \in Pointers, heap' \in [Ref -> Data], ptrData'[n] \in OwnPtr(p, n),
           \A i \in Level : i # n => ptrData'[i] = p[i],
           \A x \in Ref : x # ptrData'[n] => heap'[x] = h[x]
    PROVE  /\ NextPointers
           /\ \A i \in Level : i > n => ptrData'[i] = Null
           /\ \A i \in 0..(n - 1) : ShownNext(i) = ShownNow(i)
           /\ ShownNext(n) = heap'[ptrData'[n]]
<1>1. n \in Level /\ n \in Nat /\ n <= MaxLevel /\ MaxLevel \in Nat /\ Level \subseteq Nat
    BY SimpleFacts DEF Level
<1>2. /\ NoShared(ptrData')
      /\ \A i \in 0..(n - 1) : Shown(ptrData', heap', db, i) = Shown(p, h, db, i)
      /\ Shown(ptrData', heap', db, n) = heap'[ptrData'[n]]
    <2>1. SameOutside(p, ptrData', {n}) /\ WritesOnly(h, heap', ptrData'[n])
        BY DEF SameOutside, WritesOnly
    <2>2. PICK q, g : q = ptrData' /\ g = heap'
        OBVIOUS
    <2>3. /\ q \in Pointers /\ q[n] \in OwnPtr(p, n)
          /\ SameOutside(p, q, {n}) /\ WritesOnly(h, g, q[n])
        BY <2>1, <2>2
    <2>4. /\ NoShared(q)
          /\ \A i \in 0..(n - 1) : Shown(q, g, db, i) = Shown(p, h, db, i)
          /\ Shown(q, g, db, n) = g[q[n]]
        <3> HIDE <2>2
        <3>1. QED
            BY <1>1, <2>3, LevelWritten
    <2>5. QED
        BY <2>2, <2>4
<1>3. \A i \in 0..(n - 1) : Shown(p, h, db, i) = ShownNow(i)
    BY <1>1
<1>4. \A i \in Level : i > n => ptrData'[i] = Null
    BY <1>1 DEF SimpleInv
<1>5. \A i : ShownNext(i) = Shown(ptrData', heap', db, i)
    BY DEF ShownNext
<1>6. (\A i \in 0..(n - 1) : ShownNext(i) = ShownNow(i)) /\ ShownNext(n) = heap'[ptrData'[n]]
    BY <1>2, <1>3, <1>5
<1>7. QED
    BY <1>2, <1>4, <1>6 DEF NextPointers

\* SetData.
LEMMA SetWrites ==
    ASSUME SimpleInv, NEW n, n = top, NEW v \in Data, SetData(v)
    PROVE  /\ NextPointers
           /\ \A i \in Level : i > n => ptrData'[i] = Null
           /\ \A i \in 0..(n - 1) : ShownNext(i) = ShownNow(i)
           /\ ShownNext(n) = v
<1>1. n \in 1..top /\ n \in Nat /\ n \in Level
    BY SimpleFacts
<1>0. PICK s \in GetDataPtr(n) : \E r \in OwnPtr(s.ptr, n) :
          ptrData' = [s.ptr EXCEPT ![n] = r] /\ heap' = [s.mem EXCEPT ![r] = v]
    BY DEF SetData
<1>2. PICK r \in OwnPtr(s.ptr, n) :
          ptrData' = [s.ptr EXCEPT ![n] = r] /\ heap' = [s.mem EXCEPT ![r] = v]
    BY <1>0
<1>3. db' = db
    BY DEF SetData
<1>4. PICK p, h : p = s.ptr /\ h = s.mem
    OBVIOUS
<1>5. /\ p \in Pointers /\ h \in [Ref -> Data] /\ NoShared(p)
      /\ \A i \in Level : i > n => p[i] = ptrData[i]
      /\ \A i \in 0..MaxLevel : Shown(p, h, db, i) = ShownNow(i)
    BY <1>1, <1>4, GetDataPtrGives DEF ShownNow
<1>6. /\ ptrData' \in Pointers /\ heap' \in [Ref -> Data] /\ ptrData'[n] \in OwnPtr(p, n)
      /\ heap'[ptrData'[n]] = v
      /\ \A i \in Level : i # n => ptrData'[i] = p[i]
      /\ \A x \in Ref : x # ptrData'[n] => heap'[x] = h[x]
    BY <1>1, <1>2, <1>4, <1>5 DEF OwnPtr, Pointers
<1>7. QED
    BY <1>3, <1>5, <1>6, TopWrites

\* EraseData.
LEMMA EraseWrites ==
    ASSUME SimpleInv, NEW n, n = top, EraseData
    PROVE  /\ NextPointers
           /\ \A i \in Level : i > n => ptrData'[i] = Null
           /\ \A i \in 0..(n - 1) : ShownNext(i) = ShownNow(i)
           /\ ShownNext(n) = Empty
<1>1. n \in 1..top /\ n \in Nat /\ n \in Level /\ n <= MaxLevel /\ MaxLevel \in Nat
    BY SimpleFacts
<1>2. PICK s \in GetDataPtr(n) :
          /\ ptrData' = s.ptr
          /\ Found(n) = Empty => heap' = s.mem
          /\ Found(n) # Empty => heap' = [s.mem EXCEPT ![s.ptr[n]] = Empty]
    BY DEF EraseData
<1>3. db' = db
    BY DEF EraseData
<1>4. PICK p, h : p = s.ptr /\ h = s.mem
    OBVIOUS
<1>5. /\ p \in Pointers /\ h \in [Ref -> Data] /\ NoShared(p)
      /\ \A i \in Level : i > n => p[i] = ptrData[i]
      /\ \A i \in 0..MaxLevel : Shown(p, h, db, i) = ShownNow(i)
      /\ Found(n) # Empty => p[n] # Null
    BY <1>1, <1>4, GetDataPtrGives DEF ShownNow
<1>6. CASE Found(n) = Empty
    <2>1. ptrData' = p /\ heap' = h
        BY <1>2, <1>4, <1>6
    <2>2. NextPointers
        BY <1>5, <2>1 DEF NextPointers
    <2>3. \A i \in 0..MaxLevel : ShownNext(i) = ShownNow(i)
        BY <1>3, <1>5, <2>1 DEF ShownNext
    <2>4. ShownNow(n) = Empty
        BY <1>1, <1>6, FoundIs DEF ShownNow
    <2>5. \A i \in Level : i > n => ptrData'[i] = Null
        BY <1>5, <2>1 DEF SimpleInv
    <2>6. QED
        BY <1>1, <2>2, <2>3, <2>4, <2>5
<1>7. CASE Found(n) # Empty
    <2>1. PICK r : r = p[n]
        OBVIOUS
    <2>2. /\ p[n] # Null /\ ptrData' = p
          /\ heap' = [h EXCEPT ![r] = Empty]
        BY <1>2, <1>4, <1>5, <1>7, <2>1
    <2>3. r \in OwnPtr(p, n)
        BY <2>1, <2>2 DEF OwnPtr
    <2>5. Empty \in Data
        BY DEF Data
    <2>6. QED
        <3>1. /\ ptrData' \in Pointers /\ heap' \in [Ref -> Data] /\ ptrData'[n] \in OwnPtr(p, n)
              /\ heap'[ptrData'[n]] = Empty
              /\ \A i \in Level : i # n => ptrData'[i] = p[i]
              /\ \A x \in Ref : x # ptrData'[n] => heap'[x] = h[x]
            BY <1>1, <1>5, <2>1, <2>2, <2>3, <2>5 DEF OwnPtr, Pointers
        <3>2. QED
            BY <1>3, <1>5, <3>1, TopWrites
<1>8. QED
    BY <1>6, <1>7

\* UndoDataList.
LEMMA UndoWrites ==
    ASSUME SimpleInv, NEW n, n = top, UndoDataList
    PROVE  /\ NextPointers
           /\ \A i \in Level : i > n => ptrData'[i] = Null
           /\ \A i \in 0..(n - 1) : ShownNext(i) = ShownNow(i)
           /\ ShownNext(n) = IF opLog = <<>> THEN ShownNow(n) ELSE Head(opLog)
<1>1. n \in Level /\ n \in Nat /\ n <= MaxLevel /\ MaxLevel \in Nat
    BY SimpleFacts
<1>2. CASE opLog = <<>>
    <2>1. ptrData' = ptrData /\ heap' = heap /\ db' = db
        BY <1>2 DEF UndoDataList
    <2>2. NextPointers
        BY <2>1, SimpleFacts DEF NextPointers
    <2>3. \A i : ShownNext(i) = ShownNow(i)
        BY <2>1 DEF ShownNext, ShownNow
    <2>4. \A i \in Level : i > n => ptrData'[i] = Null
        BY <2>1 DEF SimpleInv
    <2>5. QED
        BY <1>2, <2>2, <2>3, <2>4
<1>3. CASE opLog # <<>>
    <2>1. PICK r \in OwnPtr(ptrData, n) :
              ptrData' = [ptrData EXCEPT ![n] = r] /\ heap' = [heap EXCEPT ![r] = Head(opLog)]
        BY <1>3 DEF UndoDataList
    <2>2. PICK v : v = Head(opLog)
        OBVIOUS
    <2>3. v \in Data
        BY <1>3, <2>2, SimpleFacts
    <2>4. /\ ptrData' = [ptrData EXCEPT ![n] = r] /\ heap' = [heap EXCEPT ![r] = v]
          /\ db' = db
        BY <2>1, <2>2 DEF UndoDataList
    <2>5. PICK p, h : p = ptrData /\ h = heap
        OBVIOUS
    <2>6. /\ p \in Pointers /\ h \in [Ref -> Data] /\ NoShared(p) /\ r \in OwnPtr(p, n)
          /\ \A i \in Level : i > n => p[i] = ptrData[i]
          /\ \A i \in 0..MaxLevel : Shown(p, h, db, i) = ShownNow(i)
        BY <2>1, <2>5, SimpleFacts DEF ShownNow
    <2>7. db' = db
        BY <2>4
    <2>8. /\ NextPointers
          /\ \A i \in Level : i > n => ptrData'[i] = Null
          /\ \A i \in 0..(n - 1) : ShownNext(i) = ShownNow(i)
          /\ ShownNext(n) = v
        <3>0. /\ r \in Ref /\ p \in Pointers /\ h \in [Ref -> Data] /\ r \in OwnPtr(p, n)
              /\ ptrData' = [p EXCEPT ![n] = r] /\ heap' = [h EXCEPT ![r] = v]
            BY <1>1, <2>4, <2>5, <2>6 DEF OwnPtr, Pointers
        <3>1. ptrData' \in Pointers /\ ptrData'[n] = r /\ \A i \in Level : i # n => ptrData'[i] = p[i]
            BY <1>1, <3>0 DEF Pointers
        <3>2. heap' \in [Ref -> Data] /\ heap'[r] = v /\ \A x \in Ref : x # r => heap'[x] = h[x]
            BY <2>3, <3>0
        <3>3. /\ ptrData'[n] \in OwnPtr(p, n) /\ heap'[ptrData'[n]] = v
              /\ \A x \in Ref : x # ptrData'[n] => heap'[x] = h[x]
            BY <3>0, <3>1, <3>2
        <3>4. QED
            BY <2>6, <2>7, <3>1, <3>2, <3>3, TopWrites, SMTT(60)
    <2>9. QED
        BY <1>3, <2>2, <2>8
<1>4. QED
    BY <1>2, <1>3

\* GetData and HasData.
LEMMA ReadsShow ==
    ASSUME SimpleInv, NEW l \in 1..top, GetData(l)
    PROVE  /\ NextPointers
           /\ \A i \in Level : i > top => ptrData'[i] = Null
           /\ \A i \in 0..MaxLevel : ShownNext(i) = ShownNow(i)
<1>1. l \in Nat /\ l <= top /\ top \in Nat /\ MaxLevel \in Nat /\ Level \subseteq Nat
    BY SimpleFacts DEF Level
<1>2. PICK s \in GetDataPtr(l) : ptrData' = s.ptr /\ heap' = s.mem
    BY DEF GetData
<1>3. db' = db
    BY DEF GetData
<1>4. /\ s.ptr \in Pointers /\ s.mem \in [Ref -> Data] /\ NoShared(s.ptr)
      /\ \A i \in Level : i > l => s.ptr[i] = ptrData[i]
      /\ \A i \in 0..MaxLevel : Shown(s.ptr, s.mem, db, i) = ShownNow(i)
    BY GetDataPtrGives DEF ShownNow
<1>5. NextPointers
    BY <1>2, <1>4 DEF NextPointers
<1>6. \A i \in 0..MaxLevel : ShownNext(i) = ShownNow(i)
    BY <1>2, <1>3, <1>4 DEF ShownNext
<1>7. ASSUME NEW i \in Level, i > top PROVE ptrData'[i] = Null
    <2>1. i > l
        BY <1>1, <1>7
    <2>2. QED
        BY <1>2, <1>4, <1>7, <2>1 DEF SimpleInv
<1>8. QED
    BY <1>5, <1>6, <1>7

-----------------------------------------------------------------------------
(* The invariant. *)

LEMMA SimpleInvInit == ASSUME Init PROVE SimpleInv
<1>1. 1 \in Level /\ Empty \in Data
    BY SimpleConstants DEF Level, Data
<1>2. SimpleTypeOK
    BY <1>1 DEF Init, SimpleTypeOK, Pointers
<1>3. NoShared(ptrData)
    BY DEF Init, NoShared
<1>4. QED
    BY <1>2, <1>3 DEF Init, SimpleInv

\* What is logged when a value is replaced.
LEMMA LogGrows ==
    ASSUME SimpleInv, NEW n, n = top, AddOpLog(Found(n)) \/ opLog' = opLog
    PROVE  opLog' \in Seq(Data) /\ (logged = 0 => opLog' = <<>>)
<1>1. n \in Level /\ Found(n) \in Data /\ 1 <= top /\ top \in Nat /\ opLog \in Seq(Data)
    BY SimpleFacts, SourceIs
<1>2. opLog' = opLog \/ (logged = top /\ opLog' = Append(opLog, Found(n)))
    BY DEF AddOpLog
<1>3. QED
    BY <1>1, <1>2 DEF SimpleInv

LEMMA SimpleInvStep == ASSUME SimpleInv, [Next]_vars PROVE SimpleInv'
<1>0. /\ MaxLevel \in Nat /\ top \in Nat /\ 1 <= top /\ top <= MaxLevel
      /\ logged \in Nat /\ logged <= top /\ opLog \in Seq(Data) /\ db \in Value \union {NoRecord}
      /\ ptrData \in Pointers /\ heap \in [Ref -> Data] /\ NoShared(ptrData)
      /\ Level = 1..MaxLevel
    BY SimpleFacts DEF Level
<1>1. \A i \in Level : i > top => ptrData[i] = Null
    BY DEF SimpleInv
<1>2. logged = 0 => opLog = <<>>
    BY DEF SimpleInv
\* It is enough to know these of the next state.
<1>3. ASSUME NextPointers, top' \in Level, logged' \in 0..top', db' \in Value \union {NoRecord},
             opLog' \in Seq(Data), logged' = 0 => opLog' = <<>>,
             \A i \in Level : i > top' => ptrData'[i] = Null
      PROVE  SimpleInv'
    <2>1. SimpleTypeOK'
        BY <1>3 DEF SimpleTypeOK, NextPointers, Level, Pointers, Data
    <2>2. NoShared(ptrData)'
        BY <1>3 DEF NextPointers, NoShared, Level
    <2>3. (\A l \in Level : l > top => ptrData[l] = Null)'
        BY <1>3 DEF Level
    <2>4. (logged = 0 => opLog = <<>>)'
        BY <1>3
    <2>5. QED
        BY <2>1, <2>2, <2>3, <2>4 DEF SimpleInv
<1>4. CASE Open
    <2>1. NextPointers
        BY <1>0, <1>4 DEF Open, NextPointers
    <2>2. QED
        BY <1>0, <1>1, <1>2, <1>3, <1>4, <2>1 DEF Open
<1>5. CASE Drop
    <2>1. NextPointers /\ ptrData'[top] = Null /\ \A i \in Level : i # top => ptrData'[i] = ptrData[i]
        BY <1>5, TopReleased DEF Drop
    <2>2. \A i \in Level : i > top' => ptrData'[i] = Null
        <3>1. TAKE i \in Level
        <3>2. i > top' => i = top \/ i > top
            BY <1>0, <1>5 DEF Drop
        <3>3. QED
            BY <1>0, <1>1, <2>1, <3>2
    <2>3. QED
        BY <1>0, <1>2, <1>3, <1>5, <2>1, <2>2 DEF Drop
<1>6. CASE Clear
    <2>1. NextPointers /\ ptrData'[top] = Null /\ \A i \in Level : i # top => ptrData'[i] = ptrData[i]
        BY <1>6, TopReleased DEF Clear
    <2>2. \A i \in Level : i > top => ptrData'[i] = Null
        BY <1>0, <1>1, <2>1
    <2>3. QED
        BY <1>0, <1>2, <1>3, <1>6, <2>1, <2>2 DEF Clear
<1>7. CASE FlushToDb
    <2>1. /\ NextPointers /\ db' \in Value \union {NoRecord}
          /\ \A i \in Level : i > top => ptrData'[i] = Null
        BY <1>7, DbTakes
    <2>2. QED
        BY <1>0, <1>2, <1>3, <1>7, <2>1 DEF FlushToDb
<1>8. CASE StartOpLog
    <2>1. NextPointers
        BY <1>0, <1>8 DEF StartOpLog, NextPointers
    <2>2. QED
        BY <1>0, <1>1, <1>2, <1>3, <1>8, <2>1 DEF StartOpLog
<1>9. CASE StopOpLog
    <2>1. NextPointers
        BY <1>0, <1>9 DEF StopOpLog, NextPointers
    <2>2. QED
        BY <1>0, <1>1, <1>3, <1>9, <2>1 DEF StopOpLog
<1>10. CASE UndoDataList
    <2>1. NextPointers /\ \A i \in Level : i > top => ptrData'[i] = Null
        BY <1>10, UndoWrites
    <2>2. QED
        BY <1>0, <1>3, <1>10, <2>1 DEF UndoDataList
<1>11. CASE Restart
    <2>1. \A i \in Level : ptrData'[i] = Null
        BY <1>11 DEF Restart
    <2>2. NextPointers
        <3>1. Empty \in Data
            BY DEF Data
        <3>2. ptrData' \in Pointers /\ heap' \in [Ref -> Data]
            BY <1>11, <3>1 DEF Restart, Pointers
        <3>3. QED
            BY <2>1, <3>2 DEF NextPointers, NoShared
    <2>3. QED
        BY <1>0, <1>3, <1>11, <2>1, <2>2 DEF Restart
<1>12. ASSUME NEW l \in 1..top, GetData(l) PROVE SimpleInv'
    <2>1. NextPointers /\ \A i \in Level : i > top => ptrData'[i] = Null
        BY <1>12, ReadsShow
    <2>2. QED
        BY <1>0, <1>2, <1>3, <1>12, <2>1 DEF GetData
<1>13. CASE EraseData
    <2>1. NextPointers /\ \A i \in Level : i > top => ptrData'[i] = Null
        BY <1>13, EraseWrites
    <2>2. AddOpLog(Found(top)) \/ opLog' = opLog
        BY <1>13 DEF EraseData
    <2>3. opLog' \in Seq(Data) /\ (logged = 0 => opLog' = <<>>)
        BY <2>2, LogGrows
    <2>4. QED
        BY <1>0, <1>3, <1>13, <2>1, <2>3 DEF EraseData
<1>14. ASSUME NEW v \in Data, SetData(v) PROVE SimpleInv'
    <2>1. NextPointers /\ \A i \in Level : i > top => ptrData'[i] = Null
        BY <1>14, SetWrites
    <2>2. AddOpLog(Found(top))
        BY <1>14 DEF SetData
    <2>3. opLog' \in Seq(Data) /\ (logged = 0 => opLog' = <<>>)
        BY <2>2, LogGrows
    <2>4. QED
        BY <1>0, <1>3, <1>14, <2>1, <2>3 DEF SetData
<1>15. ASSUME NEW l \in 2..top, FlushToBase(l) PROVE SimpleInv'
    <2>1. NextPointers /\ \A i \in Level : i > top => ptrData'[i] = Null
        BY <1>15, BaseTakes
    <2>2. top' = top /\ db' = db /\ logged' = logged /\ opLog' = opLog
        BY <1>15 DEF FlushToBase
    <2>3. QED
        BY <1>0, <1>2, <1>3, <2>1, <2>2
<1>16. CASE UNCHANGED vars
    <2>1. NextPointers
        BY <1>0, <1>16 DEF vars, NextPointers
    <2>2. QED
        BY <1>0, <1>1, <1>2, <1>3, <1>16, <2>1 DEF vars
<1>17. QED
    BY <1>4, <1>5, <1>6, <1>7, <1>8, <1>9, <1>10, <1>11, <1>12, <1>13, <1>14, <1>15, <1>16 DEF Next

\* No two levels come to hold the same object, whatever the operations and however deep
\* the stack.
THEOREM NoDataIsShared == Spec => []NoSharedData
<1>1. Init => SimpleInv
    BY SimpleInvInit
<1>2. SimpleInv /\ [Next]_vars => SimpleInv'
    BY SimpleInvStep
<1>3. SimpleInv => NoSharedData
    BY DEF SimpleInv, NoShared, NoSharedData
<1>4. QED
    BY <1>1, <1>2, <1>3, PTL DEF Spec

-----------------------------------------------------------------------------
(* The operations, as the store sees them.  Its one key has one value. *)

One(v) == [k \in TheKey |-> v]

LEMMA OneIs == \A v, w : (One(v) = One(w) => v = w) /\ One(v)["value"] = v
BY DEF One, TheKey

LEMMA ViewNow ==
    ASSUME SimpleInv
    PROVE  /\ View = [l \in 1..top |-> One(ShownNow(l))]
           /\ DbView = One(ShownNow(0)) /\ DbView' = One(ShownNext(0))
<1>1. \A l \in 1..top : l \in Nat
    BY SimpleFacts
<1>2. \A l \in 1..top : Found(l) = ShownNow(l)
    BY <1>1, FoundIs DEF ShownNow
<1>3. View = [l \in 1..top |-> One(ShownNow(l))]
    BY <1>2 DEF View, One
<1>4. Found(0) = ShownNow(0) /\ Found(0)' = ShownNext(0)
    BY FoundIs DEF ShownNow, ShownNext
<1>5. QED
    BY <1>3, <1>4 DEF DbView, One

LEMMA ViewNext ==
    ASSUME NEW n, n \in Nat, top' = n
    PROVE  View' = [l \in 1..n |-> One(ShownNext(l))]
<1>1. \A l \in 1..n : l \in Nat
    OBVIOUS
<1>2. ASSUME NEW l \in 1..n PROVE Found(l)' = ShownNext(l)
    BY <1>1, FoundIs DEF ShownNext
<1>3. QED
    BY <1>2 DEF View, One

\* Where the log, the level that logs and what that level shows stay, so does the savepoint.
LEMMA SavepointStays ==
    ASSUME SimpleInv, logged' = logged, opLog' = opLog,
           logged # 0 => ShownNext(logged) = ShownNow(logged)
    PROVE  Savepoint' = Savepoint
<1>1. PICK n : n = logged
    OBVIOUS
<1>2. n \in Nat /\ logged' = n
    BY <1>1, SimpleFacts
<1>3. Found(n) = ShownNow(n) /\ Found(n)' = ShownNext(n)
    BY <1>2, FoundIs DEF ShownNow, ShownNext
<1>4. Savepoint = One(IF n = 0 THEN Empty ELSE IF opLog = <<>> THEN Found(n) ELSE Head(opLog))
    BY <1>1 DEF Savepoint, One
<1>5. Savepoint' = One(IF n = 0 THEN Empty ELSE IF opLog = <<>> THEN Found(n)' ELSE Head(opLog))
    BY <1>2 DEF Savepoint, One
<1>6. n # 0 => Found(n)' = Found(n)
    BY <1>1, <1>3
<1>7. QED
    BY <1>4, <1>5, <1>6

LEMMA DbViewStays ==
    ASSUME SimpleInv, db' = db
    PROVE  DbView' = DbView
<1>1. ShownNext(0) = ShownNow(0)
    BY ShownRoot DEF ShownNext, ShownNow
<1>2. QED
    BY <1>1, ViewNow

\* A step that changes what the innermost level shows, and nothing below it.
LEMMA TopShows ==
    ASSUME SimpleInv, NEW n, n = top, top' = n,
           \A i \in 0..(n - 1) : ShownNext(i) = ShownNow(i)
    PROVE  View' = [View EXCEPT ![top] = One(ShownNext(n))]
<1>1. n \in Nat /\ 1 <= n
    BY SimpleFacts
<1>2. View' = [l \in 1..n |-> One(ShownNext(l))]
    BY <1>1, ViewNext
<1>3. View = [l \in 1..n |-> One(ShownNow(l))]
    BY ViewNow
<1>4. \A l \in 1..n : l # n => One(ShownNext(l)) = One(ShownNow(l))
    BY <1>1
<1>5. QED
    BY <1>1, <1>2, <1>3, <1>4

LEMMA OpenBegins == ASSUME SimpleInv, Open PROVE Store!Begin
<1>1. PICK n : n = top
    OBVIOUS
<1>2. /\ n < MaxLevel /\ top' = n + 1 /\ n \in Nat /\ 1 <= n /\ n + 1 \in Level
      /\ ptrData' = ptrData /\ heap' = heap /\ db' = db /\ logged' = logged /\ opLog' = opLog
    BY <1>1, SimpleFacts DEF Open, Level
<1>3. \A i : ShownNext(i) = ShownNow(i)
    BY <1>2 DEF ShownNext, ShownNow
<1>4. ShownNow(n + 1) = ShownNow(n)
    <2>1. n + 1 \in Nat /\ n \in 0..(n + 1) /\ \A j \in (n + 1)..(n + 1) : ptrData[j] = Null
        BY <1>1, <1>2 DEF SimpleInv
    <2>2. QED
        BY <2>1, ShownBelow DEF ShownNow
<1>5. View' = [l \in 1..(n + 1) |-> One(ShownNext(l))]
    BY <1>2, ViewNext
<1>6. View = [l \in 1..n |-> One(ShownNow(l))]
    BY <1>1, ViewNow
<1>7. View' = [l \in 1..(n + 1) |-> IF l = n + 1 THEN View[n] ELSE View[l]]
    BY <1>2, <1>3, <1>4, <1>5, <1>6
<1>8. Savepoint' = Savepoint /\ DbView' = DbView
    BY <1>2, <1>3, SavepointStays, DbViewStays
<1>9. QED
    BY <1>1, <1>2, <1>7, <1>8 DEF Store!Begin

LEMMA DropAborts == ASSUME SimpleInv, Drop PROVE Store!Abort
<1>1. PICK n : n = top
    OBVIOUS
<1>2. /\ n > 1 /\ top' = n - 1 /\ n \in Nat /\ n - 1 \in Nat /\ logged # n
      /\ logged \in Nat /\ logged <= n
      /\ db' = db /\ logged' = logged /\ opLog' = opLog
    BY <1>1, SimpleFacts DEF Drop
<1>3. \A i \in 0..(n - 1) : ShownNext(i) = ShownNow(i)
    BY <1>1, TopReleased DEF Drop
<1>4. View' = [l \in 1..(n - 1) |-> One(ShownNext(l))]
    BY <1>2, ViewNext
<1>5. View = [l \in 1..n |-> One(ShownNow(l))]
    BY <1>1, ViewNow
<1>6. View' = [l \in 1..(n - 1) |-> View[l]]
    BY <1>2, <1>3, <1>4, <1>5
<1>7. Savepoint' = Savepoint /\ DbView' = DbView
    BY <1>2, <1>3, SavepointStays, DbViewStays
<1>8. QED
    BY <1>1, <1>2, <1>6, <1>7 DEF Store!Abort

LEMMA ClearResets == ASSUME SimpleInv, Clear PROVE Store!Reset
<1>1. PICK n : n = top
    OBVIOUS
<1>2. /\ 1 <= n /\ top' = n /\ n \in Nat /\ logged # n /\ logged \in Nat /\ logged <= n
      /\ db' = db /\ logged' = logged /\ opLog' = opLog
    BY <1>1, SimpleFacts DEF Clear
<1>3. /\ \A i \in 0..(n - 1) : ShownNext(i) = ShownNow(i)
      /\ ShownNext(n) = ShownNow(n - 1)
    BY <1>1, TopReleased DEF Clear
<1>4. View' = [View EXCEPT ![top] = One(ShownNow(n - 1))]
    BY <1>1, <1>2, <1>3, TopShows
<1>5. One(ShownNow(n - 1)) = IF n = 1 THEN DbView ELSE View[n - 1]
    <2>1. CASE n = 1
        <3>1. n - 1 = 0
            BY <2>1
        <3>2. QED
            BY <2>1, <3>1, ViewNow
    <2>2. CASE n # 1
        <3>1. n - 1 \in 1..n
            BY <1>2, <2>2
        <3>2. QED
            BY <1>1, <2>2, <3>1, ViewNow
    <2>3. QED
        BY <2>1, <2>2
<1>6. Savepoint' = Savepoint /\ DbView' = DbView
    BY <1>2, <1>3, SavepointStays, DbViewStays
<1>7. QED
    BY <1>1, <1>2, <1>4, <1>5, <1>6 DEF Store!Reset

\* All that PutAll asks of the view, for the only key.
LEMMA PutsOne ==
    ASSUME SimpleInv, NEW v, View' = [View EXCEPT ![top] = One(v)],
           top' = top, logged' = logged, DbView' = DbView, Savepoint' = Savepoint
    PROVE  Store!PutAll(TheKey, v)
<1>1. \A f : One(v) = [k \in TheKey |-> IF k \in TheKey THEN v ELSE f[k]]
    BY DEF One
<1>2. View' = [View EXCEPT ![top] = [k \in TheKey |-> IF k \in TheKey THEN v ELSE @[k]]]
    BY <1>1
<1>3. QED
    BY <1>2 DEF Store!PutAll

\* The log keeps the savepoint while the level that logs is written.
LEMMA SavepointLogged ==
    ASSUME SimpleInv, NEW n, n = top, AddOpLog(Found(n)), logged' = logged,
           \A i \in 0..(n - 1) : ShownNext(i) = ShownNow(i)
    PROVE  Savepoint' = Savepoint
<1>1. PICK m : m = logged
    OBVIOUS
<1>2. m \in Nat /\ m <= n /\ n \in Nat /\ 1 <= n /\ opLog \in Seq(Data)
    BY <1>1, SimpleFacts
<1>3. CASE m # n
    <2>1. opLog' = opLog
        BY <1>1, <1>3 DEF AddOpLog
    <2>2. ShownNext(m) = ShownNow(m)
        BY <1>2, <1>3
    <2>3. QED
        BY <1>1, <2>1, <2>2, SavepointStays
<1>4. CASE m = n
    <2>1. opLog' = Append(opLog, Found(n))
        BY <1>1, <1>4 DEF AddOpLog
    <2>2. Found(n) \in Data
        BY <1>2, SimpleFacts, SourceIs
    <2>3. opLog' # <<>> /\ Head(opLog') = IF opLog = <<>> THEN Found(n) ELSE Head(opLog)
        BY <1>2, <2>1, <2>2
    <2>4. Savepoint = One(IF opLog = <<>> THEN Found(n) ELSE Head(opLog))
        BY <1>1, <1>2, <1>4 DEF Savepoint, One
    <2>5. Savepoint' = One(Head(opLog'))
        BY <1>1, <1>2, <1>4, <2>3 DEF Savepoint, One
    <2>6. QED
        BY <2>3, <2>4, <2>5
<1>5. QED
    BY <1>3, <1>4

LEMMA SetPuts == ASSUME SimpleInv, NEW v \in Data, SetData(v) PROVE Store!PutAll(TheKey, v)
<1>1. PICK n : n = top
    OBVIOUS
<1>2. /\ \A i \in 0..(n - 1) : ShownNext(i) = ShownNow(i)
      /\ ShownNext(n) = v
    BY <1>1, SetWrites
<1>3. top' = top /\ db' = db /\ logged' = logged /\ AddOpLog(Found(top))
    BY DEF SetData
<1>4. AddOpLog(Found(n))
    BY <1>1, <1>3
<1>5. View' = [View EXCEPT ![top] = One(v)]
    BY <1>1, <1>2, <1>3, TopShows
<1>6. Savepoint' = Savepoint /\ DbView' = DbView
    BY <1>1, <1>2, <1>3, <1>4, SavepointLogged, DbViewStays
<1>7. QED
    BY <1>3, <1>5, <1>6, PutsOne

LEMMA ErasePuts == ASSUME SimpleInv, EraseData PROVE Store!PutAll(TheKey, Empty)
<1>1. PICK n : n = top
    OBVIOUS
<1>2. /\ \A i \in 0..(n - 1) : ShownNext(i) = ShownNow(i)
      /\ ShownNext(n) = Empty
    BY <1>1, EraseWrites
<1>3. top' = top /\ db' = db /\ logged' = logged
    BY DEF EraseData
<1>4. View' = [View EXCEPT ![top] = One(Empty)]
    BY <1>1, <1>2, <1>3, TopShows
<1>5. Savepoint' = Savepoint
    <2>1. CASE Found(n) = Empty
        <3>1. opLog' = opLog
            BY <1>1, <2>1 DEF EraseData
        <3>2. n \in Nat /\ 1 <= n /\ logged \in Nat /\ logged <= n /\ ShownNow(n) = Empty
            BY <1>1, <2>1, SimpleFacts, FoundIs DEF ShownNow
        <3>3. ShownNext(logged) = ShownNow(logged)
            BY <1>2, <3>2
        <3>4. QED
            BY <1>3, <3>1, <3>3, SavepointStays
    <2>2. CASE Found(n) # Empty
        <3>1. AddOpLog(Found(n))
            BY <1>1, <2>2 DEF EraseData
        <3>2. QED
            BY <1>1, <1>2, <1>3, <3>1, SavepointLogged
    <2>3. QED
        BY <2>1, <2>2
<1>6. DbView' = DbView
    BY <1>3, DbViewStays
<1>7. QED
    BY <1>3, <1>4, <1>5, <1>6, PutsOne

LEMMA FlushCommits == ASSUME SimpleInv, NEW l \in 2..top, FlushToBase(l) PROVE Store!Commit(l)
<1>1. PICK n, m : n = top /\ m = l - 1
    OBVIOUS
<1>2. /\ n \in Nat /\ n <= MaxLevel /\ MaxLevel \in Nat /\ l \in 1..n /\ m \in 1..n /\ m # l
      /\ logged \in Nat /\ logged <= n
    BY <1>1, SimpleFacts
<1>3. /\ top' = n /\ db' = db /\ logged' = logged /\ opLog' = opLog /\ logged # m
    BY <1>1 DEF FlushToBase
<1>4. /\ \A i \in 0..MaxLevel : i # m => ShownNext(i) = ShownNow(i)
      /\ ShownNext(m) = ShownNow(l)
    BY <1>1, BaseTakes
<1>5. View' = [i \in 1..n |-> One(ShownNext(i))] /\ View = [i \in 1..n |-> One(ShownNow(i))]
    BY <1>1, <1>2, <1>3, ViewNext, ViewNow
<1>6. \A i \in 1..n : One(ShownNext(i)) = IF i = m THEN One(ShownNow(l)) ELSE One(ShownNow(i))
    BY <1>2, <1>4
<1>7. View' = [View EXCEPT ![m] = View[l]]
    BY <1>2, <1>5, <1>6
<1>8. ShownNext(logged) = ShownNow(logged)
    BY <1>2, <1>3, <1>4
<1>9. Savepoint' = Savepoint /\ DbView' = DbView
    BY <1>3, <1>8, SavepointStays, DbViewStays
<1>10. QED
    BY <1>1, <1>3, <1>7, <1>9 DEF Store!Commit

LEMMA FlushPersists == ASSUME SimpleInv, FlushToDb PROVE Store!Persist
<1>1. PICK n : n = top
    OBVIOUS
<1>2. /\ n \in Nat /\ 1 <= n /\ n <= MaxLevel /\ MaxLevel \in Nat /\ logged \in Nat /\ logged <= n
    BY <1>1, SimpleFacts
<1>3. /\ top' = n /\ logged' = logged /\ opLog' = opLog
    BY <1>1 DEF FlushToDb
<1>4. /\ \A i \in 1..MaxLevel : ShownNext(i) = ShownNow(i)
      /\ ShownNext(0) = ShownNow(1)
    BY DbTakes
<1>5. View' = [i \in 1..n |-> One(ShownNext(i))] /\ View = [i \in 1..n |-> One(ShownNow(i))]
    BY <1>1, <1>2, <1>3, ViewNext, ViewNow
<1>6. View' = View
    BY <1>2, <1>4, <1>5
<1>7. DbView' = View[1]
    BY <1>2, <1>4, <1>5, ViewNow
<1>8. Savepoint' = Savepoint
    BY <1>2, <1>3, <1>4, SavepointStays
<1>9. QED
    BY <1>1, <1>3, <1>6, <1>7, <1>8 DEF Store!Persist

\* A step that changes neither pointers, objects nor the record shows the same.
LEMMA NothingShown ==
    ASSUME SimpleInv, top' = top, db' = db,
           \A i \in 0..MaxLevel : ShownNext(i) = ShownNow(i)
    PROVE  View' = View /\ DbView' = DbView
<1>1. PICK n : n = top
    OBVIOUS
<1>2. n \in Nat /\ n <= MaxLevel /\ MaxLevel \in Nat
    BY <1>1, SimpleFacts
<1>3. View' = [i \in 1..n |-> One(ShownNext(i))] /\ View = [i \in 1..n |-> One(ShownNow(i))]
    BY <1>1, <1>2, ViewNext, ViewNow
<1>4. View' = View
    BY <1>2, <1>3
<1>5. QED
    BY <1>4, DbViewStays

LEMMA StartSaves == ASSUME SimpleInv, StartOpLog PROVE Store!Save
<1>1. PICK n : n = top
    OBVIOUS
<1>2. /\ top' = n /\ n \in Nat /\ 1 <= n /\ logged = 0 /\ logged' = n /\ opLog' = opLog /\ opLog = <<>>
      /\ ptrData' = ptrData /\ heap' = heap /\ db' = db
    BY <1>1, SimpleFacts DEF StartOpLog, SimpleInv
<1>3. \A i : ShownNext(i) = ShownNow(i)
    BY <1>2 DEF ShownNext, ShownNow
<1>4. View' = View /\ DbView' = DbView
    BY <1>1, <1>2, <1>3, NothingShown
<1>5. Found(n)' = ShownNow(n)
    BY <1>2, <1>3, FoundIs DEF ShownNext
<1>6. Savepoint' = One(ShownNow(n))
    BY <1>2, <1>5 DEF Savepoint, One
<1>7. n \in 1..top
    BY <1>1, <1>2
<1>8. View[n] = One(ShownNow(n))
    BY <1>7, ViewNow
<1>9. QED
    BY <1>1, <1>2, <1>4, <1>6, <1>8 DEF Store!Save

LEMMA StopReleases == ASSUME SimpleInv, StopOpLog PROVE Store!Release
<1>1. /\ top' = top /\ logged # 0 /\ logged' = 0 /\ ptrData' = ptrData /\ heap' = heap /\ db' = db
    BY DEF StopOpLog
<1>2. \A i : ShownNext(i) = ShownNow(i)
    BY <1>1 DEF ShownNext, ShownNow
<1>3. View' = View /\ DbView' = DbView
    BY <1>1, <1>2, NothingShown
<1>4. Savepoint' = [k \in TheKey |-> Empty]
    BY <1>1 DEF Savepoint
<1>5. QED
    BY <1>1, <1>3, <1>4 DEF Store!Release

LEMMA UndoRollsBack == ASSUME SimpleInv, UndoDataList PROVE Store!Rollback
<1>1. PICK n : n = top
    OBVIOUS
<1>2. /\ top' = n /\ n \in Nat /\ 1 <= n /\ logged = n /\ logged' = 0 /\ db' = db
    BY <1>1, SimpleFacts DEF UndoDataList
<1>3. /\ \A i \in 0..(n - 1) : ShownNext(i) = ShownNow(i)
      /\ ShownNext(n) = IF opLog = <<>> THEN ShownNow(n) ELSE Head(opLog)
    BY <1>1, UndoWrites
<1>4. Found(n) = ShownNow(n)
    BY <1>2, FoundIs DEF ShownNow
<1>5. Savepoint = One(ShownNext(n))
    BY <1>2, <1>3, <1>4 DEF Savepoint, One
<1>6. View' = [View EXCEPT ![top] = One(ShownNext(n))]
    BY <1>1, <1>2, <1>3, TopShows
<1>7. Savepoint' = [k \in TheKey |-> Empty] /\ DbView' = DbView
    BY <1>2, DbViewStays DEF Savepoint
<1>8. QED
    BY <1>1, <1>2, <1>5, <1>6, <1>7 DEF Store!Rollback

LEMMA RestartCrashes == ASSUME SimpleInv, Restart PROVE Store!Crash
<1>1. top' = 1 /\ db' = db /\ logged' = 0 /\ 1 \in Nat /\ ptrData' = [l \in Level |-> Null]
    BY DEF Restart
<1>2. View' = [l \in 1..1 |-> One(ShownNext(l))]
    BY <1>1, ViewNext
<1>3. ShownNext(1) = ShownNext(0)
    <2>1. 0 \in 0..1 /\ \A j \in (0 + 1)..1 : ptrData'[j] = Null
        BY <1>1, SimpleFacts DEF Level
    <2>2. QED
        BY <1>1, <2>1, ShownBelow DEF ShownNext
<1>4. DbView' = DbView /\ DbView' = One(ShownNext(0))
    BY <1>1, DbViewStays, ViewNow
<1>5. \A l \in 1..1 : l = 1
    OBVIOUS
<1>6. View' = [l \in 1..1 |-> DbView]
    BY <1>2, <1>3, <1>4, <1>5
<1>7. Savepoint' = [k \in TheKey |-> Empty]
    BY <1>1 DEF Savepoint
<1>8. QED
    BY <1>1, <1>4, <1>6, <1>7 DEF Store!Crash

LEMMA ReadStutters ==
    ASSUME SimpleInv, NEW l \in 1..top, GetData(l)
    PROVE  UNCHANGED Store!vars
<1>1. top' = top /\ db' = db /\ logged' = logged /\ opLog' = opLog
    BY DEF GetData
<1>2. \A i \in 0..MaxLevel : ShownNext(i) = ShownNow(i)
    BY ReadsShow
<1>3. logged \in 0..MaxLevel
    BY SimpleFacts
<1>4. Savepoint' = Savepoint
    BY <1>1, <1>2, <1>3, SavepointStays
<1>5. View' = View /\ DbView' = DbView
    BY <1>1, <1>2, NothingShown
<1>6. QED
    BY <1>1, <1>4, <1>5 DEF Store!vars

LEMMA SimpleInitRefines == ASSUME Init PROVE Store!Init
<1>1. /\ top = 1 /\ logged = 0 /\ ptrData = [l \in Level |-> Null]
      /\ db \in Value \union {NoRecord}
    BY DEF Init
<1>2. SimpleInv
    BY SimpleInvInit
<1>3. ShownNow(1) = ShownNow(0)
    <2>1. 0 \in 0..1 /\ \A j \in (0 + 1)..1 : ptrData[j] = Null
        BY <1>1, <1>2, SimpleFacts DEF Level
    <2>2. QED
        BY <2>1, ShownBelow DEF ShownNow
<1>4. ShownNow(0) \in Data
    BY <1>1, ShownRoot DEF ShownNow, Recorded, Data
<1>5. View = [l \in 1..1 |-> One(ShownNow(l))] /\ DbView = One(ShownNow(0))
    BY <1>1, <1>2, ViewNow
<1>6. \A l \in 1..1 : l = 1
    OBVIOUS
<1>7. View = [l \in 1..1 |-> DbView]
    BY <1>3, <1>5, <1>6
<1>8. DbView \in Store!Content
    BY <1>4, <1>5 DEF Store!Content, One, Data
<1>9. Savepoint = [k \in TheKey |-> Empty]
    BY <1>1 DEF Savepoint
<1>10. QED
    BY <1>1, <1>7, <1>8, <1>9 DEF Store!Init

\* Each operation is the one of the store it is named after.
LEMMA SimpleStepsRefine == ASSUME SimpleInv PROVE StepsCorrespond
<1>1. /\ Open => Store!Begin
      /\ Drop => Store!Abort
      /\ Clear => Store!Reset
      /\ EraseData => Store!PutAll(TheKey, Empty)
      /\ FlushToDb => Store!Persist
      /\ StartOpLog => Store!Save
      /\ StopOpLog => Store!Release
      /\ UndoDataList => Store!Rollback
      /\ Restart => Store!Crash
    BY OpenBegins, DropAborts, ClearResets, ErasePuts, FlushPersists, StartSaves, StopReleases,
       UndoRollsBack, RestartCrashes
<1>2. \A l \in 1..top : GetData(l) => UNCHANGED Store!vars
    BY ReadStutters
<1>3. \A v \in Data : SetData(v) => Store!PutAll(TheKey, v)
    BY SetPuts
<1>4. \A l \in 2..top : FlushToBase(l) => Store!Commit(l)
    BY FlushCommits
<1>5. QED
    BY <1>1, <1>2, <1>3, <1>4 DEF StepsCorrespond

LEMMA SimpleNextRefines ==
    ASSUME SimpleInv, [Next]_vars
    PROVE  Store!Next \/ UNCHANGED Store!vars
<1>1. CASE UNCHANGED vars
    <2>1. top' = top /\ ptrData' = ptrData /\ heap' = heap /\ db' = db /\ logged' = logged /\ opLog' = opLog
        BY <1>1 DEF vars
    <2>2. \A i : ShownNext(i) = ShownNow(i)
        BY <2>1 DEF ShownNext, ShownNow
    <2>3. View' = View /\ DbView' = DbView /\ Savepoint' = Savepoint
        BY <2>1, <2>2, NothingShown, SavepointStays
    <2>4. QED
        BY <2>1, <2>3 DEF Store!vars
<1>2. CASE Open \/ Drop \/ Clear \/ FlushToDb \/ StartOpLog \/ StopOpLog \/ UndoDataList \/ Restart
    BY <1>2, SimpleStepsRefine DEF StepsCorrespond, Store!Next
<1>3. CASE EraseData
    <2>1. TheKey \in SUBSET TheKey /\ Empty \in Value \union {Empty}
        OBVIOUS
    <2>2. Store!PutAll(TheKey, Empty)
        BY <1>3, ErasePuts
    <2>3. QED
        BY <2>1, <2>2 DEF Store!Next
<1>4. ASSUME NEW v \in Data, SetData(v) PROVE Store!Next
    <2>1. TheKey \in SUBSET TheKey /\ v \in Value \union {Empty}
        BY DEF Data
    <2>2. Store!PutAll(TheKey, v)
        BY <1>4, SetPuts
    <2>3. QED
        BY <2>1, <2>2 DEF Store!Next
<1>5. ASSUME NEW l \in 2..top, FlushToBase(l) PROVE Store!Next
    <2>1. Store!Commit(l)
        BY <1>5, FlushCommits
    <2>2. QED
        BY <2>1 DEF Store!Next
<1>6. ASSUME NEW l \in 1..top, GetData(l) PROVE UNCHANGED Store!vars
    BY <1>6, ReadStutters
<1>7. QED
    BY <1>1, <1>2, <1>3, <1>4, <1>5, <1>6 DEF Next

\* A single-value cache stack is a store with one key, nested transactions and a
\* savepoint, although a flush hands its object to the base and a write overwrites in
\* place.
THEOREM SimpleCacheImplements == Spec => SimpleImplementsStore
<1>1. Init => SimpleInv /\ Store!Init
    BY SimpleInvInit, SimpleInitRefines
<1>2. SimpleInv /\ [Next]_vars => SimpleInv'
    BY SimpleInvStep
<1>3. SimpleInv /\ [Next]_vars => [Store!Next]_(Store!vars)
    BY SimpleNextRefines
<1>4. SimpleInv /\ [Next]_vars => [UNCHANGED vars \/ StepsCorrespond]_vars
    BY SimpleStepsRefine
<1>5. QED
    BY <1>1, <1>2, <1>3, <1>4, PTL DEF Spec, SimpleImplementsStore, Store!Spec
=============================================================================
