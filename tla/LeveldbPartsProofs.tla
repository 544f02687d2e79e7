------------------------- MODULE LeveldbPartsProofs -------------------------
(***************************************************************************)
(* Proofs about two parts of LevelDB whose threads share state: the        *)
(* memtable's list, for any number of keys and any height, and the         *)
(* environment's locks and queue, for any processes, threads and           *)
(* databases.                                                              *)
(***************************************************************************)
EXTENDS SkipList, PosixEnv, WellFoundedInduction, TLAPS

-----------------------------------------------------------------------------
(* SkipList *)

\* The nodes that level i has: those high enough, the one being inserted once it is linked there.
Linked(i) == {n \in DOMAIN height : height[n] > i /\ (n = insert.node => i < insert.linked)}

SkipTypeOK ==
    /\ DOMAIN height \subseteq 0..LastKey /\ head \in DOMAIN height
    /\ height \in [DOMAIN height -> 1..kMaxHeight] /\ height[head] = kMaxHeight
    /\ next \in [DOMAIN height -> [SkipLevel -> 0..NULL]]
    /\ max_height \in 1..kMaxHeight
    /\ \/ insert = NoInsert
       \/ /\ insert \in [node : DOMAIN height \ {head}, prev : [SkipLevel -> DOMAIN height],
                         linked : SkipLevel]
          /\ insert.linked < height[insert.node]
    /\ iter \in [pc : {"done", "search"}, node : 1..NULL, target : 0..NULL, less : BOOLEAN,
                 x : 0..LastKey, level : SkipLevel]

\* Each level is a list of the nodes it has, in their order.
LevelsAreLists ==
    \A i \in SkipLevel : \A n \in Linked(i) :
        /\ next[n][i] \in Linked(i) \union {NULL}
        /\ n < next[n][i]
        /\ \A m \in Linked(i) : n < m => next[n][i] <= m

\* Where the new node is not linked yet, it belongs behind prev.
PrevIsRight ==
    insert # NoInsert =>
        \A i \in SkipLevel : insert.linked <= i =>
            /\ insert.prev[i] \in Linked(i)
            /\ insert.prev[i] < insert.node
            /\ insert.node < next[insert.prev[i]][i]

\* A search stands before its target on a node its level has.
SearchIsOnLevel ==
    /\ iter.pc = "search" => iter.x \in Linked(iter.level) /\ iter.x < iter.target
    /\ iter.node \in Linked(0) \union {NULL}
    /\ seen \subseteq Linked(0)

SkipInv == SkipTypeOK /\ LevelsAreLists /\ PrevIsRight /\ SearchIsOnLevel

-----------------------------------------------------------------------------
\* A set of naturals below a bound that is not empty has a largest element.
LEMMA LargestExists ==
    ASSUME NEW b \in Nat, NEW S \in SUBSET (0..b), S # {}
    PROVE  \E x \in S : \A y \in S : y <= x
<1> DEFINE T == {b - x : x \in S}
<1>1. T \in SUBSET Nat /\ T # {}
    <2>1. \A x \in S : x \in Int /\ 0 <= x /\ x <= b
        OBVIOUS
    <2>2. \A x \in S : b - x \in Nat
        BY <2>1
    <2>3. QED
        BY <2>2
<1>2. PICK t \in T : \A u \in T : ~ (<<u, t>> \in OpToRel(<, Nat))
    BY <1>1, NatLessThanWellFounded, WFMin
<1>3. \A u \in T : t <= u
    <2>1. TAKE u \in T
    <2>2. ~ (u < t)
        BY <1>1, <1>2 DEF OpToRel
    <2>3. QED
        BY <1>1, <2>2
<1>4. PICK x \in S : t = b - x
    OBVIOUS
<1>5. \A y \in S : y <= x
    <2>1. TAKE y \in S
    <2>2. b - y \in T
        OBVIOUS
    <2>3. QED
        BY <1>3, <1>4, <2>2
<1>6. QED
    BY <1>5

\* The initial list is empty and sorted.
LEMMA SkipInitial ==
    ASSUME SkipInit
    PROVE  SkipInv /\ SearchesAreRight
<1> USE SkipAssumption DEF SkipInit, head, NULL, SkipLevel, NoInsert
<1>1. DOMAIN height = {0} /\ height[0] = kMaxHeight
    OBVIOUS
<1>2. SkipTypeOK
    BY <1>1 DEF SkipTypeOK
<1>3. \A i \in SkipLevel : Linked(i) = {0}
    BY <1>1 DEF Linked
<1>4. LevelsAreLists /\ PrevIsRight
    BY <1>1, <1>3 DEF LevelsAreLists, PrevIsRight
<1>5. SearchIsOnLevel /\ SearchesAreRight
    BY DEF SearchIsOnLevel, SearchesAreRight, Between
<1>6. QED
    BY <1>2, <1>4, <1>5 DEF SkipInv

\* FindGreaterOrEqual finds at every level the last node before a key that is not there.
LEMMA PrevExists ==
    ASSUME SkipInv, insert = NoInsert,
           NEW k \in Key, k \notin DOMAIN height, NEW i \in SkipLevel
    PROVE  /\ Prev(k)[i] \in Linked(i)
           /\ Prev(k)[i] < k
           /\ k < next[Prev(k)[i]][i]
<1> DEFINE S == {m \in DOMAIN height : m < k /\ height[m] > i}
<1> USE SkipAssumption DEF head, NULL, SkipLevel, Key
<1>1. \A n \in DOMAIN height : height[n] > i <=> n \in Linked(i)
    BY SMTT(30) DEF SkipInv, SkipTypeOK, Linked, NoInsert
<1>2. S \in SUBSET (0..LastKey) /\ 0 \in S
    BY DEF SkipInv, SkipTypeOK
<1>3. PICK x \in S : \A y \in S : y <= x
    BY <1>2, LargestExists
<1>4. next[x][i] >= k
    <2>1. /\ x \in Linked(i) /\ x < next[x][i]
          /\ next[x][i] \in Linked(i) \union {NULL}
        BY <1>1 DEF SkipInv, LevelsAreLists
    <2>2. CASE next[x][i] = NULL
        BY <2>2
    <2>3. CASE next[x][i] \in Linked(i)
        <3>1. next[x][i] \in DOMAIN height /\ height[next[x][i]] > i
            BY <2>3 DEF Linked
        <3>2. next[x][i] \in 0..LastKey /\ x \in 0..LastKey
            BY <1>2, <3>1 DEF SkipInv, SkipTypeOK
        <3>3. next[x][i] \notin S
            BY <1>3, <2>1, <3>2
        <3>4. QED
            BY <3>1, <3>2, <3>3
    <2>4. QED
        BY <2>1, <2>2, <2>3
<1>5. Prev(k)[i] \in S /\ next[Prev(k)[i]][i] >= k
    BY <1>4 DEF Prev
<1>6. Prev(k)[i] \in Linked(i)
    BY <1>1, <1>5
<1>7. next[Prev(k)[i]][i] \in Linked(i) \union {NULL}
    BY <1>6 DEF SkipInv, LevelsAreLists
<1>8. next[Prev(k)[i]][i] # k
    BY <1>7 DEF Linked
<1>9. next[Prev(k)[i]][i] \in 0..NULL
    <2>1. Prev(k)[i] \in DOMAIN height
        BY <1>5
    <2>2. next \in [DOMAIN height -> [SkipLevel -> 0..NULL]]
        BY DEF SkipInv, SkipTypeOK
    <2>3. next[Prev(k)[i]] \in [SkipLevel -> 0..NULL]
        BY <2>1, <2>2
    <2>4. QED
        BY <2>3
<1>10. QED
    BY <1>5, <1>6, <1>8, <1>9

\* Insert finds its place at every level, and changes the list at none.
LEMMA StartInsertPreserves ==
    ASSUME SkipInv, NEW k \in Key, NEW h \in 1..kMaxHeight, StartInsert(k, h)
    PROVE  SkipInv'
<1> USE SkipAssumption DEF head, NULL, SkipLevel, Key
<1>1. /\ insert = NoInsert /\ k \notin DOMAIN height
      /\ insert' = [node |-> k, prev |-> Prev(k), linked |-> 0]
      /\ DOMAIN height' = DOMAIN height \union {k} /\ height'[k] = h
      /\ \A n \in DOMAIN height : height'[n] = height[n] /\ next'[n] = next[n]
      /\ next'[k] = [i \in SkipLevel |-> NULL]
      /\ DOMAIN next' = DOMAIN height'
      /\ UNCHANGED <<iter, seen>>
    BY DEF StartInsert
<1>2. \A i \in SkipLevel : Linked(i)' = Linked(i)
    BY <1>1 DEF Linked, NoInsert, SkipInv, SkipTypeOK
<1>3. \A i \in SkipLevel : /\ Prev(k)[i] \in Linked(i) /\ Prev(k)[i] < k
                            /\ k < next[Prev(k)[i]][i]
    BY <1>1, PrevExists
<1>4. \A i \in SkipLevel : Prev(k)[i] \in DOMAIN height
    BY <1>3 DEF Linked
<1>5. SkipTypeOK'
    <2>1. insert' \in [node : (DOMAIN height \ {head})', prev : [SkipLevel -> (DOMAIN height)'],
                       linked : SkipLevel]
        <3>1. Prev(k) \in [SkipLevel -> (DOMAIN height)']
            BY <1>1, <1>4 DEF Prev
        <3>2. QED
            BY <1>1, <3>1
    <2>2. insert'.linked < height'[insert'.node]
        BY <1>1
    <2>3. height' \in [DOMAIN height' -> 1..kMaxHeight] /\ height'[head] = kMaxHeight
        BY <1>1 DEF StartInsert, SkipInv, SkipTypeOK
    <2>4. next' \in [DOMAIN height' -> [SkipLevel -> 0..NULL]]
        BY <1>1 DEF StartInsert, SkipInv, SkipTypeOK
    <2>5. max_height' \in 1..kMaxHeight
        BY DEF StartInsert, SkipInv, SkipTypeOK
    <2>6. DOMAIN height' \subseteq 0..LastKey /\ head \in DOMAIN height'
        BY <1>1 DEF SkipInv, SkipTypeOK
    <2>7. QED
        BY <1>1, <2>1, <2>2, <2>3, <2>4, <2>5, <2>6 DEF SkipInv, SkipTypeOK
<1>6. LevelsAreLists'
    BY <1>1, <1>2 DEF SkipInv, LevelsAreLists, Linked
<1>7. PrevIsRight'
    BY <1>1, <1>2, <1>3, <1>4 DEF PrevIsRight
<1>8. SearchIsOnLevel'
    BY <1>1, <1>2 DEF SkipInv, SkipTypeOK, SearchIsOnLevel
<1>9. QED
    BY <1>5, <1>6, <1>7, <1>8 DEF SkipInv

\* A link puts the new node where it belongs in the list of one level, and changes no other.
LEMMA LinkPreserves ==
    ASSUME SkipInv, Link
    PROVE  SkipInv'
<1> USE SkipAssumption DEF head, NULL, SkipLevel
<1>1. /\ insert # NoInsert
      /\ insert \in [node : DOMAIN height \ {head}, prev : [SkipLevel -> DOMAIN height],
                     linked : SkipLevel]
      /\ insert.linked < height[insert.node]
    BY DEF Link, SkipInv, SkipTypeOK
<1>2. PICK x \in DOMAIN height \ {head}, i \in SkipLevel, p \in DOMAIN height :
        /\ x = insert.node /\ i = insert.linked /\ p = insert.prev[i]
        /\ i < height[x]
        /\ next' = [next EXCEPT ![x][i] = next[p][i], ![p][i] = x]
        /\ insert' = IF i + 1 = height[x] THEN NoInsert ELSE [insert EXCEPT !.linked = i + 1]
        /\ UNCHANGED <<height, max_height, iter, seen>>
    <2>1. insert.prev[insert.linked] \in DOMAIN height
        BY <1>1
    <2>2. QED
        BY <1>1, <2>1 DEF Link, LinkedNext
<1>3. p \in DOMAIN height /\ p \in Linked(i) /\ p < x /\ x < next[p][i]
    BY <1>1, <1>2 DEF SkipInv, PrevIsRight
<1>4. /\ DOMAIN height \subseteq 0..LastKey
      /\ height \in [DOMAIN height -> 1..kMaxHeight]
      /\ next \in [DOMAIN height -> [SkipLevel -> 0..NULL]]
    BY DEF SkipInv, SkipTypeOK
<1>5. /\ next' \in [DOMAIN height -> [SkipLevel -> 0..NULL]]
      /\ next'[p][i] = x /\ next'[x][i] = next[p][i]
      /\ \A n \in DOMAIN height, j \in SkipLevel :
            (n \notin {p, x} \/ j # i) => next'[n][j] = next[n][j]
    <2>1. /\ x \in DOMAIN next /\ p \in DOMAIN next /\ x # p
          /\ next[x] \in [SkipLevel -> 0..NULL] /\ next[p] \in [SkipLevel -> 0..NULL]
        BY <1>2, <1>3, <1>4, SMTT(30)
    <2>2. /\ next' = [n \in DOMAIN height |->
                          IF n = p THEN [next[p] EXCEPT ![i] = x]
                          ELSE IF n = x THEN [next[x] EXCEPT ![i] = next[p][i]]
                          ELSE next[n]]
        BY <1>1, <1>2, <1>4, <2>1
    <2>3. x \in 0..NULL
        BY <1>2, <1>4
    <2>4. next' \in [DOMAIN height -> [SkipLevel -> 0..NULL]]
        <3>1. [next[p] EXCEPT ![i] = x] \in [SkipLevel -> 0..NULL]
            BY <2>1, <2>3
        <3>2. next[p][i] \in 0..NULL
            BY <2>1
        <3>3. [next[x] EXCEPT ![i] = next[p][i]] \in [SkipLevel -> 0..NULL]
            BY <2>1, <3>2
        <3>4. \A n \in DOMAIN height : next[n] \in [SkipLevel -> 0..NULL]
            BY <1>4
        <3>5. QED
            BY <2>2, <3>1, <3>3, <3>4
    <2>5. next'[p] = [next[p] EXCEPT ![i] = x] /\ next'[x] = [next[x] EXCEPT ![i] = next[p][i]]
        BY <1>2, <1>3, <2>1, <2>2
    <2>6. next'[p][i] = x /\ next'[x][i] = next[p][i]
        BY <1>2, <2>1, <2>5
    <2>7. \A n \in DOMAIN height, j \in SkipLevel :
            (n \notin {p, x} \/ j # i) => next'[n][j] = next[n][j]
        BY <2>1, <2>2
    <2>8. QED
        BY <2>4, <2>6, <2>7
<1>6. \A j \in SkipLevel :
        /\ Linked(j) = {n \in DOMAIN height : height[n] > j /\ (n = x => j < i)}
        /\ Linked(j)' = {n \in DOMAIN height : height[n] > j /\ (n = x => j < i + 1)}
    <2>1. TAKE j \in SkipLevel
    <2>2. Linked(j) = {n \in DOMAIN height : height[n] > j /\ (n = x => j < i)}
        BY <1>2 DEF Linked
    <2>3. CASE i + 1 = height[x]
        <3>1. insert' = NoInsert
            BY <1>1, <1>2, <2>3
        <3>2. \A n \in DOMAIN height : n # insert'.node
            BY <1>4, <3>1 DEF NoInsert
        <3>3. Linked(j)' = {n \in DOMAIN height : height[n] > j}
            BY <1>1, <1>2, <3>2 DEF Linked
        <3>4. QED
            BY <1>2, <1>4, <2>2, <2>3, <3>3
    <2>4. CASE i + 1 # height[x]
        <3>1. insert'.node = x /\ insert'.linked = i + 1
            BY <1>1, <1>2, <2>4
        <3>2. QED
            BY <1>1, <1>2, <2>2, <3>1 DEF Linked
    <2>5. QED
        BY <2>3, <2>4
<1>7. /\ Linked(i)' = Linked(i) \union {x}
      /\ \A j \in SkipLevel \ {i} : Linked(j)' = Linked(j)
    <2>1. Linked(i)' = Linked(i) \union {x}
        <3>1. i \in Int /\ ~(i < i) /\ i < i + 1
            BY <1>2
        <3>2. /\ Linked(i) = {n \in DOMAIN height : height[n] > i /\ (n = x => i < i)}
              /\ Linked(i)' = {n \in DOMAIN height : height[n] > i /\ (n = x => i < i + 1)}
            BY <1>2, <1>6
        <3>3. x \in DOMAIN height /\ height[x] > i
            BY <1>2, <1>4
        <3>4. QED
            BY <3>1, <3>2, <3>3
    <2>2. ASSUME NEW j \in SkipLevel \ {i} PROVE Linked(j)' = Linked(j)
        <3>1. j < i <=> j < i + 1
            BY <1>2
        <3>2. QED
            BY <1>6, <3>1
    <2>3. QED
        BY <2>1, <2>2
<1>8. SkipTypeOK'
    <2>1. CASE i + 1 = height[x]
        BY <1>1, <1>2, <1>4, <1>5, <2>1 DEF SkipInv, SkipTypeOK
    <2>2. CASE i + 1 # height[x]
        <3>1. i + 1 \in SkipLevel /\ i + 1 < height[x]
            <4>1. height[x] \in 1..kMaxHeight /\ i \in 0..kMaxHeight - 1 /\ i < height[x]
                BY <1>2, <1>4
            <4>2. QED
                BY <2>2, <4>1
        <3>2. insert' \in [node : DOMAIN height \ {head}, prev : [SkipLevel -> DOMAIN height],
                           linked : SkipLevel]
            BY <1>1, <1>2, <2>2, <3>1
        <3>3. insert'.linked < height[insert'.node]
            BY <1>1, <1>2, <2>2, <3>1
        <3>4. QED
            BY <1>1, <1>2, <1>4, <1>5, <3>2, <3>3 DEF SkipInv, SkipTypeOK
    <2>3. QED
        BY <2>1, <2>2
<1>9. LevelsAreLists'
    <2>1. ASSUME NEW j \in SkipLevel \ {i}, NEW n \in Linked(j)'
          PROVE  /\ next'[n][j] \in Linked(j)' \union {NULL} /\ n < next'[n][j]
                 /\ \A m \in Linked(j)' : n < m => next'[n][j] <= m
        <3>1. n \in Linked(j) /\ n \in DOMAIN height
            BY <1>7 DEF Linked
        <3>2. next'[n][j] = next[n][j]
            BY <1>5, <3>1
        <3>3. QED
            BY <1>7, <3>1, <3>2 DEF SkipInv, LevelsAreLists
    <2>2. ASSUME NEW n \in Linked(i)'
          PROVE  /\ next'[n][i] \in Linked(i)' \union {NULL} /\ n < next'[n][i]
                 /\ \A m \in Linked(i)' : n < m => next'[n][i] <= m
        <3>1. \A m \in Linked(i) : /\ m \in 0..LastKey /\ m \in DOMAIN height
                                   /\ next[m][i] \in Linked(i) \union {NULL} /\ m < next[m][i]
                                   /\ next[m][i] \in 0..NULL
                                   /\ \A q \in Linked(i) : m < q => next[m][i] <= q
            <4>1. TAKE m \in Linked(i)
            <4>2. m \in DOMAIN height /\ m \in 0..LastKey
                BY <1>4 DEF Linked
            <4>3. next[m] \in [SkipLevel -> 0..NULL]
                BY <1>4, <4>2
            <4>4. next[m][i] \in 0..NULL
                BY <4>3
            <4>5. QED
                BY <4>2, <4>4 DEF SkipInv, LevelsAreLists
        <3>2. x \notin Linked(i) /\ x \in 0..LastKey
            BY <1>2, <1>4 DEF Linked
        <3>3. CASE n = x
            BY <1>3, <1>5, <1>7, <3>1, <3>2, <3>3
        <3>4. CASE n = p
            <4>1. next'[n][i] = x /\ n < x /\ x \in Linked(i)'
                BY <1>3, <1>5, <1>7, <3>4
            <4>2. \A m \in Linked(i) : p < m => x <= m
                <5>1. TAKE m \in Linked(i)
                <5>2. HAVE p < m
                <5>3. next[p][i] <= m /\ next[p][i] \in 0..NULL /\ m \in 0..LastKey
                    BY <1>3, <3>1, <5>2
                <5>4. QED
                    BY <1>3, <3>2, <5>3
            <4>3. \A m \in Linked(i)' : n < m => x <= m
                BY <1>7, <3>2, <3>4, <4>2
            <4>4. QED
                BY <4>1, <4>3
        <3>5. CASE n \notin {p, x}
            <4>1. n \in Linked(i) /\ next'[n][i] = next[n][i]
                BY <1>2, <1>5, <1>7, <3>1, <3>5
            <4>2. n < x => next[n][i] <= x
                BY <1>3, <3>1, <3>2, <3>5, <4>1
            <4>3. QED
                BY <1>7, <3>1, <4>1, <4>2
        <3>6. QED
            BY <3>3, <3>4, <3>5
    <2>3. ASSUME NEW j \in SkipLevel, NEW n \in Linked(j)'
          PROVE  /\ next'[n][j] \in Linked(j)' \union {NULL} /\ n < next'[n][j]
                 /\ \A m \in Linked(j)' : n < m => next'[n][j] <= m
        <3>1. CASE j = i
            BY <2>2, <3>1
        <3>2. CASE j # i
            BY <2>1, <3>2
        <3>3. QED
            BY <3>1, <3>2
    <2>4. QED
        BY <2>3 DEF LevelsAreLists
<1>10. PrevIsRight'
    <2>1. SUFFICES ASSUME insert' # NoInsert, NEW j \in SkipLevel, insert'.linked <= j
                   PROVE  /\ insert'.prev[j] \in Linked(j)' /\ insert'.prev[j] < insert'.node
                          /\ insert'.node < next'[insert'.prev[j]][j]
        BY DEF PrevIsRight, NoInsert
    <2>2. insert'.prev = insert.prev /\ insert'.node = x /\ insert'.linked = i + 1
        BY <1>1, <1>2, <2>1
    <2>3. j # i /\ i <= j
        BY <1>2, <2>1, <2>2
    <2>4. /\ insert.prev[j] \in Linked(j) /\ insert.prev[j] < x /\ x < next[insert.prev[j]][j]
          /\ insert.prev[j] \in DOMAIN height
        BY <1>1, <1>2, <2>3 DEF SkipInv, PrevIsRight
    <2>5. QED
        BY <1>5, <1>7, <2>2, <2>3, <2>4
<1>11. SearchIsOnLevel'
    <2>1. ASSUME NEW j \in SkipLevel PROVE Linked(j) \subseteq Linked(j)'
        <3>1. CASE j = i
            BY <1>7, <3>1
        <3>2. CASE j # i
            BY <1>7, <3>2
        <3>3. QED
            BY <3>1, <3>2
    <2>2. iter.level \in SkipLevel /\ 0 \in SkipLevel
        BY DEF SkipInv, SkipTypeOK
    <2>3. QED
        BY <1>1, <1>2, <2>1, <2>2 DEF SkipInv, SearchIsOnLevel
<1>12. QED
    BY <1>8, <1>9, <1>10, <1>11 DEF SkipInv

\* What the reader may use: the head is on every level, what is inserted on the lowest, and
\* a node that has been passed on one level is on those below it.
LEMMA ReaderFacts ==
    ASSUME SkipInv
    PROVE  /\ \A i \in SkipLevel : head \in Linked(i)
           /\ Inserted \subseteq Linked(0) /\ 0 \in SkipLevel
           /\ \A i \in SkipLevel : i - 1 \in SkipLevel => Linked(i) \subseteq Linked(i - 1)
           /\ \A i \in SkipLevel : Linked(i) \subseteq 0..LastKey
<1> USE SkipAssumption DEF head, NULL, SkipLevel
<1>1. /\ DOMAIN height \subseteq 0..LastKey /\ head \in DOMAIN height /\ height[head] = kMaxHeight
      /\ \A n \in DOMAIN height : height[n] \in 1..kMaxHeight
    BY DEF SkipInv, SkipTypeOK
<1>2. insert.linked \in Int /\ insert.node # head
    BY DEF SkipInv, SkipTypeOK, NoInsert
<1>3. \A i \in SkipLevel : head \in Linked(i)
    BY <1>1, <1>2 DEF Linked
<1>4. Inserted \subseteq Linked(0) /\ 0 \in SkipLevel
    BY <1>1 DEF Linked, Inserted
<1>5. ASSUME NEW i \in SkipLevel, i - 1 \in SkipLevel PROVE Linked(i) \subseteq Linked(i - 1)
    BY <1>1, <1>2 DEF Linked
<1>6. \A i \in SkipLevel : Linked(i) \subseteq 0..LastKey
    BY <1>1 DEF Linked
<1>7. QED
    BY <1>3, <1>4, <1>5, <1>6

\* A step of the reader leaves the list alone.
LEMMA ListUnchanged ==
    ASSUME SkipInv, UNCHANGED <<next, height, max_height, insert>>
    PROVE  /\ \A i \in SkipLevel : Linked(i)' = Linked(i)
           /\ LevelsAreLists' /\ PrevIsRight'
<1>1. \A i \in SkipLevel : Linked(i)' = Linked(i)
    BY DEF Linked
<1>2. LevelsAreLists'
    BY <1>1 DEF SkipInv, LevelsAreLists
<1>3. PrevIsRight'
    BY <1>1 DEF SkipInv, PrevIsRight
<1>4. QED
    BY <1>1, <1>2, <1>3

\* Seek, SeekToLast and Prev begin at the head, whatever height they read.
LEMMA SearchPreserves ==
    ASSUME SkipInv, UNCHANGED <<next, height, max_height, insert>>,
           NEW t \in 1..NULL, NEW less \in BOOLEAN, Search(t, less)
    PROVE  SkipInv' /\ SearchesAreRight'
<1> USE SkipAssumption DEF head, NULL, SkipLevel
<1>1. PICK h \in 1..max_height :
        iter' = [iter EXCEPT !.pc = "search", !.target = t, !.less = less, !.x = head,
                             !.level = h - 1]
    BY DEF Search
<1>2. h - 1 \in SkipLevel /\ seen' = Inserted
    BY DEF Search, SkipInv, SkipTypeOK
<1>3. iter'.pc = "search" /\ iter'.node = iter.node /\ iter'.x = head /\ iter'.target = t
      /\ iter'.level = h - 1
    BY <1>1 DEF SkipInv, SkipTypeOK
<1>4. SkipTypeOK'
    <2>1. t \in 0..NULL /\ head \in 0..LastKey
        OBVIOUS
    <2>2. iter' \in [pc : {"done", "search"}, node : 1..NULL, target : 0..NULL, less : BOOLEAN,
                     x : 0..LastKey, level : SkipLevel]
        BY <1>1, <1>2, <2>1 DEF SkipInv, SkipTypeOK
    <2>3. QED
        BY <2>2 DEF SkipInv, SkipTypeOK
<1>5. SearchIsOnLevel'
    <2>1. iter'.x \in Linked(h - 1) /\ seen' \subseteq Linked(0)
        BY <1>2, <1>3, ReaderFacts
    <2>2. Linked(h - 1)' = Linked(h - 1) /\ Linked(0)' = Linked(0)
        BY DEF Linked
    <2>3. iter'.x \in Linked(iter.level)'
        BY <1>3, <2>1 DEF Linked
    <2>4. QED
        BY <1>3, <2>1, <2>2, <2>3 DEF SkipInv, SearchIsOnLevel
<1>6. SearchesAreRight'
    BY <1>3 DEF SearchesAreRight, Between
<1>7. QED
    BY <1>4, <1>5, <1>6, ListUnchanged DEF SkipInv

\* SeekToFirst and Next go to the node after one that the lowest level has.
LEMMA LoadPreserves ==
    ASSUME SkipInv, UNCHANGED <<next, height, max_height, insert>>,
           Between, NEW x \in Linked(0), Load(x)
    PROVE  SkipInv' /\ SearchesAreRight'
<1> USE SkipAssumption DEF head, NULL, SkipLevel
<1>1. /\ next[x][0] \in Linked(0) \union {NULL} /\ x < next[x][0]
      /\ \A m \in Linked(0) : x < m => next[x][0] <= m
      /\ x \in 0..LastKey /\ Linked(0) \subseteq 0..LastKey
    BY ReaderFacts DEF SkipInv, LevelsAreLists
<1>2. next[x][0] \in 1..NULL
    BY <1>1
<1>3. /\ iter' = [iter EXCEPT !.node = next[x][0], !.target = x + 1, !.less = FALSE]
      /\ seen' = Inserted /\ Inserted \subseteq Linked(0)
    BY ReaderFacts DEF Load
<1>4. /\ iter'.pc = "done" /\ iter'.node = next[x][0] /\ iter'.target = x + 1
      /\ iter'.less = FALSE
    BY <1>3 DEF SkipInv, SkipTypeOK, Between
<1>5. SkipTypeOK'
    <2>1. x + 1 \in 0..NULL
        BY <1>1
    <2>2. iter' \in [pc : {"done", "search"}, node : 1..NULL, target : 0..NULL, less : BOOLEAN,
                     x : 0..LastKey, level : SkipLevel]
        BY <1>2, <1>3, <2>1 DEF SkipInv, SkipTypeOK
    <2>3. QED
        BY <2>2 DEF SkipInv, SkipTypeOK
<1>6. SearchIsOnLevel'
    <2>1. Linked(0)' = Linked(0)
        BY DEF Linked
    <2>2. QED
        BY <1>1, <1>3, <1>4, <2>1 DEF SearchIsOnLevel
<1>7. SearchesAreRight'
    BY <1>1, <1>2, <1>3, <1>4 DEF SearchesAreRight
<1>8. QED
    BY <1>5, <1>6, <1>7, ListUnchanged DEF SkipInv

\* A step of a search goes on, goes down, or ends on the node that was asked for.
LEMMA SearchStepPreserves ==
    ASSUME SkipInv, SearchesAreRight,
           UNCHANGED <<next, height, max_height, insert>>, SearchStep
    PROVE  SkipInv' /\ SearchesAreRight'
<1> DEFINE n == next[iter.x][iter.level]
           found == IF iter.less THEN iter.x ELSE n
<1> USE SkipAssumption DEF head, NULL, SkipLevel
<1>1. /\ iter.pc = "search" /\ UNCHANGED seen
      /\ iter' = IF n < iter.target THEN [iter EXCEPT !.x = n]
                 ELSE IF iter.level > 0 THEN [iter EXCEPT !.level = iter.level - 1]
                 ELSE [iter EXCEPT !.pc = "done", !.node = IF found = head THEN NULL ELSE found]
    BY DEF SearchStep
<1>2. /\ iter \in [pc : {"done", "search"}, node : 1..NULL, target : 0..NULL, less : BOOLEAN,
                   x : 0..LastKey, level : SkipLevel]
      /\ iter.x \in Linked(iter.level) /\ iter.x < iter.target
      /\ iter.node \in Linked(0) \union {NULL} /\ seen \subseteq Linked(0)
    BY <1>1 DEF SkipInv, SkipTypeOK, SearchIsOnLevel
<1>3. /\ n \in Linked(iter.level) \union {NULL} /\ iter.x < n
      /\ \A m \in Linked(iter.level) : iter.x < m => n <= m
      /\ Linked(iter.level) \subseteq 0..LastKey
    BY <1>2, ReaderFacts DEF SkipInv, LevelsAreLists
<1>4. n \in 1..NULL
    BY <1>2, <1>3
<1> HIDE DEF n
<1>5. CASE n < iter.target
    <2>1. iter' = [iter EXCEPT !.x = n] /\ n \in Linked(iter.level) /\ n \in 0..LastKey
        BY <1>1, <1>2, <1>3, <1>4, <1>5
    <2>2. /\ iter'.pc = "search" /\ iter'.x = n /\ iter'.level = iter.level
          /\ iter'.target = iter.target /\ iter'.node = iter.node
        BY <1>1, <1>2, <2>1
    <2>3. SkipTypeOK'
        BY <1>2, <2>1 DEF SkipInv, SkipTypeOK
    <2>4. SearchIsOnLevel'
        <3>1. iter'.x \in Linked(iter.level)'
            BY <2>1, <2>2 DEF Linked
        <3>2. Linked(0)' = Linked(0)
            BY DEF Linked
        <3>3. QED
            BY <1>1, <1>2, <1>5, <2>2, <3>1, <3>2 DEF SearchIsOnLevel
    <2>5. SearchesAreRight'
        BY <2>2 DEF SearchesAreRight, Between
    <2>6. QED
        BY <2>3, <2>4, <2>5, ListUnchanged DEF SkipInv
<1>6. CASE ~(n < iter.target) /\ iter.level > 0
    <2>1. /\ iter' = [iter EXCEPT !.level = iter.level - 1] /\ iter.level - 1 \in SkipLevel
        BY <1>1, <1>2, <1>6
    <2>2. /\ iter'.pc = "search" /\ iter'.x = iter.x /\ iter'.level = iter.level - 1
          /\ iter'.target = iter.target /\ iter'.node = iter.node
        BY <1>1, <1>2, <2>1
    <2>3. SkipTypeOK'
        BY <1>2, <2>1 DEF SkipInv, SkipTypeOK
    <2>4. SearchIsOnLevel'
        <3>1. iter.x \in Linked(iter.level - 1)
            BY <1>2, <2>1, ReaderFacts
        <3>2. iter'.x \in Linked(iter.level)'
            BY <2>2, <3>1 DEF Linked
        <3>3. Linked(0)' = Linked(0)
            BY DEF Linked
        <3>4. QED
            BY <1>1, <1>2, <2>2, <3>2, <3>3 DEF SearchIsOnLevel
    <2>5. SearchesAreRight'
        BY <2>2 DEF SearchesAreRight, Between
    <2>6. QED
        BY <2>3, <2>4, <2>5, ListUnchanged DEF SkipInv
<1>7. CASE ~(n < iter.target) /\ ~(iter.level > 0)
    <2> DEFINE node == IF found = head THEN NULL ELSE found
    <2>1. /\ iter' = [iter EXCEPT !.pc = "done", !.node = node] /\ iter.level = 0
          /\ iter.x \in Linked(0) /\ n \in Linked(0) \union {NULL}
          /\ \A m \in Linked(0) : iter.x < m => n <= m
          /\ Linked(0) \subseteq 0..LastKey
        <3>1. iter.level = 0
            BY <1>2, <1>7
        <3>2. iter' = [iter EXCEPT !.pc = "done", !.node = node]
            BY <1>1, <1>7
        <3>3. QED
            BY <1>2, <1>3, <3>1, <3>2
    <2>2. node \in 1..NULL /\ node \in Linked(0) \union {NULL}
        BY <1>2, <1>4, <2>1
    <2>3. iter.less => iter.x = IF node = NULL THEN head ELSE node
        BY <1>2
    <2>4. ~iter.less => node = n
        BY <1>4
    <2> HIDE DEF node
    <2>5. /\ iter'.pc = "done" /\ iter'.node = node /\ iter'.target = iter.target
          /\ iter'.less = iter.less
        BY <1>2, <2>1
    <2>6. SkipTypeOK'
        <3>1. iter' \in [pc : {"done", "search"}, node : 1..NULL, target : 0..NULL,
                         less : BOOLEAN, x : 0..LastKey, level : SkipLevel]
            BY <1>2, <2>1, <2>2
        <3>2. QED
            BY <3>1 DEF SkipInv, SkipTypeOK
    <2>7. SearchIsOnLevel'
        <3>1. Linked(0)' = Linked(0)
            BY DEF Linked
        <3>2. QED
            BY <1>1, <1>2, <2>2, <2>5, <3>1 DEF SearchIsOnLevel
    <2>8. SearchesAreRight'
        <3>1. seen' = seen /\ \A m \in seen : m \in Linked(0) /\ m \in 0..LastKey
            BY <1>1, <1>2, <2>1
        <3>2. CASE iter.less
            <4>1. ASSUME NEW m \in seen PROVE ~(iter.x < m /\ m < iter.target)
                BY <1>2, <1>4, <1>7, <2>1, <3>1
            <4>2. QED
                BY <1>2, <2>3, <2>5, <3>1, <3>2, <4>1 DEF SearchesAreRight
        <3>3. CASE ~iter.less
            <4>1. ASSUME NEW m \in seen PROVE ~(iter.target <= m /\ m < n)
                BY <1>2, <1>4, <2>1, <3>1
            <4>2. QED
                BY <1>2, <1>4, <1>7, <2>4, <2>5, <3>1, <3>3, <4>1 DEF SearchesAreRight
        <3>4. QED
            BY <3>2, <3>3
    <2>9. QED
        BY <2>6, <2>7, <2>8, ListUnchanged DEF SkipInv
<1>8. QED
    BY <1>5, <1>6, <1>7

\* Every step of the writer and of the reader keeps the list and the search right.
LEMMA SkipStep ==
    ASSUME SkipInv, SearchesAreRight, [SkipNextState]_skipVars
    PROVE  SkipInv' /\ SearchesAreRight'
<1>1. ASSUME NEW k \in Key, NEW h \in 1..kMaxHeight, StartInsert(k, h)
      PROVE  SkipInv' /\ SearchesAreRight'
    <2>1. SkipInv'
        BY <1>1, StartInsertPreserves
    <2>2. SearchesAreRight'
        BY <1>1 DEF StartInsert, SearchesAreRight, Between
    <2>3. QED
        BY <2>1, <2>2
<1>2. CASE Link
    <2>1. SkipInv'
        BY <1>2, LinkPreserves
    <2>2. SearchesAreRight'
        BY <1>2 DEF Link, SearchesAreRight, Between
    <2>3. QED
        BY <2>1, <2>2
<1>3. ASSUME UNCHANGED <<next, height, max_height, insert>>,
             Seek \/ SeekToLast \/ SkipPrev \/ SeekToFirst \/ SkipNext \/ SearchStep
      PROVE  SkipInv' /\ SearchesAreRight'
    <2> USE SkipAssumption DEF head, NULL, SkipLevel
    <2>1. CASE Seek
        <3>1. PICK k \in Key : Search(k, FALSE)
            BY <2>1 DEF Seek
        <3>2. k \in 1..NULL
            BY DEF Key
        <3>3. QED
            BY <1>3, <3>1, <3>2, SearchPreserves
    <2>2. CASE SeekToLast
        <3>1. NULL \in 1..NULL
            OBVIOUS
        <3>2. Search(NULL, TRUE)
            BY <2>2 DEF SeekToLast
        <3>3. QED
            BY <1>3, <3>1, <3>2, SearchPreserves
    <2>3. CASE SkipPrev
        <3>1. iter.node \in 1..NULL /\ Search(iter.node, TRUE)
            BY <2>3 DEF SkipPrev, SkipInv, SkipTypeOK
        <3>2. QED
            BY <1>3, <3>1, SearchPreserves
    <2>4. CASE SeekToFirst
        <3>1. Between /\ Load(head) /\ head \in Linked(0)
            BY <2>4, ReaderFacts DEF SeekToFirst
        <3>2. QED
            BY <1>3, <3>1, LoadPreserves
    <2>5. CASE SkipNext
        <3>1. Between /\ Load(iter.node) /\ iter.node \in Linked(0)
            BY <2>5 DEF SkipNext, Valid, SkipInv, SearchIsOnLevel
        <3>2. QED
            BY <1>3, <3>1, LoadPreserves
    <2>6. CASE SearchStep
        BY <1>3, <2>6, SearchStepPreserves
    <2>7. QED
        BY <1>3, <2>1, <2>2, <2>3, <2>4, <2>5, <2>6
<1>4. CASE UNCHANGED skipVars
    BY <1>4 DEF skipVars, SkipInv, SkipTypeOK, LevelsAreLists, PrevIsRight, SearchIsOnLevel,
                Linked, SearchesAreRight, Between
<1>5. QED
    BY <1>1, <1>2, <1>3, <1>4 DEF SkipNextState

\* Whatever is inserted while a reader searches without a lock (skiplist.h), its search finds
\* nothing on the wrong side of what it was asked for and passes over no node whose insertion
\* had ended before, with any number of keys, any height and any order of the steps.
THEOREM SearchesAlwaysRight == SkipSpec => []SearchesAreRight
<1>1. SkipInit => SkipInv /\ SearchesAreRight
    BY SkipInitial
<1>2. SkipInv /\ SearchesAreRight /\ [SkipNextState]_skipVars => (SkipInv /\ SearchesAreRight)'
    BY SkipStep
<1>3. QED
    BY <1>1, <1>2, PTL DEF SkipSpec

\* The levels of the list stay sorted lists of the nodes linked at them (skiplist.h, "links
\* from the lowest level up"), at every moment of an insertion.
THEOREM ListAlwaysSorted == SkipSpec => [](SkipTypeOK /\ LevelsAreLists)
<1>1. SkipInit => SkipInv /\ SearchesAreRight
    BY SkipInitial
<1>2. SkipInv /\ SearchesAreRight /\ [SkipNextState]_skipVars => (SkipInv /\ SearchesAreRight)'
    BY SkipStep
<1>3. SkipInv => SkipTypeOK /\ LevelsAreLists
    BY DEF SkipInv
<1>4. QED
    BY <1>1, <1>2, <1>3, PTL DEF SkipSpec

-----------------------------------------------------------------------------
(* PosixEnv *)

\* The threads of a process whose name is in locks_: between its Insert and its Remove.
IsInside(state) == state \in {"inserted", "locked", "refused", "unlocked"}
Inside(p) == {t \in Opener[p] : IsInside(opener[p][t])}

EnvTypeOK ==
    /\ DOMAIN opener = Process /\ \A p \in Process : DOMAIN opener[p] = Opener[p]
    /\ bgthread_ \in {"none", "runs", "waits", "calls"}

\* locks_ lets one thread of a process in, and only its own Remove lets it out.
OneInside ==
    \A p \in Process : /\ \A s, t \in Inside(p) : s = t
                       /\ Inside(p) # {} => p \in locked_files_

SleepsOnNothing == bgthread_ = "waits" => queue_ = <<>>

EnvInv == EnvTypeOK /\ OneInside /\ SleepsOnNothing

-----------------------------------------------------------------------------
\* A thread that goes from one state to another moves no other thread.
LEMMA GoesMovesOne ==
    ASSUME EnvTypeOK, NEW p \in Process, NEW t \in Opener[p], NEW from, NEW to,
           Goes(p, t, from, to)
    PROVE  /\ DOMAIN opener' = Process /\ \A q \in Process : DOMAIN opener'[q] = Opener[q]
           /\ opener[p][t] = from /\ opener'[p][t] = to
           /\ \A q \in Process : \A s \in Opener[q] :
                 ~(q = p /\ s = t) => opener'[q][s] = opener[q][s]
BY DEF EnvTypeOK, Goes

\* Moves that neither enter nor leave keep who is inside.
LEMMA MoveKeepsInside ==
    ASSUME EnvTypeOK, OneInside, NEW p \in Process, NEW t \in Opener[p], NEW from, NEW to,
           Goes(p, t, from, to), IsInside(to) => IsInside(from), UNCHANGED locked_files_
    PROVE  OneInside'
<1>1. \A q \in Process : Inside(q)' \subseteq Inside(q)
    BY GoesMovesOne DEF Inside
<1>2. QED
    BY <1>1 DEF OneInside

\* Remove by the one thread inside leaves none.
LEMMA RemoveKeepsInside ==
    ASSUME EnvTypeOK, OneInside, NEW p \in Process, NEW t \in Opener[p], NEW from, NEW to,
           Goes(p, t, from, to), IsInside(from), ~IsInside(to),
           locked_files_' = locked_files_ \ {p}
    PROVE  OneInside'
<1>1. t \in Inside(p)
    BY DEF Inside, Goes
<1>2. Inside(p)' = {}
    BY <1>1, GoesMovesOne DEF Inside, OneInside
<1>3. \A q \in Process \ {p} : Inside(q)' = Inside(q)
    BY GoesMovesOne DEF Inside
<1>4. QED
    BY <1>2, <1>3 DEF OneInside

\* Insert succeeds only when no thread is inside.
LEMMA InsertKeepsInside ==
    ASSUME EnvTypeOK, OneInside, NEW p \in Process, NEW t \in Opener[p], InsertName(p, t)
    PROVE  OneInside'
<1>1. /\ Goes(p, t, "opened", "inserted") /\ p \notin locked_files_
      /\ locked_files_' = locked_files_ \union {p}
    BY DEF InsertName
<1>2. Inside(p)' = {t}
    BY <1>1, GoesMovesOne DEF Inside, OneInside, IsInside
<1>3. \A q \in Process \ {p} : Inside(q)' = Inside(q)
    BY <1>1, GoesMovesOne DEF Inside
<1>4. QED
    BY <1>1, <1>2, <1>3 DEF OneInside

\* No step of LockFile or UnlockFile lets a second thread in.
LEMMA LockStepPreserves ==
    ASSUME EnvInv, LockStep, UNCHANGED queueVars
    PROVE  EnvInv'
<1>1. SUFFICES ASSUME NEW p \in Process, NEW t \in Opener[p],
        \/ OpenLockFile(p, t) \/ InsertFails(p, t) \/ CloseFailed(p, t) \/ InsertName(p, t)
        \/ LockSucceeds(p, t) \/ LockFails(p, t) \/ RemoveRefused(p, t)
        \/ Unlock(p, t) \/ RemoveName(p, t) \/ CloseUnlocked(p, t)
               PROVE  EnvInv'
    BY DEF LockStep
<1>2. EnvTypeOK /\ OneInside
    BY DEF EnvInv
<1>3. PICK from, to : Goes(p, t, from, to)
    BY <1>1 DEF OpenLockFile, InsertFails, CloseFailed, InsertName, LockSucceeds, LockFails,
                RemoveRefused, Unlock, RemoveName, CloseUnlocked
<1>4. EnvTypeOK'
    BY <1>2, <1>3, GoesMovesOne DEF EnvTypeOK, queueVars
<1>5. OneInside'
    <2>1. CASE OpenLockFile(p, t)
        BY <1>2, <2>1, MoveKeepsInside DEF OpenLockFile, IsInside
    <2>2. CASE InsertFails(p, t)
        BY <1>2, <2>2, MoveKeepsInside DEF InsertFails, IsInside
    <2>3. CASE CloseFailed(p, t)
        BY <1>2, <2>3, MoveKeepsInside DEF CloseFailed, IsInside
    <2>4. CASE InsertName(p, t)
        BY <1>2, <2>4, InsertKeepsInside
    <2>5. CASE LockSucceeds(p, t)
        BY <1>2, <2>5, MoveKeepsInside DEF LockSucceeds, IsInside
    <2>6. CASE LockFails(p, t)
        BY <1>2, <2>6, MoveKeepsInside DEF LockFails, IsInside
    <2>7. CASE RemoveRefused(p, t)
        BY <1>2, <2>7, RemoveKeepsInside DEF RemoveRefused, IsInside
    <2>8. CASE Unlock(p, t)
        BY <1>2, <2>8, MoveKeepsInside DEF Unlock, IsInside
    <2>9. CASE RemoveName(p, t)
        BY <1>2, <2>9, RemoveKeepsInside DEF RemoveName, IsInside
    <2>10. CASE CloseUnlocked(p, t)
        BY <1>2, <2>10, MoveKeepsInside DEF CloseUnlocked, IsInside
    <2>11. QED
        BY <1>1, <2>1, <2>2, <2>3, <2>4, <2>5, <2>6, <2>7, <2>8, <2>9, <2>10
<1>6. SleepsOnNothing'
    BY DEF EnvInv, SleepsOnNothing, queueVars
<1>7. QED
    BY <1>4, <1>5, <1>6 DEF EnvInv

\* Schedule wakes the thread that sleeps, which sleeps only when it saw nothing to do.
LEMMA QueueStepPreserves ==
    ASSUME EnvInv, QueueStep, UNCHANGED lockVars
    PROVE  EnvInv'
<1>1. /\ bgthread_' \in {"none", "runs", "waits", "calls"}
      /\ bgthread_' = "waits" => queue_' = <<>>
    <2>1. ASSUME NEW d \in Database, Schedule(d)
          PROVE  bgthread_' \in {"none", "runs", "calls"}
        BY <2>1 DEF Schedule, EnvInv, EnvTypeOK, SleepsOnNothing
    <2>2. CASE Wait
        BY <2>2 DEF Wait
    <2>3. CASE WakesForNothing
        BY <2>3 DEF WakesForNothing
    <2>4. CASE Call
        BY <2>4 DEF Call
    <2>5. CASE CallEnds
        BY <2>5 DEF CallEnds
    <2>6. QED
        BY <2>1, <2>2, <2>3, <2>4, <2>5 DEF QueueStep
<1>2. EnvTypeOK'
    BY <1>1 DEF EnvInv, EnvTypeOK, lockVars
<1>3. OneInside'
    BY DEF EnvInv, OneInside, Inside, lockVars
<1>4. SleepsOnNothing'
    BY <1>1 DEF SleepsOnNothing
<1>5. QED
    BY <1>2, <1>3, <1>4 DEF EnvInv

\* LockFile and UnlockFile of any number of threads (env_posix.cc, locks_ before fcntl) let at
\* most one of a process hold the database, which is then in locks_; and BackgroundThreadMain
\* never waits while Schedule has put work in its queue.
THEOREM ThreadsAlwaysKeptApart == EnvSpec => []ThreadsAreKeptApart
<1>1. EnvInit => EnvInv
    BY DEF EnvInit, EnvInv, EnvTypeOK, OneInside, Inside, IsInside, SleepsOnNothing
<1>2. EnvInv /\ [EnvNext]_envVars => EnvInv'
    <2>1. SUFFICES ASSUME EnvInv, [EnvNext]_envVars PROVE EnvInv'
        OBVIOUS
    <2>2. CASE LockStep /\ UNCHANGED queueVars
        BY <2>1, <2>2, LockStepPreserves
    <2>3. CASE QueueStep /\ UNCHANGED lockVars
        BY <2>1, <2>3, QueueStepPreserves
    <2>4. CASE UNCHANGED envVars
        BY <2>1, <2>4 DEF envVars, EnvInv, EnvTypeOK, OneInside, Inside, SleepsOnNothing
    <2>5. QED
        BY <2>1, <2>2, <2>3, <2>4 DEF EnvNext
<1>3. EnvInv => ThreadsAreKeptApart
    <2>1. SUFFICES ASSUME EnvInv PROVE ThreadsAreKeptApart
        OBVIOUS
    <2>2. \A p \in Process : Holders(p) \subseteq Inside(p)
        BY DEF Holders, Inside, IsInside
    <2>3. QED
        BY <2>1, <2>2 DEF EnvInv, OneInside, SleepsOnNothing, ThreadsAreKeptApart
<1>4. QED
    BY <1>1, <1>2, <1>3, PTL DEF EnvSpec
=============================================================================
