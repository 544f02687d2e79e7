---------------------------- MODULE StoreProofs -----------------------------
(***************************************************************************)
(* The invariants of the stores of a CCacheWrapper, for any sets of        *)
(* accounts, CDPs, orders, proposals and transactions.                     *)
(*                                                                         *)
(* CdpStore: what the indexes hold depends on the oldCDP the caller        *)
(* passes, so the invariant that is inductive joins the types, the         *)
(* indexes, the owners and the caller's list; the totals of a pair then    *)
(* follow the sums over its CDPs, modulo the word.                         *)
(* AccountStore: the two ids of an account lead to each other, and what    *)
(* was minted is the sum over the accounts.                                *)
(* DexStore: OperatorsAgree is about what the two lookups find; that it    *)
(* holds follows from what the records and the map contain, MapHasRecords, *)
(* which is inductive with the types.  The orders are independent of it.   *)
(* SysGovern: two quorums meet because nobody is counted twice and the     *)
(* minimum, a uint8_t, is more than half of at most 382 governors.         *)
(* TxMemCache: an operation changes what one level shows; what the levels  *)
(* above show follows.                                                     *)
(***************************************************************************)
EXTENDS CdpStore, AccountStore, DexStore, SysGovern, TxMemCache, FiniteSetTheorems,
        WellFoundedInduction, TLAPS

-----------------------------------------------------------------------------
(* Sums over finite sets: that the fold of MapThenSumSet has its equation, and in any order. *)
(* What holds of every finite set is shown of a smallest one for which it does not.         *)

Some(s) == CHOOSE x \in s : TRUE

\* g is the sum of f over each subset of S.
IsSum(g, f, S) ==
    g = [s \in SUBSET S |-> IF s = {} THEN 0 ELSE f[Some(s)] + g[s \ {Some(s)}]]

Total(f, S) == (CHOOSE g : IsSum(g, f, S))[S]

Counts(f, S) == IsFiniteSet(S) /\ \A x \in S : f[x] \in Int

\* The element that the sum takes first.
LEMMA SomeIsIn == \A s : s # {} => Some(s) \in s
BY DEF Some

\* Induction over finite sets: of those that fail one is the smallest.
LEMMA SmallestExists ==
    ASSUME NEW Bad, Bad # {}, \A s \in Bad : IsFiniteSet(s)
    PROVE  \E s \in Bad : \A t \in Bad : Cardinality(s) <= Cardinality(t)
<1> DEFINE T == {Cardinality(s) : s \in Bad}
<1>1. \A s \in Bad : Cardinality(s) \in Nat
    BY FS_CardinalityType
<1>2. T \in SUBSET Nat /\ T # {}
    BY <1>1
<1>3. PICK n \in T : \A m \in T : ~ (<<m, n>> \in OpToRel(<, Nat))
    BY <1>2, NatLessThanWellFounded, WFMin
<1>4. \A m \in T : n <= m
    <2> HIDE DEF T
    <2>1. TAKE m \in T
    <2>2. m \in Nat /\ n \in Nat
        BY <1>2
    <2>3. ~ (m < n)
        BY <1>3, <2>2 DEF OpToRel
    <2>4. QED
        BY <2>2, <2>3
<1>5. QED
    BY <1>4

\* A finite set without one of its elements.
LEMMA Removed ==
    ASSUME NEW s, IsFiniteSet(s), NEW x \in s
    PROVE  /\ IsFiniteSet(s \ {x}) /\ Cardinality(s \ {x}) = Cardinality(s) - 1
           /\ Cardinality(s) \in Nat /\ Cardinality(s) > 0
<1>1. IsFiniteSet(s \ {x}) /\ Cardinality(s \ {x}) = Cardinality(s) - 1
    BY FS_RemoveElement
<1>2. Cardinality(s) \in Nat /\ Cardinality(s \ {x}) \in Nat
    BY <1>1, FS_CardinalityType
<1>3. QED
    BY <1>1, <1>2

\* The equation has one solution ...
LEMMA SumUnique ==
    ASSUME NEW f, NEW S, NEW T \in SUBSET S, Counts(f, S), NEW g, NEW h,
           IsSum(g, f, S), IsSum(h, f, T)
    PROVE  \A s \in SUBSET T : g[s] = h[s] /\ h[s] \in Int
<1> DEFINE Bad == {s \in SUBSET T : ~ (g[s] = h[s] /\ h[s] \in Int)}
<1> SUFFICES ASSUME Bad # {} PROVE FALSE
    OBVIOUS
<1>1. \A s \in Bad : IsFiniteSet(s)
    BY FS_Subset DEF Counts
<1>2. PICK s \in Bad : \A t \in Bad : Cardinality(s) <= Cardinality(t)
    <2> HIDE DEF Bad
    <2>1. QED
        BY <1>1, SmallestExists
<1>3. s \in SUBSET T /\ s \in SUBSET S /\ IsFiniteSet(s)
    BY <1>1
<1>4. /\ g[s] = IF s = {} THEN 0 ELSE f[Some(s)] + g[s \ {Some(s)}]
      /\ h[s] = IF s = {} THEN 0 ELSE f[Some(s)] + h[s \ {Some(s)}]
    BY <1>3 DEF IsSum
<1>5. CASE s = {}
    BY <1>4, <1>5
<1>6. CASE s # {}
    <2> DEFINE x == Some(s)
               t == s \ {x}
    <2>1. x \in s
        BY <1>6, SomeIsIn
    <2>2. Cardinality(t) < Cardinality(s) /\ Cardinality(t) \in Nat
        <3>1. /\ IsFiniteSet(t) /\ Cardinality(t) = Cardinality(s) - 1
              /\ Cardinality(s) \in Nat /\ Cardinality(s) > 0
            BY <1>3, <2>1, Removed
        <3>2. QED
            BY <3>1
    <2>3. t \notin Bad
        BY <1>2, <2>2, FS_CardinalityType, <1>1, <1>3
    <2>4. t \in SUBSET T
        BY <1>3
    <2>5. g[t] = h[t] /\ h[t] \in Int
        BY <2>3, <2>4
    <2>6. f[x] \in Int
        BY <1>3, <2>1 DEF Counts
    <2>7. QED
        BY <1>4, <1>6, <2>5, <2>6
<1>7. QED
    BY <1>5, <1>6

\* A smallest number of a set of numbers.
LEMMA LeastExists ==
    ASSUME NEW Bad \in SUBSET Nat, Bad # {}
    PROVE  \E n \in Bad : \A m \in Bad : n <= m
<1>1. PICK n \in Bad : \A m \in Bad : ~ (<<m, n>> \in OpToRel(<, Nat))
    BY NatLessThanWellFounded, WFMin
<1>2. \A m \in Bad : ~ (m < n)
    BY <1>1 DEF OpToRel
<1>3. QED
    BY <1>2

\* ... and has one.
LEMMA SumExists ==
    ASSUME NEW f, NEW S, Counts(f, S)
    PROVE  \E g : IsSum(g, f, S)
<1> DEFINE D(n) == {s \in SUBSET S : Cardinality(s) <= n}
           Solves(g, n) ==
               \A s \in D(n) : g[s] = IF s = {} THEN 0 ELSE f[Some(s)] + g[s \ {Some(s)}]
           Bad == {n \in Nat : ~ \E g : Solves(g, n)}
<1>1. \A s \in SUBSET S :
          IsFiniteSet(s) /\ Cardinality(s) \in Nat /\ Cardinality(s) <= Cardinality(S)
    BY FS_Subset, FS_CardinalityType DEF Counts
<1>2. \A s \in SUBSET S : s # {} => /\ s \ {Some(s)} \in SUBSET S
                                    /\ Cardinality(s \ {Some(s)}) = Cardinality(s) - 1
                                    /\ Cardinality(s) > 0
    BY <1>1, SomeIsIn, Removed
<1>3. Cardinality({}) = 0
    BY FS_EmptySet
<1>4. ASSUME Bad # {} PROVE FALSE
    <2>1. PICK n \in Bad : \A m \in Bad : n <= m
        <3> HIDE DEF Bad
        <3>1. Bad \in SUBSET Nat
            BY DEF Bad
        <3>2. QED
            BY <1>4, <3>1, LeastExists
    <2>2. CASE n = 0
        <3> DEFINE g == [s \in SUBSET S |-> 0]
        <3>1. \A s \in D(n) : s = {}
            <4> TAKE s \in D(n)
            <4>1. s \in SUBSET S /\ Cardinality(s) <= 0
                BY <2>2
            <4>2. Cardinality(s) \in Nat /\ (s # {} => Cardinality(s) > 0)
                BY <1>1, <1>2, <4>1
            <4>3. QED
                BY <4>1, <4>2
        <3>2. Solves(g, n)
            BY <3>1
        <3>3. QED
            BY <3>2
    <2>3. CASE n # 0
        <3>1. n - 1 \in Nat /\ n - 1 \notin Bad
            <4>1. n \in Nat
                OBVIOUS
            <4> HIDE DEF Bad
            <4>2. n - 1 \in Bad => n <= n - 1
                BY <2>1
            <4>3. QED
                BY <2>3, <4>1, <4>2
        <3>2. PICK h : Solves(h, n - 1)
            BY <3>1
        <3> DEFINE g == [s \in SUBSET S |->
                           IF s \in D(n - 1) THEN h[s] ELSE f[Some(s)] + h[s \ {Some(s)}]]
        <3>3. ASSUME NEW s \in D(n)
              PROVE  g[s] = IF s = {} THEN 0 ELSE f[Some(s)] + g[s \ {Some(s)}]
            <4>1. CASE s = {}
                <5>1. s \in D(n - 1)
                    BY <1>3, <3>1, <4>1
                <5>2. QED
                    BY <3>2, <4>1, <5>1
            <4>2. CASE s # {}
                <5> DEFINE t == s \ {Some(s)}
                <5>1. t \in D(n - 1)
                    BY <1>1, <1>2, <4>2
                <5>2. g[t] = h[t]
                    BY <5>1
                <5>3. s \in D(n - 1) => h[s] = f[Some(s)] + h[t]
                    BY <3>2, <4>2
                <5>4. g[s] = f[Some(s)] + h[t]
                    BY <5>3
                <5>5. QED
                    BY <4>2, <5>2, <5>4
            <4>3. QED
                BY <4>1, <4>2
        <3>4. Solves(g, n)
            BY <3>3
        <3>5. QED
            BY <3>4
    <2>4. QED
        BY <2>2, <2>3
<1>5. PICK h : Solves(h, Cardinality(S))
    BY <1>1, <1>4, FS_CardinalityType DEF Counts
<1> DEFINE g == [s \in SUBSET S |-> h[s]]
<1>6. ASSUME NEW s \in SUBSET S
      PROVE  g[s] = IF s = {} THEN 0 ELSE f[Some(s)] + g[s \ {Some(s)}]
    <2>1. s \in D(Cardinality(S))
        BY <1>1
    <2>2. h[s] = IF s = {} THEN 0 ELSE f[Some(s)] + h[s \ {Some(s)}]
        BY <1>5, <2>1
    <2>3. s # {} => g[s \ {Some(s)}] = h[s \ {Some(s)}]
        OBVIOUS
    <2>4. QED
        BY <2>2, <2>3
<1>7. g = [s \in SUBSET S |-> IF s = {} THEN 0 ELSE f[Some(s)] + g[s \ {Some(s)}]]
    BY <1>6
<1>8. QED
    BY <1>7 DEF IsSum

\* What defines the sum: any function with its equation has it.
LEMMA SumIs ==
    ASSUME NEW f, NEW S, Counts(f, S), NEW g, IsSum(g, f, S)
    PROVE  g[S] = Total(f, S)
<1>1. IsSum(CHOOSE h : IsSum(h, f, S), f, S)
    BY SumExists
<1>2. g[S] = (CHOOSE h : IsSum(h, f, S))[S]
    <2> DEFINE h == CHOOSE h : IsSum(h, f, S)
    <2> HIDE DEF h
    <2>1. IsSum(h, f, S)
        BY <1>1 DEF h
    <2>2. g[S] = h[S]
        BY <2>1, SumUnique
    <2>3. QED
        BY <2>2 DEF h
<1>3. QED
    BY <1>2 DEF Total

\* Its equation.
LEMMA SumStep ==
    ASSUME NEW f, NEW S, Counts(f, S)
    PROVE  /\ Total(f, S) \in Int
           /\ S = {} => Total(f, S) = 0
           /\ S # {} => Total(f, S) = f[Some(S)] + Total(f, S \ {Some(S)})
<1>1. PICK g : IsSum(g, f, S)
    BY SumExists
<1>2. g[S] = Total(f, S)
    BY <1>1, SumIs
<1>3. g[S] = IF S = {} THEN 0 ELSE f[Some(S)] + g[S \ {Some(S)}]
    BY <1>1 DEF IsSum
<1>4. Total(f, S) \in Int
    BY <1>1, <1>2, SumUnique
<1>5. ASSUME S # {} PROVE g[S \ {Some(S)}] = Total(f, S \ {Some(S)})
    <2> DEFINE T == S \ {Some(S)}
    <2>1. Counts(f, T) /\ T \in SUBSET S
        BY FS_Subset DEF Counts
    <2>2. PICK h : IsSum(h, f, T)
        BY <2>1, SumExists
    <2> HIDE DEF T
    <2>3. h[T] = Total(f, T)
        BY <2>1, <2>2, SumIs
    <2>4. g[T] = h[T]
        BY <1>1, <2>1, <2>2, SumUnique
    <2>5. QED
        BY <2>3, <2>4 DEF T
<1>6. QED
    BY <1>2, <1>3, <1>4, <1>5

\* The order of the elements does not matter.
LEMMA SumTake ==
    ASSUME NEW f, NEW S, Counts(f, S), NEW y \in S
    PROVE  Total(f, S) = f[y] + Total(f, S \ {y})
<1> DEFINE Bad == {s \in SUBSET S : \E z \in s : Total(f, s) # f[z] + Total(f, s \ {z})}
<1> SUFFICES ASSUME Bad # {} PROVE FALSE
    BY DEF Counts
<1>1. \A s \in SUBSET S : Counts(f, s) /\ IsFiniteSet(s)
    BY FS_Subset DEF Counts
<1>2. PICK s \in Bad : \A t \in Bad : Cardinality(s) <= Cardinality(t)
    <2>1. \A s \in Bad : IsFiniteSet(s)
        BY <1>1
    <2> HIDE DEF Bad
    <2>2. QED
        BY <2>1, SmallestExists
<1>3. PICK z \in s : Total(f, s) # f[z] + Total(f, s \ {z})
    OBVIOUS
<1> DEFINE x == Some(s)
<1>4. x \in s /\ s \in SUBSET S
    BY <1>3, SomeIsIn
<1>5. Total(f, s) = f[x] + Total(f, s \ {x})
    BY <1>1, <1>3, <1>4, SumStep
<1>6. x # z
    BY <1>3, <1>5
<1> HIDE DEF x
<1>7. ASSUME NEW w \in s, NEW v \in s, v # w
      PROVE  Total(f, s \ {w}) = f[v] + Total(f, (s \ {w}) \ {v})
    <2>1. /\ IsFiniteSet(s \ {w}) /\ Cardinality(s \ {w}) = Cardinality(s) - 1
          /\ Cardinality(s) \in Nat
        BY <1>1, <1>4, Removed
    <2>2. s \ {w} \notin Bad
        <3>1. Cardinality(s \ {w}) < Cardinality(s) /\ Cardinality(s \ {w}) \in Int
            BY <2>1
        <3> HIDE DEF Bad
        <3>2. s \ {w} \in Bad => Cardinality(s) <= Cardinality(s \ {w})
            BY <1>2
        <3>3. QED
            BY <2>1, <3>1, <3>2
    <2>3. s \ {w} \in SUBSET S /\ v \in s \ {w}
        BY <1>4, <1>7
    <2>4. QED
        BY <2>2, <2>3
<1>8. Total(f, s \ {x}) = f[z] + Total(f, (s \ {x}) \ {z})
    BY <1>4, <1>6, <1>7
<1>9. Total(f, s \ {z}) = f[x] + Total(f, (s \ {z}) \ {x})
    BY <1>4, <1>6, <1>7
<1>10. (s \ {x}) \ {z} = (s \ {z}) \ {x}
    OBVIOUS
<1>11. f[x] \in Int /\ f[z] \in Int /\ Total(f, (s \ {z}) \ {x}) \in Int
    <2>1. Counts(f, (s \ {z}) \ {x})
        BY <1>1, <1>4
    <2>2. QED
        BY <1>4, <2>1, SumStep DEF Counts
<1>12. Total(f, s) = f[x] + (f[z] + Total(f, (s \ {z}) \ {x}))
    BY <1>5, <1>8, <1>10
<1>13. Total(f, s) # f[z] + (f[x] + Total(f, (s \ {z}) \ {x}))
    BY <1>3, <1>9
<1>14. QED
    BY <1>11, <1>12, <1>13

-----------------------------------------------------------------------------
(* Remainders: unsigned arithmetic wraps around. *)

\* What a remainder is.
LEMMA Remainder ==
    ASSUME NEW w \in Nat \ {0}, NEW a \in Int
    PROVE  a % w \in 0..w - 1 /\ \E q \in Int : a = w * q + (a % w)
<1>1. a \div w \in Int /\ a = w * (a \div w) + (a % w)
    OBVIOUS
<1>2. a % w \in 0..w - 1
    OBVIOUS
<1>3. QED
    BY <1>1, <1>2

\* Nothing else is one.
LEMMA RemainderIs ==
    ASSUME NEW w \in Nat \ {0}, NEW q \in Int, NEW r \in 0..w - 1
    PROVE  (w * q + r) % w = r
<1> DEFINE a == w * q + r
<1>1. a \in Int
    OBVIOUS
<1>2. PICK p \in Int : a = w * p + (a % w)
    BY <1>1, Remainder
<1>3. a % w \in 0..w - 1
    BY <1>1, Remainder
<1>4. w * (q - p) = (a % w) - r
    BY <1>2, <1>3
<1>5. q - p \in Int /\ -w < w * (q - p) /\ w * (q - p) < w
    BY <1>3, <1>4
<1>6. q - p = 0
    BY <1>5
<1>7. QED
    BY <1>3, <1>4, <1>6

\* A sum may be wrapped around at once or at every step ...
LEMMA AddToRemainder ==
    ASSUME NEW w \in Nat \ {0}, NEW a \in Int, NEW b \in Int
    PROVE  ((a % w) + b) % w = (a + b) % w
<1> DEFINE m == (a % w) + b
           r == m % w
<1>1. PICK q \in Int : a = w * q + (a % w)
    BY Remainder
<1>2. m \in Int /\ a + b = w * q + m
    <2>1. (a % w) \in Int /\ w * q \in Int
        BY Remainder
    <2>2. QED
        BY <1>1, <2>1
<1> HIDE DEF m
<1>3. PICK p \in Int : m = w * p + (m % w)
    BY <1>2, Remainder
<1>4. r \in 0..w - 1
    BY <1>2, Remainder
<1> HIDE DEF r
<1>5. a + b = w * (q + p) + r
    <2>1. m = w * p + r /\ r \in Int /\ w * p \in Int /\ w * q \in Int
        BY <1>3, <1>4 DEF r
    <2>2. w * (q + p) = w * q + w * p
        OBVIOUS
    <2>3. QED
        BY <1>2, <2>1, <2>2
<1>6. (w * (q + p) + r) % w = r
    BY <1>4, RemainderIs
<1>7. QED
    BY <1>5, <1>6 DEF m, r

\* ... and what was added can be taken off again.
LEMMA TakeFromRemainder ==
    ASSUME NEW w \in Nat \ {0}, NEW a \in Int, NEW b \in Int
    PROVE  (((b + a) % w) - b) % w = a % w
<1> DEFINE u == b + a
<1>1. u \in Int /\ -b \in Int /\ u + (-b) = a
    OBVIOUS
<1> HIDE DEF u
<1>2. ((u % w) + (-b)) % w = (u + (-b)) % w
    BY <1>1, AddToRemainder
<1>3. (u % w) - b = (u % w) + (-b)
    <2>1. u % w \in Int
        BY <1>1, Remainder
    <2>2. QED
        BY <2>1
<1>4. QED
    BY <1>1, <1>2, <1>3 DEF u

-----------------------------------------------------------------------------
(* CdpStore *)

CdpInv == CdpTypeOK /\ IndexesAgree /\ OwnersAgree /\ HeldAreCurrent

-----------------------------------------------------------------------------
(* The indexes                                                             *)

RatioIndex(S) == {Entry(MakeCdpRatioIndexKey(c), c) : c \in S}
HeightIndex(S) == {Entry(MakeCdpHeightIndexKey(c), c) : c \in S}

\* The keys of two CDPs differ: both end in the id.
LEMMA KeysNameTheCDP ==
    ASSUME NEW c, NEW d, c.cdpid # d.cdpid
    PROVE  /\ MakeCdpRatioIndexKey(c) # MakeCdpRatioIndexKey(d)
           /\ MakeCdpHeightIndexKey(c) # MakeCdpHeightIndexKey(d)
  BY DEF MakeCdpRatioIndexKey, MakeCdpHeightIndexKey

\* SetData of a CDP whose id is not in an index adds one entry.
LEMMA SaveAddsEntry ==
    ASSUME NEW S, NEW c, \A d \in S : d.cdpid # c.cdpid
    PROVE  /\ SetData(RatioIndex(S), MakeCdpRatioIndexKey(c), c) = RatioIndex(S \union {c})
           /\ SetData(HeightIndex(S), MakeCdpHeightIndexKey(c), c) = HeightIndex(S \union {c})
<1>1. \A d \in S : /\ MakeCdpRatioIndexKey(d) # MakeCdpRatioIndexKey(c)
                   /\ MakeCdpHeightIndexKey(d) # MakeCdpHeightIndexKey(c)
  BY KeysNameTheCDP
<1> QED
  BY <1>1 DEF SetData, EraseData, Entry, RatioIndex, HeightIndex

\* EraseData by the key of a CDP takes its entry away and no other.
LEMMA EraseTakesEntry ==
    ASSUME NEW S, NEW c, \A d \in S : d # c => d.cdpid # c.cdpid
    PROVE  /\ EraseData(RatioIndex(S), MakeCdpRatioIndexKey(c)) = RatioIndex(S \ {c})
           /\ EraseData(HeightIndex(S), MakeCdpHeightIndexKey(c)) = HeightIndex(S \ {c})
<1>1. \A d \in S : d # c => /\ MakeCdpRatioIndexKey(d) # MakeCdpRatioIndexKey(c)
                            /\ MakeCdpHeightIndexKey(d) # MakeCdpHeightIndexKey(c)
  BY KeysNameTheCDP
<1> QED
  BY <1>1 DEF EraseData, Entry, RatioIndex, HeightIndex

\* The totals stay 64-bit numbers, also when an update takes off more than there is.
LEMMA TotalsWrap ==
    ASSUME NEW x, x.totals \in [Pair -> [staked : 0..(Word - 1), owed : 0..(Word - 1)]],
           NEW c \in CDP
    PROVE  /\ SaveCdpIndexData(x, c).totals \in [Pair -> [staked : 0..(Word - 1), owed : 0..(Word - 1)]]
           /\ EraseCdpIndexData(x, c).totals \in [Pair -> [staked : 0..(Word - 1), owed : 0..(Word - 1)]]
<1>1. c.staked \in Nat /\ c.owed \in Nat /\ c.pair \in Pair
  BY CDPAssumption
<1>2. \A a \in Int : a % Word \in 0..(Word - 1)
  BY WordAssumption
<1>3. x.totals[c.pair].staked \in Int /\ x.totals[c.pair].owed \in Int
  BY <1>1, WordAssumption
<1>4. /\ (x.totals[c.pair].staked + c.staked) % Word \in 0..(Word - 1)
      /\ (x.totals[c.pair].owed + c.owed) % Word \in 0..(Word - 1)
      /\ (x.totals[c.pair].staked - c.staked) % Word \in 0..(Word - 1)
      /\ (x.totals[c.pair].owed - c.owed) % Word \in 0..(Word - 1)
  BY <1>1, <1>2, <1>3
<1> QED
  BY <1>1, <1>4 DEF SaveCdpIndexData, EraseCdpIndexData

-----------------------------------------------------------------------------
(* The CDPs stored                                                         *)

\* A stored CDP is found under its own id.
LEMMA StoredByIds ==
    ASSUME CdpTypeOK, NEW c \in Stored
    PROVE  c \in CDP /\ c.cdpid \in Id /\ cdp_cache[c.cdpid] = c
  BY DEF CdpTypeOK, Stored

\* Writing a CDP replaces the one with its id.
LEMMA StoredAfterSet ==
    ASSUME CdpTypeOK, NEW c \in CDP, cdp_cache' = [cdp_cache EXCEPT ![c.cdpid] = c]
    PROVE  Stored' = {d \in Stored : d.cdpid # c.cdpid} \union {c}
<1>1. c.cdpid \in Id /\ c # Absent
  BY CDPAssumption, AbsentAssumption
<1> QED
  BY <1>1 DEF CdpTypeOK, Stored

\* Erasing an id takes away the CDP with it.
LEMMA StoredAfterErase ==
    ASSUME CdpTypeOK, NEW i \in Id, cdp_cache' = [cdp_cache EXCEPT ![i] = Absent]
    PROVE  Stored' = {d \in Stored : d.cdpid # i}
  BY DEF CdpTypeOK, Stored

\* What the caller passes as oldCDP is stored.
LEMMA KnownIsStored ==
    ASSUME CdpInv, NEW old, Known(old)
    PROVE  old \in Stored
  BY DEF CdpInv, HeldAreCurrent, Known

-----------------------------------------------------------------------------
(* The steps                                                               *)

LEMMA CdpInvInit == CdpInit => CdpInv
<1> SUFFICES ASSUME CdpInit PROVE CdpInv
  OBVIOUS
<1>1. Stored = {}
  BY DEF CdpInit, Stored
<1>2. CdpTypeOK
  BY WordAssumption, AbsentAssumption DEF CdpInit, CdpTypeOK
<1>3. OwnersAgree
  BY AbsentAssumption DEF CdpInit, OwnersAgree
<1> QED
  BY <1>1, <1>2, <1>3 DEF CdpInit, CdpInv, IndexesAgree, HeldAreCurrent

LEMMA CdpInvNewCDP ==
    ASSUME CdpInv, NEW c \in CDP, NewCDP(c)
    PROVE  CdpInv'
<1>1. CdpTypeOK /\ c.cdpid \in Id /\ UserKey(c) \in RegID \X Pair /\ c # Absent /\ c.cdpid # Absent
  BY CDPAssumption, AbsentAssumption DEF CdpInv, UserKey
<1>2. \A d \in Stored : d.cdpid # c.cdpid
  BY <1>1, StoredByIds DEF NewCDP, Stored
<1>3. Stored' = Stored \union {c}
  BY <1>1, <1>2, StoredAfterSet DEF NewCDP
<1>4. CdpTypeOK'
  <2>1. index'.totals \in [Pair -> [staked : 0..(Word - 1), owed : 0..(Word - 1)]]
    BY <1>1, TotalsWrap DEF NewCDP, CdpTypeOK
  <2> QED
    BY <1>1, <2>1 DEF NewCDP, CdpTypeOK
<1>5. IndexesAgree'
  <2>1. index.ratio = RatioIndex(Stored) /\ index.height = HeightIndex(Stored)
    BY DEF CdpInv, IndexesAgree, RatioIndex, HeightIndex
  <2>2. /\ index'.ratio = RatioIndex(Stored \union {c})
        /\ index'.height = HeightIndex(Stored \union {c})
    BY <1>2, <2>1, SaveAddsEntry DEF NewCDP, SaveCdpIndexData
  <2> QED
    BY <1>3, <2>2 DEF IndexesAgree, RatioIndex, HeightIndex
<1>6. OwnersAgree'
  BY <1>1, AbsentAssumption DEF NewCDP, CdpInv, CdpTypeOK, OwnersAgree
<1>7. HeldAreCurrent'
  BY <1>3 DEF NewCDP, CdpInv, HeldAreCurrent
<1> QED
  BY <1>4, <1>5, <1>6, <1>7 DEF CdpInv

LEMMA CdpInvUpdateCDP ==
    ASSUME CdpInv, NEW old \in CDP, NEW new \in CDP, UpdateCDP(old, new)
    PROVE  CdpInv'
<1>1. /\ CdpTypeOK
      /\ old.cdpid = new.cdpid /\ UserKey(old) = UserKey(new)
      /\ new.cdpid \in Id /\ new # Absent
  BY CDPAssumption, AbsentAssumption DEF CdpInv, UpdateCDP, SameCDP
<1>2. old \in Stored /\ cdp_cache[old.cdpid] = old
  BY <1>1, KnownIsStored, StoredByIds DEF UpdateCDP
<1>3. \A d \in Stored : d # old => d.cdpid # old.cdpid
  BY <1>1, <1>2, StoredByIds
<1>4. Stored' = (Stored \ {old}) \union {new}
  <2>1. {d \in Stored : d.cdpid # new.cdpid} = Stored \ {old}
    BY <1>1, <1>3
  <2> QED
    BY <1>1, <2>1, StoredAfterSet DEF UpdateCDP
<1>5. CdpTypeOK'
  <2> DEFINE erased == EraseCdpIndexData(index, old)
  <2>1. erased.totals \in [Pair -> [staked : 0..(Word - 1), owed : 0..(Word - 1)]]
    BY <1>1, TotalsWrap DEF CdpTypeOK
  <2>2. SaveCdpIndexData(erased, new).totals
            \in [Pair -> [staked : 0..(Word - 1), owed : 0..(Word - 1)]]
    BY <1>1, <2>1, TotalsWrap
  <2>3. index'.totals \in [Pair -> [staked : 0..(Word - 1), owed : 0..(Word - 1)]]
    BY <2>2 DEF UpdateCDP
  <2> QED
    BY <1>1, <2>3 DEF UpdateCDP, CdpTypeOK
<1>6. IndexesAgree'
  <2>1. index.ratio = RatioIndex(Stored) /\ index.height = HeightIndex(Stored)
    BY DEF CdpInv, IndexesAgree, RatioIndex, HeightIndex
  <2>2. /\ EraseCdpIndexData(index, old).ratio = RatioIndex(Stored \ {old})
        /\ EraseCdpIndexData(index, old).height = HeightIndex(Stored \ {old})
    BY <1>3, <2>1, EraseTakesEntry DEF EraseCdpIndexData
  <2>3. \A d \in Stored \ {old} : d.cdpid # new.cdpid
    BY <1>1, <1>3
  <2>4. /\ index'.ratio = RatioIndex((Stored \ {old}) \union {new})
        /\ index'.height = HeightIndex((Stored \ {old}) \union {new})
    BY <2>2, <2>3, SaveAddsEntry DEF UpdateCDP, SaveCdpIndexData
  <2> QED
    BY <1>4, <2>4 DEF IndexesAgree, RatioIndex, HeightIndex
<1>7. OwnersAgree'
  BY <1>1, <1>2, AbsentAssumption DEF UpdateCDP, CdpInv, CdpTypeOK, OwnersAgree
<1>8. HeldAreCurrent'
  BY <1>4 DEF UpdateCDP, CdpInv, HeldAreCurrent
<1> QED
  BY <1>5, <1>6, <1>7, <1>8 DEF CdpInv

LEMMA CdpInvEraseCDP ==
    ASSUME CdpInv, NEW old \in CDP, NEW cdp \in CDP, EraseCDP(old, cdp)
    PROVE  CdpInv'
<1>1. /\ CdpTypeOK
      /\ old.cdpid = cdp.cdpid /\ UserKey(old) = UserKey(cdp)
      /\ cdp.cdpid \in Id /\ UserKey(cdp) \in RegID \X Pair
  BY CDPAssumption DEF CdpInv, EraseCDP, SameCDP, UserKey
<1>2. old \in Stored /\ cdp_cache[old.cdpid] = old /\ old # Absent
  BY <1>1, KnownIsStored, StoredByIds, AbsentAssumption DEF EraseCDP
<1>3. \A d \in Stored : d # old => d.cdpid # old.cdpid
  BY <1>1, <1>2, StoredByIds
<1>4. Stored' = Stored \ {old}
  <2>1. {d \in Stored : d.cdpid # cdp.cdpid} = Stored \ {old}
    BY <1>1, <1>3
  <2> QED
    BY <1>1, <2>1, StoredAfterErase DEF EraseCDP
<1>5. CdpTypeOK'
  <2>1. index'.totals \in [Pair -> [staked : 0..(Word - 1), owed : 0..(Word - 1)]]
    BY <1>1, TotalsWrap DEF EraseCDP, CdpTypeOK
  <2> QED
    BY <1>1, <2>1 DEF EraseCDP, CdpTypeOK
<1>6. IndexesAgree'
  <2>1. index.ratio = RatioIndex(Stored) /\ index.height = HeightIndex(Stored)
    BY DEF CdpInv, IndexesAgree, RatioIndex, HeightIndex
  <2>2. index'.ratio = RatioIndex(Stored \ {old}) /\ index'.height = HeightIndex(Stored \ {old})
    BY <1>3, <2>1, EraseTakesEntry DEF EraseCDP, EraseCdpIndexData
  <2> QED
    BY <1>4, <2>2 DEF IndexesAgree, RatioIndex, HeightIndex
<1>7. OwnersAgree'
  BY <1>1, <1>2, AbsentAssumption DEF EraseCDP, CdpInv, CdpTypeOK, OwnersAgree
<1>8. HeldAreCurrent'
  BY <1>4 DEF EraseCDP, CdpInv, HeldAreCurrent
<1> QED
  BY <1>5, <1>6, <1>7, <1>8 DEF CdpInv

\* The index holds the CDPs themselves, so a list taken from it is current.
LEMMA CdpInvTakeList ==
    ASSUME CdpInv, NEW p \in Pair, NEW bound, TakeList(p, bound)
    PROVE  CdpInv'
<1>1. GetCdpListByCollateralRatio(p, bound) \subseteq Stored
  BY DEF GetCdpListByCollateralRatio, CdpInv, IndexesAgree, Entry
<1>2. Stored' = Stored
  BY DEF TakeList, Stored
<1>3. Stored \subseteq CDP
  BY StoredByIds DEF CdpInv
<1>4. CdpTypeOK' /\ HeldAreCurrent'
  BY <1>1, <1>2, <1>3 DEF TakeList, CdpInv, CdpTypeOK, HeldAreCurrent
<1>5. IndexesAgree' /\ OwnersAgree'
  BY <1>2 DEF TakeList, CdpInv, IndexesAgree, OwnersAgree
<1> QED
  BY <1>4, <1>5 DEF CdpInv

LEMMA CdpInvStep == CdpInv /\ [CdpNext]_cdpVars => CdpInv'
<1> SUFFICES ASSUME CdpInv, [CdpNext]_cdpVars PROVE CdpInv'
  OBVIOUS
<1>1. ASSUME NEW c \in CDP, NewCDP(c) PROVE CdpInv'
  BY <1>1, CdpInvNewCDP
<1>2. ASSUME NEW old \in CDP, NEW new \in CDP, UpdateCDP(old, new) PROVE CdpInv'
  BY <1>2, CdpInvUpdateCDP
<1>3. ASSUME NEW old \in CDP, NEW new \in CDP, EraseCDP(old, new) PROVE CdpInv'
  BY <1>3, CdpInvEraseCDP
<1>4. ASSUME NEW p \in Pair, NEW bound, TakeList(p, bound) PROVE CdpInv'
  BY <1>4, CdpInvTakeList
<1>5. CASE LeaveList \/ UNCHANGED cdpVars
  <2>1. Stored' = Stored /\ held' \subseteq held
    BY <1>5 DEF LeaveList, cdpVars, Stored
  <2>2. UNCHANGED <<cdp_cache, user_cdp_cache, index>>
    BY <1>5 DEF LeaveList, cdpVars
  <2> QED
    BY <2>1, <2>2 DEF CdpInv, CdpTypeOK, IndexesAgree, OwnersAgree, HeldAreCurrent
<1> QED
  BY <1>1, <1>2, <1>3, <1>4, <1>5 DEF CdpNext

-----------------------------------------------------------------------------
\* Every CDP store has the right types, with the totals in 64 bits.
THEOREM CdpTypeCorrect == CdpSpec => []CdpTypeOK
<1>1. CdpInv => CdpTypeOK
  BY DEF CdpInv
<1> QED
  BY <1>1, CdpInvInit, CdpInvStep, PTL DEF CdpSpec

\* However many CDPs are created, updated and closed, directly or from a list, the
\* ratio and the height index hold exactly the CDPs, each under its present key.
THEOREM IndexesAlwaysAgree == CdpSpec => []IndexesAgree
<1>1. CdpInv => IndexesAgree
  BY DEF CdpInv
<1> QED
  BY <1>1, CdpInvInit, CdpInvStep, PTL DEF CdpSpec

\* UserHaveCdp and GetCDPList are right for every owner and coin pair.
THEOREM OwnersAlwaysAgree == CdpSpec => []OwnersAgree
<1>1. CdpInv => OwnersAgree
  BY DEF CdpInv
<1> QED
  BY <1>1, CdpInvInit, CdpInvStep, PTL DEF CdpSpec

\* A liquidation that works through a list never updates or closes a CDP by an
\* outdated value.
THEOREM HeldAlwaysCurrent == CdpSpec => []HeldAreCurrent
<1>1. CdpInv => HeldAreCurrent
  BY DEF CdpInv
<1> QED
  BY <1>1, CdpInvInit, CdpInvStep, PTL DEF CdpSpec

-----------------------------------------------------------------------------
(* The totals of a pair *)

\* What is summed, as functions of all CDPs.
StakedOf == [c \in CDP |-> c.staked]
OwedOf == [c \in CDP |-> c.owed]
OfPair(S, p) == {c \in S : c.pair = p}

\* The totals are those of the CDPs of S.
AreTotals(totals, S) ==
    \A p \in Pair : /\ totals[p].staked = Total(StakedOf, OfPair(S, p)) % Word
                    /\ totals[p].owed = Total(OwedOf, OfPair(S, p)) % Word

CdpTotals == IsFiniteSet(Stored) /\ AreTotals(index.totals, Stored)

\* The CDPs of a pair can be summed.
LEMMA CdpsCount ==
    ASSUME NEW S \in SUBSET CDP, IsFiniteSet(S), NEW p
    PROVE  /\ Counts(StakedOf, OfPair(S, p)) /\ Counts(OwedOf, OfPair(S, p))
           /\ OfPair(S, p) \subseteq S
<1>1. OfPair(S, p) \subseteq S /\ IsFiniteSet(OfPair(S, p))
    BY FS_Subset DEF OfPair
<1>2. \A c \in CDP : StakedOf[c] \in Int /\ OwedOf[c] \in Int
    BY CDPAssumption DEF StakedOf, OwedOf
<1>3. QED
    BY <1>1, <1>2 DEF Counts

\* MapThenSumSet is that sum.
LEMMA FoldIsStaked ==
    ASSUME NEW S \in SUBSET CDP, Counts(StakedOf, S)
    PROVE  MapThenSumSet(LAMBDA c : c.staked, S) = Total(StakedOf, S)
<1> DEFINE Eq(g) == g = [s \in SUBSET S |-> IF s = {} THEN 0
                                ELSE (CHOOSE x \in s : TRUE).staked
                                         + g[s \ {CHOOSE x \in s : TRUE}]]
           it == CHOOSE g : Eq(g)
<1>1. \A g : Eq(g) <=> IsSum(g, StakedOf, S)
    <2>1. \A s \in SUBSET S : s # {} => StakedOf[Some(s)] = Some(s).staked
        BY SomeIsIn DEF StakedOf
    <2>2. QED
        BY <2>1 DEF IsSum, Some
<1>2. IsSum(it, StakedOf, S)
    <2>1. PICK g : IsSum(g, StakedOf, S)
        BY SumExists
    <2> HIDE DEF Eq
    <2>2. Eq(g)
        BY <1>1, <2>1
    <2>3. Eq(it)
        BY <2>2
    <2> HIDE DEF it
    <2>4. QED
        BY <1>1, <2>3
<1>3. it[S] = Total(StakedOf, S)
    <2> HIDE DEF it
    <2>1. QED
        BY <1>2, SumIs
<1>4. MapThenSumSet(LAMBDA c : c.staked, S) = it[S]
    BY DEF MapThenSumSet, MapThenFoldSet
<1>5. QED
    BY <1>3, <1>4

\* The same of the other total.
LEMMA FoldIsOwed ==
    ASSUME NEW S \in SUBSET CDP, Counts(OwedOf, S)
    PROVE  MapThenSumSet(LAMBDA c : c.owed, S) = Total(OwedOf, S)
<1> DEFINE Eq(g) == g = [s \in SUBSET S |-> IF s = {} THEN 0
                                ELSE (CHOOSE x \in s : TRUE).owed
                                         + g[s \ {CHOOSE x \in s : TRUE}]]
           it == CHOOSE g : Eq(g)
<1>1. \A g : Eq(g) <=> IsSum(g, OwedOf, S)
    <2>1. \A s \in SUBSET S : s # {} => OwedOf[Some(s)] = Some(s).owed
        BY SomeIsIn DEF OwedOf
    <2>2. QED
        BY <2>1 DEF IsSum, Some
<1>2. IsSum(it, OwedOf, S)
    <2>1. PICK g : IsSum(g, OwedOf, S)
        BY SumExists
    <2> HIDE DEF Eq
    <2>2. Eq(g)
        BY <1>1, <2>1
    <2>3. Eq(it)
        BY <2>2
    <2> HIDE DEF it
    <2>4. QED
        BY <1>1, <2>3
<1>3. it[S] = Total(OwedOf, S)
    <2> HIDE DEF it
    <2>1. QED
        BY <1>2, SumIs
<1>4. MapThenSumSet(LAMBDA c : c.owed, S) = it[S]
    BY DEF MapThenSumSet, MapThenFoldSet
<1>5. QED
    BY <1>3, <1>4

\* A CDP that was not counted is counted.
LEMMA TotalsAfterSave ==
    ASSUME NEW S \in SUBSET CDP, IsFiniteSet(S), NEW x,
           x.totals \in [Pair -> [staked : 0..(Word - 1), owed : 0..(Word - 1)]],
           AreTotals(x.totals, S), NEW c \in CDP, c \notin S
    PROVE  AreTotals(SaveCdpIndexData(x, c).totals, S \union {c}) /\ IsFiniteSet(S \union {c})
<1> DEFINE T == S \union {c}
<1>1. IsFiniteSet(T) /\ T \in SUBSET CDP
    BY FS_AddElement
<1>2. /\ c.pair \in Pair /\ c.staked \in Int /\ c.owed \in Int
      /\ StakedOf[c] = c.staked /\ OwedOf[c] = c.owed
    BY CDPAssumption DEF StakedOf, OwedOf
<1> DEFINE y == SaveCdpIndexData(x, c).totals
<1>3. ASSUME NEW p \in Pair, p # c.pair
      PROVE  y[p] = x.totals[p] /\ OfPair(T, p) = OfPair(S, p)
    BY <1>2, <1>3 DEF SaveCdpIndexData, OfPair
<1>4. /\ y[c.pair].staked = (x.totals[c.pair].staked + c.staked) % Word
      /\ y[c.pair].owed = (x.totals[c.pair].owed + c.owed) % Word
    BY <1>2 DEF SaveCdpIndexData
<1>5. c \in OfPair(T, c.pair) /\ OfPair(T, c.pair) \ {c} = OfPair(S, c.pair)
    BY DEF OfPair
<1>6. /\ Total(StakedOf, OfPair(T, c.pair)) = c.staked + Total(StakedOf, OfPair(S, c.pair))
      /\ Total(OwedOf, OfPair(T, c.pair)) = c.owed + Total(OwedOf, OfPair(S, c.pair))
    <2> DEFINE A == OfPair(T, c.pair)
    <2>1. Counts(StakedOf, A) /\ Counts(OwedOf, A) /\ c \in A /\ A \ {c} = OfPair(S, c.pair)
        BY <1>1, <1>5, CdpsCount
    <2> HIDE DEF A
    <2>2. /\ Total(StakedOf, A) = StakedOf[c] + Total(StakedOf, A \ {c})
          /\ Total(OwedOf, A) = OwedOf[c] + Total(OwedOf, A \ {c})
        BY <2>1, SumTake
    <2>3. QED
        BY <1>2, <2>1, <2>2 DEF A
<1>7. Total(StakedOf, OfPair(S, c.pair)) \in Int /\ Total(OwedOf, OfPair(S, c.pair)) \in Int
    BY CdpsCount, SumStep
<1>8. /\ y[c.pair].staked = Total(StakedOf, OfPair(T, c.pair)) % Word
      /\ y[c.pair].owed = Total(OwedOf, OfPair(T, c.pair)) % Word
    <2> DEFINE a == Total(StakedOf, OfPair(S, c.pair))
               b == Total(OwedOf, OfPair(S, c.pair))
    <2>1. x.totals[c.pair].staked = a % Word /\ x.totals[c.pair].owed = b % Word
        BY <1>2 DEF AreTotals
    <2>2. a \in Int /\ b \in Int
        BY <1>7
    <2> HIDE DEF a, b
    <2>3. ((a % Word) + c.staked) % Word = (a + c.staked) % Word
        BY <1>2, <2>2, AddToRemainder, WordAssumption
    <2>4. ((b % Word) + c.owed) % Word = (b + c.owed) % Word
        BY <1>2, <2>2, AddToRemainder, WordAssumption
    <2>5. a + c.staked = c.staked + a /\ b + c.owed = c.owed + b
        BY <1>2, <2>2
    <2>6. QED
        BY <1>4, <1>6, <2>1, <2>3, <2>4, <2>5 DEF a, b
<1>9. ASSUME NEW p \in Pair
      PROVE  /\ y[p].staked = Total(StakedOf, OfPair(T, p)) % Word
             /\ y[p].owed = Total(OwedOf, OfPair(T, p)) % Word
    <2>1. CASE p = c.pair
        BY <1>8, <2>1
    <2>2. CASE p # c.pair
        BY <1>3, <2>2 DEF AreTotals
    <2>3. QED
        BY <2>1, <2>2
<1>10. QED
    BY <1>1, <1>9 DEF AreTotals

\* A CDP is taken off the totals with the numbers it was counted with.
LEMMA TotalsAfterErase ==
    ASSUME NEW S \in SUBSET CDP, IsFiniteSet(S), NEW x,
           x.totals \in [Pair -> [staked : 0..(Word - 1), owed : 0..(Word - 1)]],
           AreTotals(x.totals, S), NEW c \in S
    PROVE  AreTotals(EraseCdpIndexData(x, c).totals, S \ {c}) /\ IsFiniteSet(S \ {c})
<1> DEFINE T == S \ {c}
<1>1. IsFiniteSet(T) /\ T \in SUBSET CDP /\ c \in CDP
    BY FS_Subset
<1>2. /\ c.pair \in Pair /\ c.staked \in Int /\ c.owed \in Int
      /\ StakedOf[c] = c.staked /\ OwedOf[c] = c.owed
    BY CDPAssumption DEF StakedOf, OwedOf
<1> DEFINE y == EraseCdpIndexData(x, c).totals
<1>3. ASSUME NEW p \in Pair, p # c.pair
      PROVE  y[p] = x.totals[p] /\ OfPair(T, p) = OfPair(S, p)
    BY <1>2, <1>3 DEF EraseCdpIndexData, OfPair
<1>4. /\ y[c.pair].staked = (x.totals[c.pair].staked - c.staked) % Word
      /\ y[c.pair].owed = (x.totals[c.pair].owed - c.owed) % Word
    BY <1>2 DEF EraseCdpIndexData
<1>5. c \in OfPair(S, c.pair) /\ OfPair(S, c.pair) \ {c} = OfPair(T, c.pair)
    BY DEF OfPair
<1>6. /\ Total(StakedOf, OfPair(S, c.pair)) = c.staked + Total(StakedOf, OfPair(T, c.pair))
      /\ Total(OwedOf, OfPair(S, c.pair)) = c.owed + Total(OwedOf, OfPair(T, c.pair))
    <2> DEFINE A == OfPair(S, c.pair)
    <2>1. Counts(StakedOf, A) /\ Counts(OwedOf, A) /\ c \in A /\ A \ {c} = OfPair(T, c.pair)
        BY <1>1, <1>5, CdpsCount
    <2> HIDE DEF A
    <2>2. /\ Total(StakedOf, A) = StakedOf[c] + Total(StakedOf, A \ {c})
          /\ Total(OwedOf, A) = OwedOf[c] + Total(OwedOf, A \ {c})
        BY <2>1, SumTake
    <2>3. QED
        BY <1>2, <2>1, <2>2 DEF A
<1>7. Total(StakedOf, OfPair(T, c.pair)) \in Int /\ Total(OwedOf, OfPair(T, c.pair)) \in Int
    BY <1>1, CdpsCount, SumStep
<1>8. /\ y[c.pair].staked = Total(StakedOf, OfPair(T, c.pair)) % Word
      /\ y[c.pair].owed = Total(OwedOf, OfPair(T, c.pair)) % Word
    <2> DEFINE a == Total(StakedOf, OfPair(T, c.pair))
               b == Total(OwedOf, OfPair(T, c.pair))
    <2>1. /\ x.totals[c.pair].staked = (c.staked + a) % Word
          /\ x.totals[c.pair].owed = (c.owed + b) % Word
        BY <1>2, <1>6 DEF AreTotals
    <2>2. a \in Int /\ b \in Int
        BY <1>7
    <2> HIDE DEF a, b
    <2>3. (((c.staked + a) % Word) - c.staked) % Word = a % Word
        BY <1>2, <2>2, TakeFromRemainder, WordAssumption
    <2>4. (((c.owed + b) % Word) - c.owed) % Word = b % Word
        BY <1>2, <2>2, TakeFromRemainder, WordAssumption
    <2>5. y[c.pair].staked = a % Word /\ y[c.pair].owed = b % Word
        BY <1>4, <2>1, <2>3, <2>4
    <2>6. QED
        BY <2>5 DEF a, b
<1>9. ASSUME NEW p \in Pair
      PROVE  /\ y[p].staked = Total(StakedOf, OfPair(T, p)) % Word
             /\ y[p].owed = Total(OwedOf, OfPair(T, p)) % Word
    <2>1. CASE p = c.pair
        BY <1>8, <2>1
    <2>2. CASE p # c.pair
        BY <1>3, <2>2 DEF AreTotals
    <2>3. QED
        BY <2>1, <2>2
<1>10. QED
    BY <1>1, <1>9 DEF AreTotals

\* Every step keeps the totals.
LEMMA CdpTotalsStep == CdpInv /\ CdpTotals /\ [CdpNext]_cdpVars => CdpTotals'
<1> SUFFICES ASSUME CdpInv, CdpTotals, [CdpNext]_cdpVars PROVE CdpTotals'
    OBVIOUS
<1>1. /\ Stored \in SUBSET CDP /\ IsFiniteSet(Stored) /\ AreTotals(index.totals, Stored)
      /\ index.totals \in [Pair -> [staked : 0..(Word - 1), owed : 0..(Word - 1)]]
      /\ CdpTypeOK
    BY StoredByIds DEF CdpInv, CdpTypeOK, CdpTotals
<1>2. ASSUME NEW c \in CDP, NewCDP(c) PROVE CdpTotals'
    <2>1. cdp_cache[c.cdpid] = Absent /\ index' = SaveCdpIndexData(index, c)
        BY <1>2 DEF NewCDP
    <2>2. \A d \in Stored : d.cdpid # c.cdpid
        BY <1>1, <2>1, StoredByIds DEF Stored
    <2>3. Stored' = Stored \union {c} /\ c \notin Stored
        BY <1>1, <1>2, <2>2, StoredAfterSet DEF NewCDP
    <2>4. QED
        BY <1>1, <2>1, <2>3, TotalsAfterSave DEF CdpTotals
<1>3. ASSUME NEW old \in CDP, NEW new \in CDP, UpdateCDP(old, new) \/ EraseCDP(old, new)
      PROVE  /\ old \in Stored /\ new.cdpid \in Id /\ old.cdpid = new.cdpid
             /\ {d \in Stored : d.cdpid # new.cdpid} = Stored \ {old}
    <2>1. old \in Stored /\ old.cdpid = new.cdpid
        BY <1>3, KnownIsStored DEF UpdateCDP, EraseCDP, SameCDP
    <2>2. new.cdpid \in Id
        BY CDPAssumption
    <2>3. \A d \in Stored : d # old => d.cdpid # old.cdpid
        BY <1>1, <2>1, StoredByIds
    <2>4. QED
        BY <2>1, <2>2, <2>3
<1>4. ASSUME NEW old \in CDP, NEW new \in CDP, UpdateCDP(old, new) \/ EraseCDP(old, new)
      PROVE  LET erased == EraseCdpIndexData(index, old)
             IN  /\ AreTotals(erased.totals, Stored \ {old}) /\ IsFiniteSet(Stored \ {old})
                 /\ erased.totals \in [Pair -> [staked : 0..(Word - 1), owed : 0..(Word - 1)]]
    BY <1>1, <1>3, <1>4, TotalsAfterErase, TotalsWrap
<1>5. ASSUME NEW old \in CDP, NEW new \in CDP, UpdateCDP(old, new) PROVE CdpTotals'
    <2> DEFINE x == EraseCdpIndexData(index, old)
               S == Stored \ {old}
    <2>1. /\ AreTotals(x.totals, S) /\ IsFiniteSet(S) /\ S \in SUBSET CDP
          /\ x.totals \in [Pair -> [staked : 0..(Word - 1), owed : 0..(Word - 1)]]
        BY <1>1, <1>4, <1>5
    <2>2. S = {d \in Stored : d.cdpid # new.cdpid} /\ new \notin S
        BY <1>3, <1>5
    <2>3. Stored' = S \union {new}
        BY <1>1, <1>5, <2>2, StoredAfterSet DEF UpdateCDP
    <2>4. index' = SaveCdpIndexData(x, new)
        BY <1>5 DEF UpdateCDP
    <2> HIDE DEF x, S
    <2>5. AreTotals(SaveCdpIndexData(x, new).totals, S \union {new}) /\ IsFiniteSet(S \union {new})
        BY <2>1, <2>2, TotalsAfterSave
    <2>6. QED
        BY <2>3, <2>4, <2>5 DEF CdpTotals
<1>6. ASSUME NEW old \in CDP, NEW new \in CDP, EraseCDP(old, new) PROVE CdpTotals'
    <2>1. Stored' = Stored \ {old}
        BY <1>1, <1>3, <1>6, StoredAfterErase DEF EraseCDP
    <2>2. index' = EraseCdpIndexData(index, old)
        BY <1>6 DEF EraseCDP
    <2>3. QED
        BY <1>4, <1>6, <2>1, <2>2 DEF CdpTotals
<1>7. ASSUME UNCHANGED <<cdp_cache, index>> PROVE CdpTotals'
    BY <1>7 DEF CdpTotals, Stored
<1>8. QED
    BY <1>2, <1>5, <1>6, <1>7 DEF CdpNext, TakeList, LeaveList, cdpVars

\* Without a CDP they are zero.
LEMMA CdpTotalsInit == CdpInit => CdpTotals
<1> SUFFICES ASSUME CdpInit PROVE CdpTotals
    OBVIOUS
<1>1. Stored = {}
    BY DEF CdpInit, Stored
<1>2. \A p \in Pair : OfPair({}, p) = {} /\ Counts(StakedOf, {}) /\ Counts(OwedOf, {})
    BY FS_EmptySet DEF OfPair, Counts
<1>3. Pair # {} => Total(StakedOf, {}) = 0 /\ Total(OwedOf, {}) = 0
    BY <1>2, SumStep
<1>4. 0 % Word = 0
    BY WordAssumption
<1>5. QED
    BY <1>1, <1>2, <1>3, <1>4, FS_EmptySet DEF CdpInit, CdpTotals, AreTotals

\* The totals that the global data of a pair show are the sums over its CDPs, however many
\* have been created, changed and closed, wrapped around or not.
THEOREM TotalsAlwaysSums == CdpSpec => []TotalsAreSums
<1>1. CdpInit => CdpInv /\ CdpTotals
    BY CdpInvInit, CdpTotalsInit
<1>2. CdpInv /\ CdpTotals /\ [CdpNext]_cdpVars => CdpInv' /\ CdpTotals'
    BY CdpInvStep, CdpTotalsStep
<1>3. CdpInv /\ CdpTotals => TotalsAreSums
    <2> SUFFICES ASSUME CdpInv, CdpTotals, NEW p \in Pair
                 PROVE  LET cdps == {c \in Stored : c.pair = p}
                            staked(c) == c.staked
                            owed(c) == c.owed
                        IN  /\ index.totals[p].staked = MapThenSumSet(staked, cdps) % Word
                            /\ index.totals[p].owed = MapThenSumSet(owed, cdps) % Word
        BY DEF TotalsAreSums
    <2>1. Stored \in SUBSET CDP /\ IsFiniteSet(Stored)
        BY StoredByIds DEF CdpInv, CdpTotals
    <2>2. /\ Counts(StakedOf, OfPair(Stored, p)) /\ Counts(OwedOf, OfPair(Stored, p))
          /\ OfPair(Stored, p) \in SUBSET CDP
        BY <2>1, CdpsCount
    <2>3. /\ MapThenSumSet(LAMBDA c : c.staked, OfPair(Stored, p)) =
                 Total(StakedOf, OfPair(Stored, p))
          /\ MapThenSumSet(LAMBDA c : c.owed, OfPair(Stored, p)) =
                 Total(OwedOf, OfPair(Stored, p))
        BY <2>2, FoldIsStaked, FoldIsOwed
    <2>4. /\ index.totals[p].staked = Total(StakedOf, OfPair(Stored, p)) % Word
          /\ index.totals[p].owed = Total(OwedOf, OfPair(Stored, p)) % Word
        BY DEF CdpTotals, AreTotals
    <2>5. QED
        BY <2>3, <2>4 DEF OfPair
<1>4. QED
    BY <1>1, <1>2, <1>3, PTL DEF CdpSpec

-----------------------------------------------------------------------------
(* AccountStore *)

Accounts(m) == Range(m) \ {Absent}
AmountOf == [a \in Account |-> a.amount]
Amount(a) == IF a = Absent THEN 0 ELSE a.amount
Supply(m) == Total(AmountOf, Accounts(m))
With(m, k, a) == [m EXCEPT ![k] = a]

\* An account is kept under its own key id.
IsAccountMap(m) ==
    /\ m \in [KeyID -> Account \union {Absent}]
    /\ \A k \in KeyID : m[k] # Absent => m[k].keyid = k
    /\ IsFiniteSet(Accounts(m))

\* Each id of an account leads to the other.
IdsMatch(ids, m) ==
    /\ ids \in [AccountID -> KeyID \union {Absent}]
    /\ \A r \in AccountID, k \in KeyID : ids[r] = k <=> m[k] # Absent /\ m[k].regid = r

AccountInv ==
    /\ IsAccountMap(accountCache) /\ IdsMatch(regId2KeyIdCache, accountCache)
    /\ minted = Supply(accountCache)

\* The fold of GetAssetTotalSupply is the sum.
LEMMA FoldIsAmount ==
    ASSUME NEW S \in SUBSET Account, Counts(AmountOf, S)
    PROVE  MapThenSumSet(LAMBDA a : a.amount, S) = Total(AmountOf, S)
<1> DEFINE Eq(g) == g = [s \in SUBSET S |-> IF s = {} THEN 0
                                ELSE (CHOOSE x \in s : TRUE).amount
                                         + g[s \ {CHOOSE x \in s : TRUE}]]
           it == CHOOSE g : Eq(g)
<1>1. \A g : Eq(g) <=> IsSum(g, AmountOf, S)
    <2>1. \A s \in SUBSET S : s # {} => AmountOf[Some(s)] = Some(s).amount
        BY SomeIsIn DEF AmountOf
    <2>2. QED
        BY <2>1 DEF IsSum, Some
<1>2. IsSum(it, AmountOf, S)
    <2>1. PICK g : IsSum(g, AmountOf, S)
        BY SumExists
    <2> HIDE DEF Eq
    <2>2. Eq(g)
        BY <1>1, <2>1
    <2>3. Eq(it)
        BY <2>2
    <2> HIDE DEF it
    <2>4. QED
        BY <1>1, <2>3
<1>3. it[S] = Total(AmountOf, S)
    <2> HIDE DEF it
    <2>1. QED
        BY <1>2, SumIs
<1>4. MapThenSumSet(LAMBDA a : a.amount, S) = it[S]
    BY DEF MapThenSumSet, MapThenFoldSet
<1>5. QED
    BY <1>3, <1>4

\* The accounts can be summed.
LEMMA AccountsCount ==
    ASSUME NEW m, IsAccountMap(m)
    PROVE  Accounts(m) \in SUBSET Account /\ Counts(AmountOf, Accounts(m)) /\ Supply(m) \in Int
<1>1. Accounts(m) \in SUBSET Account
    BY DEF IsAccountMap, Accounts, Range
<1>2. \A a \in Account : AmountOf[a] \in Int
    BY DEF AmountOf, Account
<1>3. Counts(AmountOf, Accounts(m))
    BY <1>1, <1>2 DEF Counts, IsAccountMap
<1>4. QED
    BY <1>1, <1>3, SumStep DEF Supply

\* A write of one account: the supply changes by the difference of its tokens.
LEMMA SupplyAfterWrite ==
    ASSUME NEW m, IsAccountMap(m), NEW k \in KeyID, NEW a \in Account \union {Absent},
           a # Absent => a.keyid = k
    PROVE  /\ IsAccountMap(With(m, k, a))
           /\ Supply(With(m, k, a)) = (Supply(m) - Amount(m[k])) + Amount(a)
<1> DEFINE w == With(m, k, a)
           A == Accounts(m)
           R == A \ {m[k]}
<1>1. /\ w \in [KeyID -> Account \union {Absent}] /\ w[k] = a
      /\ \A j \in KeyID : j # k => w[j] = m[j]
      /\ \A j \in KeyID : w[j] # Absent => w[j].keyid = j
    BY DEF With, IsAccountMap
<1>2. A \in SUBSET Account /\ IsFiniteSet(A) /\ \A j \in KeyID : m[j] # Absent => m[j].keyid = j
    BY AccountsCount DEF IsAccountMap
<1>3. R = {m[j] : j \in KeyID \ {k}} \ {Absent}
    <2>1. A = {m[j] : j \in KeyID} \ {Absent}
        BY DEF Accounts, Range, IsAccountMap
    <2>2. \A j \in KeyID : j # k /\ m[j] # Absent => m[j] # m[k]
        BY <1>2
    <2>3. QED
        BY <2>1, <2>2
<1>4. Accounts(w) = R \union ({a} \ {Absent})
    <2>1. Accounts(w) = {w[j] : j \in KeyID} \ {Absent}
        BY <1>1 DEF Accounts, Range
    <2>2. {w[j] : j \in KeyID} = {m[j] : j \in KeyID \ {k}} \union {a}
        BY <1>1
    <2>3. QED
        BY <1>3, <2>1, <2>2
<1>5. IsFiniteSet(R) /\ IsFiniteSet(Accounts(w)) /\ R \in SUBSET Account
    <2>1. IsFiniteSet(R) /\ R \in SUBSET Account
        BY <1>2, FS_Subset
    <2>2. IsFiniteSet(R \union {a})
        BY <2>1, FS_AddElement
    <2>3. Accounts(w) \in SUBSET (R \union {a})
        BY <1>4
    <2>4. QED
        BY <2>1, <2>2, <2>3, FS_Subset
<1>6. IsAccountMap(w)
    BY <1>1, <1>5 DEF IsAccountMap
<1>7. /\ Supply(m) = Total(AmountOf, R) + Amount(m[k])
      /\ Total(AmountOf, R) \in Int /\ Amount(m[k]) \in Int
    <2>1. Counts(AmountOf, A) /\ Counts(AmountOf, R)
        BY <1>5, AccountsCount DEF Counts
    <2>2. Total(AmountOf, R) \in Int
        BY <2>1, SumStep
    <2>3. CASE m[k] = Absent
        <3>1. R = A
            BY <2>3 DEF Accounts
        <3>2. QED
            BY <2>2, <2>3, <3>1 DEF Supply, Amount
    <2>4. CASE m[k] # Absent
        <3>1. m[k] \in A
            BY <2>4 DEF Accounts, Range, IsAccountMap
        <3>2. AmountOf[m[k]] = m[k].amount /\ m[k].amount \in Int
            BY <1>2, <3>1 DEF AmountOf, Account
        <3> DEFINE b == m[k]
        <3> HIDE DEF A, b
        <3>3. Total(AmountOf, A) = AmountOf[b] + Total(AmountOf, A \ {b})
            BY <2>1, <3>1, SumTake DEF b
        <3>4. QED
            BY <2>2, <2>4, <3>2, <3>3 DEF Supply, Amount, b, A
    <2>5. QED
        BY <2>3, <2>4
<1>8. Supply(w) = Total(AmountOf, R) + Amount(a) /\ Amount(a) \in Int
    <2>1. CASE a = Absent
        <3>1. Accounts(w) = R
            BY <1>4, <2>1
        <3>2. QED
            BY <1>7, <2>1, <3>1 DEF Supply, Amount
    <2>2. CASE a # Absent
        <3>1. a \in Account /\ a \notin R /\ Accounts(w) = R \union {a}
            <4>1. \A b \in R : b.keyid # k
                BY <1>2, <1>3
            <4>2. QED
                BY <1>4, <2>2, <4>1
        <3>2. AmountOf[a] = a.amount /\ a.amount \in Int
            BY <3>1 DEF AmountOf, Account
        <3>3. Counts(AmountOf, Accounts(w)) /\ a \in Accounts(w) /\ Accounts(w) \ {a} = R
            BY <1>6, <3>1, AccountsCount
        <3> DEFINE B == Accounts(w)
        <3> HIDE DEF B, w
        <3>4. Total(AmountOf, B) = AmountOf[a] + Total(AmountOf, B \ {a})
            BY <3>3, SumTake DEF B
        <3>5. Supply(w) = a.amount + Total(AmountOf, R)
            BY <3>2, <3>3, <3>4 DEF Supply, B
        <3> HIDE DEF R
        <3>6. QED
            BY <1>7, <2>2, <3>2, <3>5 DEF Amount
    <2>3. QED
        BY <2>1, <2>2
<1>9. QED
    BY <1>6, <1>7, <1>8

\* Empty caches have the invariant.
LEMMA AccountInvInit == AccountInit => AccountInv
<1> SUFFICES ASSUME AccountInit PROVE AccountInv
    OBVIOUS
<1>1. Accounts(accountCache) = {}
    BY DEF AccountInit, Accounts, Range
<1>2. IsAccountMap(accountCache) /\ IdsMatch(regId2KeyIdCache, accountCache)
    BY <1>1, FS_EmptySet, AccountAssumption DEF AccountInit, IsAccountMap, IdsMatch
<1>3. Supply(accountCache) = 0
    BY <1>1, <1>2, AccountsCount, SumStep DEF Supply
<1>4. QED
    BY <1>2, <1>3 DEF AccountInit, AccountInv

\* What a user id stands for.
LEMMA UserIds ==
    ASSUME AccountInv
    PROVE  /\ \A r \in AccountID : /\ GetKeyId(r) = regId2KeyIdCache[r]
                                   /\ GetKeyId(r) \in KeyID \union {Absent}
                                   /\ HasAccount(r) <=> GetKeyId(r) # Absent
           /\ \A k \in KeyID : /\ GetKeyId(k) = k /\ k \in UserID
                               /\ HasAccount(k) <=> accountCache[k] # Absent
                               /\ HasAccount(k) => /\ GetAccount(k) = accountCache[k]
                                                   /\ accountCache[k] \in Account
                                                   /\ accountCache[k].keyid = k
           /\ \A uid \in UserID : HasAccount(uid) =>
                  /\ GetKeyId(uid) \in KeyID /\ GetAccount(uid) = accountCache[GetKeyId(uid)]
                  /\ GetAccount(uid) \in Account /\ GetAccount(uid).keyid = GetKeyId(uid)
<1>1. IsAccountMap(accountCache) /\ IdsMatch(regId2KeyIdCache, accountCache)
    BY DEF AccountInv
<1>2. \A r \in AccountID : /\ GetKeyId(r) = regId2KeyIdCache[r]
                           /\ GetKeyId(r) \in KeyID \union {Absent}
                           /\ HasAccount(r) <=> GetKeyId(r) # Absent
    BY <1>1, AccountAssumption DEF GetKeyId, HasAccount, IdsMatch
<1>3. ASSUME NEW k \in KeyID
      PROVE  /\ GetKeyId(k) = k /\ k \in UserID /\ (HasAccount(k) <=> accountCache[k] # Absent)
             /\ HasAccount(k) => /\ GetAccount(k) = accountCache[k]
                                 /\ accountCache[k] \in Account /\ accountCache[k].keyid = k
    <2>1. GetKeyId(k) = k /\ k \in UserID /\ (HasAccount(k) <=> accountCache[k] # Absent)
        BY AccountAssumption DEF GetKeyId, HasAccount, UserID
    <2>2. GetAccount(k) = accountCache[k]
        BY <2>1, AccountAssumption DEF GetAccount
    <2>3. QED
        BY <1>1, <2>1, <2>2 DEF IsAccountMap
<1>4. ASSUME NEW uid \in UserID, HasAccount(uid)
      PROVE  /\ GetKeyId(uid) \in KeyID /\ GetAccount(uid) = accountCache[GetKeyId(uid)]
             /\ GetAccount(uid) \in Account /\ GetAccount(uid).keyid = GetKeyId(uid)
    <2>1. GetKeyId(uid) \in KeyID /\ accountCache[GetKeyId(uid)] # Absent
        <3>1. CASE uid \in AccountID
            BY <1>1, <1>2, <1>4, <3>1 DEF IdsMatch
        <3>2. CASE uid \in KeyID
            BY <1>3, <1>4, <3>2
        <3>3. QED
            BY <3>1, <3>2 DEF UserID
    <2>2. GetAccount(uid) = accountCache[GetKeyId(uid)]
        BY <2>1, AccountAssumption DEF GetAccount
    <2>3. QED
        BY <1>1, <2>1, <2>2 DEF IsAccountMap
<1>5. QED
    BY <1>2, <1>3, <1>4

\* A write that leaves the regids alone leaves both ids matching.
LEMMA IdsAfterWrite ==
    ASSUME NEW ids, NEW m, IsAccountMap(m), IdsMatch(ids, m), NEW k \in KeyID, NEW a \in Account,
           m[k] # Absent => m[k].regid = a.regid,
           m[k] = Absent => a.regid = NoRegID
    PROVE  IdsMatch(ids, With(m, k, a))
<1>1. \A j \in KeyID : With(m, k, a)[j] = IF j = k THEN a ELSE m[j]
    BY DEF With, IsAccountMap
<1>2. a # Absent
    BY AccountAssumption
<1>3. \A r \in AccountID : r # NoRegID
    BY AccountAssumption
<1>4. QED
    BY <1>1, <1>2, <1>3 DEF IdsMatch

\* A new regid in both maps.
LEMMA IdsAfterRegister ==
    ASSUME NEW ids, NEW m, IsAccountMap(m), IdsMatch(ids, m), NEW k \in KeyID, NEW r \in AccountID,
           m[k] # Absent, m[k].regid = NoRegID, ids[r] = Absent
    PROVE  IdsMatch([ids EXCEPT ![r] = k], With(m, k, [m[k] EXCEPT !.regid = r]))
<1> DEFINE a == [m[k] EXCEPT !.regid = r]
           new == [ids EXCEPT ![r] = k]
<1>1. m[k] \in Account /\ a \in Account /\ a # Absent /\ a.regid = r
    BY AccountAssumption DEF IsAccountMap, Account
<1>2. \A j \in KeyID : With(m, k, a)[j] = IF j = k THEN a ELSE m[j]
    BY DEF With, IsAccountMap
<1>3. /\ new \in [AccountID -> KeyID \union {Absent}]
      /\ \A s \in AccountID : new[s] = IF s = r THEN k ELSE ids[s]
    BY DEF IdsMatch
<1>4. r # NoRegID /\ \A j \in KeyID : j # Absent /\ ids[r] # j
    BY AccountAssumption
<1>5. ASSUME NEW s \in AccountID, NEW j \in KeyID
      PROVE  new[s] = j <=> With(m, k, a)[j] # Absent /\ With(m, k, a)[j].regid = s
    <2>0. ids[s] = j <=> m[j] # Absent /\ m[j].regid = s
        BY DEF IdsMatch
    <2>1. s # NoRegID
        BY AccountAssumption
    <2> HIDE DEF a, new
    <2>2. CASE j = k
        BY <1>1, <1>2, <1>3, <2>0, <2>1, <2>2
    <2>3. CASE j # k
        <3>1. With(m, k, a)[j] = m[j]
            BY <1>2, <2>3
        <3>2. CASE s = r
            BY <1>3, <1>4, <2>0, <2>3, <3>1, <3>2
        <3>3. CASE s # r
            BY <1>3, <2>0, <3>1, <3>3
        <3>4. QED
            BY <3>2, <3>3
    <2>4. QED
        BY <2>2, <2>3
<1> HIDE DEF a, new
<1>6. IdsMatch(new, With(m, k, a))
    BY <1>3, <1>5 DEF IdsMatch
<1>7. QED
    BY <1>6 DEF a, new

\* An account goes with its regid.
LEMMA IdsAfterErase ==
    ASSUME NEW ids, NEW m, IsAccountMap(m), IdsMatch(ids, m), NEW k \in KeyID, m[k] # Absent
    PROVE  IdsMatch(IF m[k].regid = NoRegID THEN ids ELSE [ids EXCEPT ![m[k].regid] = Absent],
                    With(m, k, Absent))
<1> DEFINE new == IF m[k].regid = NoRegID THEN ids ELSE [ids EXCEPT ![m[k].regid] = Absent]
<1>1. m[k] \in Account /\ m[k].regid \in AccountID \union {NoRegID}
    BY DEF IsAccountMap, Account
<1>2. \A j \in KeyID : With(m, k, Absent)[j] = IF j = k THEN Absent ELSE m[j]
    BY DEF With, IsAccountMap
<1>3. /\ new \in [AccountID -> KeyID \union {Absent}]
      /\ \A s \in AccountID : new[s] = IF s = m[k].regid THEN Absent ELSE ids[s]
    BY <1>1, AccountAssumption DEF IdsMatch
<1>4. ASSUME NEW s \in AccountID, NEW j \in KeyID
      PROVE  new[s] = j <=> With(m, k, Absent)[j] # Absent /\ With(m, k, Absent)[j].regid = s
    <2>0. /\ ids[s] = j <=> m[j] # Absent /\ m[j].regid = s
          /\ ids[s] = k <=> m[k] # Absent /\ m[k].regid = s
          /\ j # Absent
        BY AccountAssumption DEF IdsMatch
    <2> HIDE DEF new
    <2>1. CASE j = k
        BY <1>2, <1>3, <2>0, <2>1
    <2>2. CASE j # k
        BY <1>2, <1>3, <2>0, <2>2
    <2>3. QED
        BY <2>1, <2>2
<1> HIDE DEF new
<1>5. IdsMatch(new, With(m, k, Absent))
    BY <1>3, <1>4 DEF IdsMatch
<1>6. QED
    BY <1>5 DEF new

\* A step that writes one account, or erases it.
LEMMA WriteKeepsInv ==
    ASSUME AccountInv, NEW k \in KeyID, NEW a \in Account \union {Absent},
           a # Absent => a.keyid = k,
           accountCache' = With(accountCache, k, a),
           IdsMatch(regId2KeyIdCache', With(accountCache, k, a)),
           minted' = (minted - Amount(accountCache[k])) + Amount(a)
    PROVE  AccountInv'
<1>1. /\ IsAccountMap(With(accountCache, k, a))
      /\ Supply(With(accountCache, k, a)) =
             (Supply(accountCache) - Amount(accountCache[k])) + Amount(a)
    BY SupplyAfterWrite DEF AccountInv
<1>2. QED
    BY <1>1 DEF AccountInv

\* A new account has neither a regid nor tokens.
LEMMA NewAccountKeeps ==
    ASSUME AccountInv, NEW k \in KeyID, NewAccount(k)
    PROVE  AccountInv'
<1> DEFINE a == [keyid |-> k, regid |-> NoRegID, amount |-> 0]
<1>1. a \in Account /\ a.keyid = k /\ a.regid = NoRegID /\ a.amount = 0 /\ a # Absent
    BY AccountAssumption DEF Account
<1>2. /\ accountCache[k] = Absent /\ regId2KeyIdCache' = regId2KeyIdCache
      /\ accountCache' = With(accountCache, k, a) /\ minted' = minted
    BY UserIds DEF NewAccount, SaveAccount, With
<1> HIDE DEF a
<1>3. IsAccountMap(accountCache) /\ IdsMatch(regId2KeyIdCache, accountCache)
    BY DEF AccountInv
<1>4. IdsMatch(regId2KeyIdCache, With(accountCache, k, a))
    BY <1>1, <1>2, <1>3, IdsAfterWrite
<1>5. minted \in Int
    BY <1>3, AccountsCount DEF AccountInv
<1>6. minted' = (minted - Amount(accountCache[k])) + Amount(a)
    BY <1>1, <1>2, <1>5 DEF Amount
<1>7. QED
    BY <1>1, <1>2, <1>4, <1>6, WriteKeepsInv

\* Both ways to give an account its regid write both caches.
LEMMA RegisterKeeps ==
    ASSUME AccountInv, NEW k \in KeyID, NEW r \in AccountID, RegisterAccount(k, r) \/ NewRegId(k, r)
    PROVE  AccountInv'
<1> DEFINE a == [accountCache[k] EXCEPT !.regid = r]
<1>1. /\ k \in UserID /\ HasAccount(k) /\ GetRegId(k) = NoRegID /\ ~HasAccount(r)
      /\ minted' = minted
    BY DEF RegisterAccount, NewRegId, UserID
<1>2. /\ GetAccount(k) = accountCache[k] /\ accountCache[k] \in Account /\ accountCache[k] # Absent
      /\ accountCache[k].keyid = k /\ GetKeyId(k) = k /\ k # Absent
    BY <1>1, UserIds, AccountAssumption
<1>3. accountCache[k].regid = NoRegID /\ regId2KeyIdCache[r] = Absent
    BY <1>1, <1>2, UserIds, AccountAssumption DEF GetRegId
<1>4. /\ a \in Account /\ a.keyid = k /\ a.regid = r
      /\ a.amount = accountCache[k].amount /\ r # NoRegID
    BY <1>2, AccountAssumption DEF Account
<1>5. /\ regId2KeyIdCache' = [regId2KeyIdCache EXCEPT ![r] = k]
      /\ accountCache' = With(accountCache, k, a)
    <2>1. CASE RegisterAccount(k, r)
        BY <1>2, <1>4, <2>1 DEF RegisterAccount, SaveAccount, With
    <2>2. CASE NewRegId(k, r)
        BY <1>2, <1>4, <2>2 DEF NewRegId, SetAccount, With
    <2>3. QED
        BY <2>1, <2>2
<1>6. IsAccountMap(accountCache) /\ IdsMatch(regId2KeyIdCache, accountCache)
    BY DEF AccountInv
<1>7. IdsMatch(regId2KeyIdCache', With(accountCache, k, a))
    BY <1>2, <1>3, <1>5, <1>6, IdsAfterRegister
<1> HIDE DEF a
<1>8. minted \in Int
    BY <1>6, AccountsCount DEF AccountInv
<1>9. minted' = (minted - Amount(accountCache[k])) + Amount(a)
    <2>1. accountCache[k].amount \in Int /\ a # Absent
        BY <1>2, <1>4, AccountAssumption DEF Account
    <2>2. QED
        BY <1>1, <1>2, <1>4, <1>8, <2>1 DEF Amount
<1>10. QED
    BY <1>4, <1>5, <1>7, <1>9, WriteKeepsInv

\* What an operator mints is in an account.
LEMMA MintKeeps ==
    ASSUME AccountInv, NEW uid \in UserID, NEW n \in 1..MaxAmount, Mint(uid, n)
    PROVE  AccountInv'
<1> DEFINE k == GetKeyId(uid)
           a == [accountCache[k] EXCEPT !.amount = @ + n]
<1>1. /\ k \in KeyID /\ GetAccount(uid) = accountCache[k] /\ accountCache[k] \in Account
      /\ accountCache[k].keyid = k /\ accountCache[k] # Absent /\ k # Absent
    BY UserIds, AccountAssumption DEF Mint
<1>2. n \in Nat
    BY AccountAssumption
<1>3. /\ a \in Account /\ a.keyid = k /\ a.regid = accountCache[k].regid
      /\ a.amount = accountCache[k].amount + n /\ accountCache[k].amount \in Int /\ a # Absent
    BY <1>1, <1>2, AccountAssumption DEF Account
<1>4. /\ regId2KeyIdCache' = regId2KeyIdCache /\ minted' = minted + n
      /\ accountCache' = With(accountCache, k, a)
    BY <1>1 DEF Mint, SetAccount, With
<1>5. IsAccountMap(accountCache) /\ IdsMatch(regId2KeyIdCache, accountCache) /\ minted \in Int
    BY AccountsCount DEF AccountInv
<1> HIDE DEF a, k
<1>6. IdsMatch(regId2KeyIdCache', With(accountCache, k, a))
    BY <1>1, <1>3, <1>4, <1>5, IdsAfterWrite
<1>7. minted' = (minted - Amount(accountCache[k])) + Amount(a)
    BY <1>1, <1>2, <1>3, <1>4, <1>5 DEF Amount
<1>8. QED
    BY <1>1, <1>3, <1>4, <1>6, <1>7, WriteKeepsInv

\* A payment is a write of two accounts.
LEMMA PayKeeps ==
    ASSUME AccountInv, NEW payer \in UserID, NEW payee \in UserID, NEW n \in 1..MaxAmount,
           Pay(payer, payee, n)
    PROVE  AccountInv'
<1> DEFINE k == GetKeyId(payer)
           j == GetKeyId(payee)
           a == [accountCache[k] EXCEPT !.amount = @ - n]
           b == [accountCache[j] EXCEPT !.amount = @ + n]
           m == With(accountCache, k, a)
<1>1. /\ k \in KeyID /\ GetAccount(payer) = accountCache[k] /\ accountCache[k] \in Account
      /\ accountCache[k].keyid = k /\ accountCache[k] # Absent /\ k # Absent
      /\ j \in KeyID /\ GetAccount(payee) = accountCache[j] /\ accountCache[j] \in Account
      /\ accountCache[j].keyid = j /\ accountCache[j] # Absent /\ j # Absent
      /\ k # j
    BY UserIds, AccountAssumption DEF Pay
<1>2. n \in Nat /\ accountCache[k].amount >= n
    BY <1>1, AccountAssumption DEF Pay
<1>3. /\ a \in Account /\ a.keyid = k /\ a.regid = accountCache[k].regid
      /\ a.amount = accountCache[k].amount - n /\ accountCache[k].amount \in Int /\ a # Absent
    BY <1>1, <1>2, AccountAssumption DEF Account
<1>4. /\ b \in Account /\ b.keyid = j /\ b.regid = accountCache[j].regid
      /\ b.amount = accountCache[j].amount + n /\ accountCache[j].amount \in Int /\ b # Absent
    BY <1>1, <1>2, AccountAssumption DEF Account
<1>5. /\ regId2KeyIdCache' = regId2KeyIdCache /\ minted' = minted
      /\ accountCache' = With(m, j, b)
    BY <1>1 DEF Pay, SetAccount, With
<1>6. IsAccountMap(accountCache) /\ IdsMatch(regId2KeyIdCache, accountCache) /\ minted \in Int
    BY AccountsCount DEF AccountInv
<1>7. m[j] = accountCache[j]
    BY <1>1, <1>6 DEF With, IsAccountMap
<1> HIDE DEF a, b, k, j
<1>8. /\ IsAccountMap(m) /\ IdsMatch(regId2KeyIdCache, m)
      /\ Supply(m) = (Supply(accountCache) - Amount(accountCache[k])) + Amount(a)
    BY <1>1, <1>3, <1>6, IdsAfterWrite, SupplyAfterWrite
<1> HIDE DEF m
<1>9. /\ IsAccountMap(With(m, j, b)) /\ IdsMatch(regId2KeyIdCache, With(m, j, b))
      /\ Supply(With(m, j, b)) = (Supply(m) - Amount(m[j])) + Amount(b)
    BY <1>1, <1>4, <1>7, <1>8, IdsAfterWrite, SupplyAfterWrite
<1>10. /\ Amount(a) = Amount(accountCache[k]) - n /\ Amount(accountCache[k]) \in Int
       /\ Amount(b) = Amount(accountCache[j]) + n /\ Amount(accountCache[j]) \in Int
    BY <1>1, <1>3, <1>4 DEF Amount
<1>11. Supply(With(m, j, b)) = Supply(accountCache)
    BY <1>2, <1>6, <1>7, <1>8, <1>9, <1>10, AccountsCount
<1>12. QED
    BY <1>5, <1>9, <1>11 DEF AccountInv

\* With the account go its regid and its tokens.
LEMMA EraseAccountKeeps ==
    ASSUME AccountInv, NEW k \in KeyID, EraseAccount(k)
    PROVE  AccountInv'
<1>1. k \in UserID /\ HasAccount(k)
    BY DEF EraseAccount, UserID
<1>2. /\ GetAccount(k) = accountCache[k] /\ accountCache[k] \in Account /\ accountCache[k] # Absent
      /\ accountCache[k].keyid = k
    BY <1>1, UserIds, AccountAssumption
<1>3. GetRegId(k) = accountCache[k].regid
    BY <1>2, AccountAssumption DEF GetRegId
<1>4. /\ regId2KeyIdCache' = IF accountCache[k].regid = NoRegID THEN regId2KeyIdCache
                             ELSE [regId2KeyIdCache EXCEPT ![accountCache[k].regid] = Absent]
      /\ accountCache' = With(accountCache, k, Absent)
      /\ minted' = minted - accountCache[k].amount
    BY <1>2, <1>3 DEF EraseAccount, With
<1>5. IsAccountMap(accountCache) /\ IdsMatch(regId2KeyIdCache, accountCache) /\ minted \in Int
    BY AccountsCount DEF AccountInv
<1>6. IdsMatch(regId2KeyIdCache', With(accountCache, k, Absent))
    BY <1>2, <1>4, <1>5, IdsAfterErase
<1>7. minted' = (minted - Amount(accountCache[k])) + Amount(Absent)
    <2>1. accountCache[k].amount \in Int
        BY <1>2 DEF Account
    <2>2. QED
        BY <1>2, <1>4, <1>5, <2>1 DEF Amount
<1>8. QED
    BY <1>4, <1>6, <1>7, WriteKeepsInv

\* Every step keeps the invariant.
LEMMA AccountInvStep == AccountInv /\ [AccountNext]_accountVars => AccountInv'
<1> SUFFICES ASSUME AccountInv, [AccountNext]_accountVars PROVE AccountInv'
    OBVIOUS
<1>1. CASE UNCHANGED accountVars
    BY <1>1 DEF accountVars, AccountInv
<1>2. CASE AccountNext
    BY <1>2, NewAccountKeeps, RegisterKeeps, MintKeeps, PayKeeps, EraseAccountKeeps DEF AccountNext
<1>3. QED
    BY <1>1, <1>2

\* The invariant is strong enough.
LEMMA InvGivesAgreement ==
    ASSUME AccountInv
    PROVE  AccountsAgree
<1>1. IsAccountMap(accountCache) /\ IdsMatch(regId2KeyIdCache, accountCache)
    BY DEF AccountInv
<1>2. ASSUME NEW r \in AccountID, HasAccount(r)
      PROVE  GetAccount(r) # Absent /\ GetAccount(r).regid = r
    <2>1. /\ GetKeyId(r) \in KeyID /\ GetKeyId(r) = regId2KeyIdCache[r]
          /\ GetAccount(r) = accountCache[GetKeyId(r)]
        BY <1>2, UserIds DEF UserID
    <2>2. QED
        BY <1>1, <2>1 DEF IdsMatch
<1>3. ASSUME NEW r \in AccountID, ~HasAccount(r), NEW k \in KeyID
      PROVE  GetRegId(k) # r
    <2>1. regId2KeyIdCache[r] # k
        BY <1>3, UserIds, AccountAssumption
    <2>2. QED
        BY <1>1, <2>1, AccountAssumption DEF IdsMatch, GetRegId
<1>4. \A k \in KeyID : HasAccount(k) => GetAccount(k).keyid = k
    BY UserIds DEF UserID
<1>5. GetAssetTotalSupply = minted % Word
    <2>1. MapThenSumSet(LAMBDA a : a.amount, Accounts(accountCache)) = minted
        BY <1>1, AccountsCount, FoldIsAmount DEF AccountInv, Supply
    <2>2. QED
        BY <2>1 DEF GetAssetTotalSupply, Accounts
<1>6. QED
    BY <1>2, <1>3, <1>4, <1>5 DEF AccountsAgree

\* For any accounts and ids: a regid leads to the account that has it and to no other, an account
\* to its key id, and the supply is what was minted and not erased, as a 64-bit number.
THEOREM AccountsAlwaysAgree == AccountSpec => []AccountsAgree
<1>1. AccountInv => AccountsAgree
    BY InvGivesAgreement
<1>2. QED
    BY <1>1, AccountInvInit, AccountInvStep, PTL DEF AccountSpec

-----------------------------------------------------------------------------
(* DexStore *)

OperatorInv == DexTypeOK /\ MapHasRecords
OrderInv == DexTypeOK /\ OrdersAgree

-----------------------------------------------------------------------------
(* Types                                                                   *)

LEMMA DexTypeStep == DexTypeOK /\ [DexNext]_dexVars => DexTypeOK'
<1> SUFFICES ASSUME DexTypeOK, [DexNext]_dexVars PROVE DexTypeOK'
  OBVIOUS
<1> USE BoundAssumption DEF DexID
<1>1. ASSUME NEW o \in RegID, CreateDexOperator(o) PROVE DexTypeOK'
  BY <1>1 DEF DexTypeOK, CreateDexOperator, IncDexID, orderVars
<1>2. ASSUME NEW id \in DexID, NEW o \in RegID, UpdateDexOperator(id, o) PROVE DexTypeOK'
  BY <1>2 DEF DexTypeOK, UpdateDexOperator, orderVars
<1>3. ASSUME NEW id \in OrderId, NEW order \in Order, CreateActiveOrder(id, order) PROVE DexTypeOK'
  BY <1>3 DEF DexTypeOK, CreateActiveOrder, operatorVars
<1>4. ASSUME NEW id \in OrderId, NEW order \in Order, UpdateActiveOrder(id, order) PROVE DexTypeOK'
  BY <1>4 DEF DexTypeOK, UpdateActiveOrder, operatorVars
<1>5. ASSUME NEW id \in OrderId, NEW order \in Order, EraseActiveOrder(id, order) PROVE DexTypeOK'
  BY <1>5 DEF DexTypeOK, EraseActiveOrder, operatorVars
<1>6. CASE UNCHANGED dexVars
  BY <1>6 DEF DexTypeOK, dexVars
<1> QED
  BY <1>1, <1>2, <1>3, <1>4, <1>5, <1>6 DEF DexNext

LEMMA DexTypeInit == DexInit => DexTypeOK
  BY BoundAssumption DEF DexInit, DexTypeOK, DexID

-----------------------------------------------------------------------------
(* Operators                                                               *)

LEMMA OperatorInit == DexInit => OperatorInv
  BY DexTypeInit, RegIDAssumption, BoundAssumption
     DEF DexInit, OperatorInv, MapHasRecords, DexID, MAIN_DEX_ID

\* What the map and the records contain decides what the lookups find.
LEMMA LookupsAgree == OperatorInv => OperatorsAgree
  BY RegIDAssumption, BoundAssumption
     DEF OperatorInv, OperatorsAgree, DexTypeOK, MapHasRecords, GetDexOperator,
         GetDexOperatorByOwner, MAIN_DEX_ID, DexID

LEMMA OperatorCreate ==
    ASSUME OperatorInv, NEW o \in RegID, CreateDexOperator(o)
    PROVE  MapHasRecords'
  BY RegIDAssumption, BoundAssumption
     DEF OperatorInv, DexTypeOK, MapHasRecords, CreateDexOperator, IncDexID, GetDexOperator,
         GetDexOperatorByOwner, MAIN_DEX_ID, DexID

LEMMA OperatorUpdate ==
    ASSUME OperatorInv, NEW id \in DexID, NEW o \in RegID, UpdateDexOperator(id, o)
    PROVE  MapHasRecords'
  BY RegIDAssumption, BoundAssumption
     DEF OperatorInv, DexTypeOK, MapHasRecords, UpdateDexOperator, MayUpdate, GetDexOperator,
         GetDexOperatorByOwner, MAIN_DEX_ID, DexID

LEMMA OperatorStep == OperatorInv /\ [DexNext]_dexVars => OperatorInv'
<1> SUFFICES ASSUME OperatorInv, [DexNext]_dexVars PROVE OperatorInv'
  OBVIOUS
<1>1. DexTypeOK'
  BY DexTypeStep DEF OperatorInv
<1>2. MapHasRecords'
  <2>1. ASSUME NEW o \in RegID, CreateDexOperator(o) PROVE MapHasRecords'
    BY <2>1, OperatorCreate
  <2>2. ASSUME NEW id \in DexID, NEW o \in RegID, UpdateDexOperator(id, o) PROVE MapHasRecords'
    BY <2>2, OperatorUpdate
  <2>3. ASSUME UNCHANGED operatorVars PROVE MapHasRecords'
    BY <2>3 DEF OperatorInv, MapHasRecords, operatorVars
  <2>4. ASSUME NEW id \in OrderId, NEW order \in Order,
               \/ CreateActiveOrder(id, order) \/ UpdateActiveOrder(id, order)
               \/ EraseActiveOrder(id, order)
        PROVE  UNCHANGED operatorVars
    BY <2>4 DEF CreateActiveOrder, UpdateActiveOrder, EraseActiveOrder
  <2>5. UNCHANGED dexVars => UNCHANGED operatorVars
    BY DEF dexVars, operatorVars
  <2> QED
    BY <2>1, <2>2, <2>3, <2>4, <2>5 DEF DexNext
<1> QED
  BY <1>1, <1>2 DEF OperatorInv

-----------------------------------------------------------------------------
(* Orders                                                                  *)

\* The copies of the orders of a cache m, without that of one id.
Others(m, id) ==
    {Entry(MakeBlockOrderKey(i, m[i]), m[i]) : i \in {j \in OrderId : m[j] # Absent /\ j # id}}

\* The order of an id is copied under a key no other order has, whatever block and type
\* it is of: taking away what is under that key leaves the copies of the others.
LEMMA EraseLeavesOthers ==
    ASSUME OrderInv, NEW id \in OrderId, NEW order \in Order,
           activeOrderCache[id] = Absent \/ SameCord(activeOrderCache[id], order)
    PROVE  EraseData(blockOrdersCache, MakeBlockOrderKey(id, order)) = Others(activeOrderCache, id)
<1> DEFINE copy(i) == Entry(MakeBlockOrderKey(i, activeOrderCache[i]), activeOrderCache[i])
<1>1. \A i \in OrderId : i # id => copy(i).key # MakeBlockOrderKey(id, order)
  BY DEF Entry, MakeBlockOrderKey
<1>2. activeOrderCache[id] # Absent => copy(id).key = MakeBlockOrderKey(id, order)
  BY DEF Entry, MakeBlockOrderKey, SameCord
<1>3. blockOrdersCache = {copy(i) : i \in {j \in OrderId : activeOrderCache[j] # Absent}}
  BY DEF OrderInv, OrdersAgree
<1>4. Others(activeOrderCache, id) =
          {copy(i) : i \in {j \in OrderId : activeOrderCache[j] # Absent /\ j # id}}
  BY DEF Others
<1> HIDE DEF copy
<1> QED
  BY <1>1, <1>2, <1>3, <1>4 DEF EraseData

LEMMA OrderInit == DexInit => OrderInv
<1> SUFFICES ASSUME DexInit PROVE OrdersAgree
  BY DexTypeInit DEF OrderInv
<1>1. {i \in OrderId : activeOrderCache[i] # Absent} = {}
  BY DEF DexInit
<1> QED
  BY <1>1 DEF DexInit, OrdersAgree

\* CreateActiveOrder and UpdateActiveOrder write the order and its copy.
LEMMA OrderSet ==
    ASSUME OrderInv, NEW id \in OrderId, NEW order \in Order,
           activeOrderCache[id] = Absent \/ SameCord(activeOrderCache[id], order),
           activeOrderCache' = [activeOrderCache EXCEPT ![id] = order],
           blockOrdersCache' = SetData(blockOrdersCache, MakeBlockOrderKey(id, order), order)
    PROVE  OrdersAgree'
<1>1. blockOrdersCache' = Others(activeOrderCache, id) \union {Entry(MakeBlockOrderKey(id, order), order)}
  BY EraseLeavesOthers DEF SetData
<1>2. \A i \in OrderId : activeOrderCache'[i] = IF i = id THEN order ELSE activeOrderCache[i]
  BY DEF OrderInv, DexTypeOK
<1>3. order # Absent
  BY OrderAssumption
<1> QED
  BY <1>1, <1>2, <1>3 DEF OrdersAgree, Others

LEMMA OrderErase ==
    ASSUME OrderInv, NEW id \in OrderId, NEW order \in Order, EraseActiveOrder(id, order)
    PROVE  OrdersAgree'
<1>1. blockOrdersCache' = Others(activeOrderCache, id)
  BY EraseLeavesOthers DEF EraseActiveOrder
<1>2. \A i \in OrderId : activeOrderCache'[i] = IF i = id THEN Absent ELSE activeOrderCache[i]
  BY DEF EraseActiveOrder, OrderInv, DexTypeOK
<1> QED
  BY <1>1, <1>2 DEF OrdersAgree, Others

LEMMA OrderStep == OrderInv /\ [DexNext]_dexVars => OrderInv'
<1> SUFFICES ASSUME OrderInv, [DexNext]_dexVars PROVE OrderInv'
  OBVIOUS
<1>1. DexTypeOK'
  BY DexTypeStep DEF OrderInv
<1>2. OrdersAgree'
  <2>1. ASSUME NEW id \in OrderId, NEW order \in Order,
               CreateActiveOrder(id, order) \/ UpdateActiveOrder(id, order)
        PROVE  OrdersAgree'
    BY <2>1, OrderSet DEF CreateActiveOrder, UpdateActiveOrder
  <2>2. ASSUME NEW id \in OrderId, NEW order \in Order, EraseActiveOrder(id, order)
        PROVE  OrdersAgree'
    BY <2>2, OrderErase
  <2>3. ASSUME UNCHANGED orderVars PROVE OrdersAgree'
    BY <2>3 DEF OrderInv, OrdersAgree, orderVars
  <2>4. ASSUME NEW o \in RegID, CreateDexOperator(o) PROVE UNCHANGED orderVars
    BY <2>4 DEF CreateDexOperator
  <2>5. ASSUME NEW id \in DexID, NEW o \in RegID, UpdateDexOperator(id, o)
        PROVE  UNCHANGED orderVars
    BY <2>5 DEF UpdateDexOperator
  <2>6. UNCHANGED dexVars => UNCHANGED orderVars
    BY DEF dexVars, orderVars
  <2> QED
    BY <2>1, <2>2, <2>3, <2>4, <2>5, <2>6 DEF DexNext
<1> QED
  BY <1>1, <1>2 DEF OrderInv

-----------------------------------------------------------------------------
\* The records of operators and orders have the right types.
THEOREM DexTypeCorrect == DexSpec => []DexTypeOK
  BY DexTypeInit, DexTypeStep, PTL DEF DexSpec

\* What the records and the map of the owners contain, for any operators and owners.
THEOREM MapAlwaysHasRecords == DexSpec => []MapHasRecords
<1>1. OperatorInv => MapHasRecords
  BY DEF OperatorInv
<1> QED
  BY <1>1, OperatorInit, OperatorStep, PTL DEF DexSpec

\* GetDexOperatorByOwner finds an operator exactly for its owner, however operators are
\* created and passed on, the one of the configuration among them.
THEOREM OperatorsAlwaysAgree == DexSpec => []OperatorsAgree
  BY LookupsAgree, OperatorInit, OperatorStep, PTL DEF DexSpec

\* The orders sorted by block are the active orders, for any orders, blocks and types.
THEOREM OrdersAlwaysAgree == DexSpec => []OrdersAgree
<1>1. OrderInv => OrdersAgree
  BY DEF OrderInv
<1> QED
  BY <1>1, OrderInit, OrderStep, PTL DEF DexSpec

-----------------------------------------------------------------------------
(* SysGovern *)

\* The minimum is a uint8_t: with 383 governors it is 256 - 256.
FewGovernors == Cardinality(GetGovernors) <= 382

\* Nobody is counted twice.
ApprovalsDiffer == \A p \in Proposal : IsInjective(approvals_cache[p])

GovernInv == GovernTypeOK /\ IsFiniteSet(governors_cache) /\ ApprovalsDiffer

LEMMA GovernInvInit == GovernInit => GovernInv
BY FS_EmptySet DEF GovernInit, GovernInv, GovernTypeOK, ApprovalsDiffer, IsInjective

\* A sequence stays without repetitions when it gets an element it does not contain.
LEMMA ApprovalAppended ==
    ASSUME NEW S, NEW s \in Seq(S), NEW e \in S, IsInjective(s), ~Contains(s, e),
           NEW t, t = Append(s, e)
    PROVE  t \in Seq(S) /\ IsInjective(t)
<1>1. /\ Len(s) \in Nat /\ DOMAIN s = 1..Len(s)
      /\ t \in Seq(S) /\ DOMAIN t = 1..(Len(s) + 1)
    OBVIOUS
<1>2. /\ \A i \in 1..Len(s) : t[i] = s[i]
      /\ t[Len(s) + 1] = e
    OBVIOUS
<1>3. \A i \in 1..Len(s) : s[i] # e
    BY DEF Contains
<1>4. ASSUME NEW i \in 1..(Len(s) + 1), NEW j \in 1..(Len(s) + 1), t[i] = t[j]
      PROVE  i = j
    <2>1. CASE i \in 1..Len(s) /\ j \in 1..Len(s)
        BY <1>1, <1>2, <1>4, <2>1 DEF IsInjective
    <2>2. CASE i = Len(s) + 1 \/ j = Len(s) + 1
        BY <1>1, <1>2, <1>3, <1>4, <2>2
    <2>3. QED
        BY <1>1, <2>1, <2>2
<1>5. \A i, j \in DOMAIN t : t[i] = t[j] => i = j
    BY <1>1, <1>4
<1>6. IsInjective(t)
    BY <1>5 DEF IsInjective
<1>7. QED
    BY <1>1, <1>6

LEMMA GovernInvStep == GovernInv /\ [GovernNext]_governVars => GovernInv'
<1> SUFFICES ASSUME GovernInv, [GovernNext]_governVars PROVE GovernInv'
    OBVIOUS
<1>1. ASSUME NEW g \in GovernorID, AddGovernor(g) \/ EraseGovernor(g) PROVE GovernInv'
    <2>1. IsFiniteSet(governors_cache')
        BY <1>1, FS_AddElement, FS_RemoveElement DEF AddGovernor, EraseGovernor, GovernInv
    <2>2. QED
        BY <1>1, <2>1 DEF AddGovernor, EraseGovernor, GovernInv, GovernTypeOK, ApprovalsDiffer
<1>2. ASSUME NEW p \in Proposal, SetProposal(p) PROVE GovernInv'
    BY <1>2 DEF SetProposal, GovernInv, GovernTypeOK, ApprovalsDiffer
<1>3. ASSUME NEW p \in Proposal, NEW g \in GovernorID, SetApproval(p, g) PROVE GovernInv'
    <2>1. PICK s : s = approvals_cache[p] /\ s \in Seq(GovernorID) /\ IsInjective(s) /\ ~Contains(s, g)
        BY <1>3 DEF SetApproval, GovernInv, GovernTypeOK, ApprovalsDiffer
    <2>2. PICK longer : /\ longer = Append(s, g)
                        /\ longer \in Seq(GovernorID) /\ IsInjective(longer)
        <3>1. PICK longer : longer = Append(s, g)
            OBVIOUS
        <3>2. longer \in Seq(GovernorID) /\ IsInjective(longer)
            BY <2>1, <3>1, ApprovalAppended
        <3>3. QED
            BY <3>1, <3>2
    <2>3. /\ approvals_cache' = [approvals_cache EXCEPT ![p] = longer]
          /\ UNCHANGED <<governors_cache, proposals_cache>>
        BY <1>3, <2>1, <2>2 DEF SetApproval
    <2>4. GovernTypeOK'
        BY <2>2, <2>3 DEF GovernInv, GovernTypeOK
    <2>5. ASSUME NEW q \in Proposal PROVE IsInjective(approvals_cache'[q])
        BY <2>2, <2>3 DEF GovernInv, GovernTypeOK, ApprovalsDiffer
    <2>6. ApprovalsDiffer'
        BY <2>5 DEF ApprovalsDiffer, IsInjective
    <2>7. QED
        BY <2>3, <2>4, <2>6 DEF GovernInv
<1>4. CASE UNCHANGED governVars
    BY <1>4 DEF governVars, GovernInv, GovernTypeOK, ApprovalsDiffer
<1>5. QED
    BY <1>1, <1>2, <1>3, <1>4 DEF GovernNext

\* As many approvals as approvers.
LEMMA ApproversCounted ==
    ASSUME NEW S, NEW s \in Seq(S), IsInjective(s)
    PROVE  IsFiniteSet(ToSet(s)) /\ Cardinality(ToSet(s)) = Len(s)
<1>1. Len(s) \in Nat /\ DOMAIN s = 1..Len(s)
    OBVIOUS
<1>2. s \in [1..Len(s) -> ToSet(s)]
    BY <1>1 DEF ToSet
<1>3. s \in Bijection(1..Len(s), ToSet(s))
    BY <1>1, <1>2 DEF Bijection, Injection, Surjection, ToSet, IsInjective
<1>4. ExistsBijection(1..Len(s), ToSet(s))
    BY <1>3 DEF ExistsBijection
<1>5. QED
    BY <1>1, <1>4, FS_CountingElements, FS_NatBijection

\* Two of three governors, rounded up, are more than half of them.
LEMMA QuorumIsMajority ==
    ASSUME NEW n \in Nat, 0 < n, n <= 382
    PROVE  /\ (n - n \div 3) % 256 \in 1..n
           /\ n < 2 * ((n - n \div 3) % 256)
<1>1. PICK t \in Nat : t = n \div 3 /\ 3 * t <= n /\ n < 3 * t + 3
    OBVIOUS
<1>2. n - t \in 1..255
    BY <1>1
<1>3. (n - t) % 256 = n - t
    BY <1>2
<1>4. QED
    BY <1>1, <1>2, <1>3

\* Approvers of two proposals without one in common would be more than the governors.
LEMMA QuorumsInvariant == ASSUME FewGovernors, GovernInv PROVE QuorumsMeet
<1>1. PICK G : G = GetGovernors
    OBVIOUS
<1>2. G \in SUBSET GovernorID /\ G # {}
    BY <1>1, GovernorAssumption DEF GetGovernors, GovernInv, GovernTypeOK
<1>3. IsFiniteSet(G) /\ Cardinality(G) \in Nat
    BY <1>1, FS_Singleton, FS_CardinalityType DEF GetGovernors, GovernInv
<1>4. 0 < Cardinality(G) /\ Cardinality(G) <= 382
    BY <1>1, <1>2, <1>3, FS_EmptySet DEF FewGovernors
<1>5. PICK m : m = GetGovernorApprovalMinCount
    OBVIOUS
<1>6. m \in 1..Cardinality(G) /\ Cardinality(G) < 2 * m
    BY <1>1, <1>3, <1>4, <1>5, QuorumIsMajority DEF GetGovernorApprovalMinCount
<1>7. ASSUME NEW p \in Proposal, NEW q \in Proposal,
             ToSet(approvals_cache[p]) \subseteq G, GetApprovalCount(p) >= m,
             ToSet(approvals_cache[q]) \subseteq G, GetApprovalCount(q) >= m
      PROVE  ToSet(approvals_cache[p]) \intersect ToSet(approvals_cache[q]) # {}
    <2>1. PICK A, B : A = ToSet(approvals_cache[p]) /\ B = ToSet(approvals_cache[q])
        OBVIOUS
    <2>2. IsFiniteSet(A) /\ Cardinality(A) = Len(approvals_cache[p])
        BY <2>1, ApproversCounted DEF GovernInv, GovernTypeOK, ApprovalsDiffer
    <2>3. IsFiniteSet(B) /\ Cardinality(B) = Len(approvals_cache[q])
        BY <2>1, ApproversCounted DEF GovernInv, GovernTypeOK, ApprovalsDiffer
    <2>4. Cardinality(A) \in Nat /\ Cardinality(B) \in Nat /\ Cardinality(A) >= m /\ Cardinality(B) >= m
        BY <1>7, <2>2, <2>3, FS_CardinalityType DEF GetApprovalCount
    <2>5. SUFFICES ASSUME A \cap B = {} PROVE FALSE
        BY <2>1
    <2>6. Cardinality(A \cup B) = Cardinality(A) + Cardinality(B)
        <3>1. Cardinality(A \cup B) = Cardinality(A) + Cardinality(B) - Cardinality(A \cap B)
            BY <2>2, <2>3, FS_Union
        <3>2. Cardinality(A \cap B) = 0
            BY <2>5, FS_EmptySet
        <3>3. QED
            BY <2>4, <3>1, <3>2
    <2>7. Cardinality(A \cup B) <= Cardinality(G)
        <3>1. A \cup B \in SUBSET G
            BY <1>7, <2>1
        <3>2. QED
            BY <1>3, <3>1, FS_Subset
    <2>8. QED
        BY <1>3, <1>6, <2>4, <2>6, <2>7
<1>8. QED
    BY <1>1, <1>5, <1>6, <1>7 DEF QuorumsMeet

\* Whoever becomes governor or ceases to be one, and whatever is proposed and approved: while
\* there are at most 382 governors, GetGovernorApprovalMinCount is a count they can reach, and
\* two proposals that reach it among them have an approver in common.
THEOREM QuorumsAlwaysMeet == GovernSpec => [](FewGovernors => QuorumsMeet)
<1>1. GovernInv => (FewGovernors => QuorumsMeet)
    BY QuorumsInvariant
<1>2. QED
    BY GovernInvInit, GovernInvStep, <1>1, PTL DEF GovernSpec

-----------------------------------------------------------------------------
(* TxMemCache *)

TxTypeOK ==
    /\ top \in Level
    /\ txids \in [Level -> [Tx -> {"true", "false", "none"}]]

\* Levels that are not open have no entries.
TxInv == TxTypeOK /\ \A l \in Level : l > top => txids[l] = Cleared

LEMMA TxInvInit == ASSUME TxInit PROVE TxInv
BY TxConstants DEF TxInit, TxInv, TxTypeOK, Level, Cleared

LEMMA TxInvStep == ASSUME TxInv, [TxNext]_txVars PROVE TxInv'
<1> USE TxConstants DEF Level, TxInv, TxTypeOK
<1>0. Cleared \in [Tx -> {"true", "false", "none"}]
    BY DEF Cleared
<1>1. CASE Open
    BY <1>1 DEF Open, Cleared
<1>2. CASE Drop
    BY <1>0, <1>2 DEF Drop
<1>3. CASE Clear
    BY <1>0, <1>3 DEF Clear
<1>4. CASE Restart
    BY <1>0, <1>4 DEF Restart
<1>5. ASSUME NEW block \in SUBSET Tx, AddBlockTx(block) PROVE TxInv'
    BY <1>5 DEF AddBlockTx, Cleared
<1>6. ASSUME NEW block \in SUBSET Tx, RemoveBlockTx(block) PROVE TxInv'
    BY <1>6 DEF RemoveBlockTx, Cleared
<1>7. ASSUME NEW l \in 2..top, Flush(l) PROVE TxInv'
    <2>1. PICK merged : merged = [t \in Tx |-> BatchWrite(l - 1, t)]
        OBVIOUS
    <2>2. l \in Level /\ l - 1 \in Level /\ l - 1 + 1 = l
        OBVIOUS
    <2>3. merged \in [Tx -> {"true", "false", "none"}]
        BY <2>1, <2>2 DEF BatchWrite
    <2>4. txids' = [txids EXCEPT ![l - 1] = merged, ![l] = Cleared] /\ top' = top
        BY <1>7, <2>1 DEF Flush
    <2>5. QED
        BY <1>0, <2>2, <2>3, <2>4
<1>8. CASE UNCHANGED txVars
    BY <1>8 DEF txVars, Cleared
<1>9. QED
    BY <1>1, <1>2, <1>3, <1>4, <1>5, <1>6, <1>7, <1>8 DEF TxNext

\* What a level shows is its own entry, or what its base shows.
LEMMA HasTxHere ==
    ASSUME TxTypeOK, NEW l \in Level, NEW t \in Tx
    PROVE  /\ txids[l][t] = "true" => HasTx(l, t)
           /\ txids[l][t] = "false" => ~HasTx(l, t)
           /\ txids[l][t] = "none" => (HasTx(l, t) <=> HasTx(l - 1, t))
<1> USE TxConstants DEF TxTypeOK, Level
<1>1. txids[l][t] = "true" => HasTx(l, t)
    BY DEF HasTx
<1>2. txids[l][t] = "false" => ~HasTx(l, t)
    BY DEF HasTx
<1>3. txids[l][t] = "none" => (HasTx(l, t) <=> HasTx(l - 1, t))
    BY DEF HasTx
<1>4. QED
    BY <1>1, <1>2, <1>3

\* The same in the next state.
LEMMA HasTxHereNext ==
    ASSUME TxTypeOK', NEW l \in Level, NEW t \in Tx
    PROVE  /\ txids'[l][t] = "true" => HasTx(l, t)'
           /\ txids'[l][t] = "false" => ~HasTx(l, t)'
           /\ txids'[l][t] = "none" => (HasTx(l, t)' <=> HasTx(l - 1, t)')
<1> USE TxConstants DEF TxTypeOK, Level
<1>1. txids'[l][t] = "true" => HasTx(l, t)'
    BY DEF HasTx
<1>2. txids'[l][t] = "false" => ~HasTx(l, t)'
    BY DEF HasTx
<1>3. ASSUME txids'[l][t] = "none" PROVE HasTx(l, t)' <=> HasTx(l - 1, t)'
    <2>1. ASSUME HasTx(l, t)' PROVE HasTx(l - 1, t)'
        BY <1>3, <2>1 DEF HasTx
    <2>2. ASSUME HasTx(l - 1, t)' PROVE HasTx(l, t)'
        BY <1>3, <2>2 DEF HasTx
    <2>3. QED
        BY <2>1, <2>2
<1>4. QED
    BY <1>1, <1>2, <1>3

\* Below the root there is nothing.
LEMMA HasTxNothing == \A t : ~HasTx(0, t) /\ ~HasTx(0, t)'
BY DEF HasTx

\* Entries that stay at the levels below and at l, what l shows stays.
LEMMA HasTxSame ==
    ASSUME NEW l \in Level, NEW t \in Tx,
           \A i \in 1..l : txids'[i][t] = txids[i][t]
    PROVE  HasTx(l, t)' <=> HasTx(l, t)
BY TxConstants DEF HasTx, Level

\* What a level shows depends on the levels from m + 1 on, and on what level m shows.
LEMMA HasTxAbove ==
    ASSUME NEW m \in Level, NEW l \in Level, m <= l, NEW t \in Tx,
           HasTx(m, t)' <=> HasTx(m, t),
           \A i \in (m + 1)..l : txids'[i][t] = txids[i][t]
    PROVE  HasTx(l, t)' <=> HasTx(l, t)
<1> USE TxConstants DEF Level
<1>1. HasTx(l, t) <=> \/ \E i \in (m + 1)..l : /\ txids[i][t] = "true"
                                               /\ \A j \in (i + 1)..l : txids[j][t] = "none"
                      \/ HasTx(m, t) /\ \A j \in (m + 1)..l : txids[j][t] = "none"
    <2>1. ASSUME HasTx(l, t)
          PROVE  \/ \E i \in (m + 1)..l : /\ txids[i][t] = "true"
                                          /\ \A j \in (i + 1)..l : txids[j][t] = "none"
                 \/ HasTx(m, t) /\ \A j \in (m + 1)..l : txids[j][t] = "none"
        BY <2>1 DEF HasTx
    <2>2. ASSUME NEW i \in (m + 1)..l, txids[i][t] = "true", \A j \in (i + 1)..l : txids[j][t] = "none"
          PROVE  HasTx(l, t)
        BY <2>2 DEF HasTx
    <2>3. ASSUME HasTx(m, t), \A j \in (m + 1)..l : txids[j][t] = "none"
          PROVE  HasTx(l, t)
        BY <2>3 DEF HasTx
    <2>4. QED
        BY <2>1, <2>2, <2>3
<1>2. HasTx(l, t)' <=> \/ \E i \in (m + 1)..l : /\ txids'[i][t] = "true"
                                                /\ \A j \in (i + 1)..l : txids'[j][t] = "none"
                       \/ HasTx(m, t)' /\ \A j \in (m + 1)..l : txids'[j][t] = "none"
    <2>1. ASSUME HasTx(l, t)'
          PROVE  \/ \E i \in (m + 1)..l : /\ txids'[i][t] = "true"
                                          /\ \A j \in (i + 1)..l : txids'[j][t] = "none"
                 \/ HasTx(m, t)' /\ \A j \in (m + 1)..l : txids'[j][t] = "none"
        BY <2>1 DEF HasTx
    <2>2. ASSUME NEW i \in (m + 1)..l, txids'[i][t] = "true", \A j \in (i + 1)..l : txids'[j][t] = "none"
          PROVE  HasTx(l, t)'
        BY <2>2 DEF HasTx
    <2>3. ASSUME HasTx(m, t)', \A j \in (m + 1)..l : txids'[j][t] = "none"
          PROVE  HasTx(l, t)'
        BY <2>3 DEF HasTx
    <2>4. QED
        BY <2>1, <2>2, <2>3
<1>3. QED
    BY <1>1, <1>2

-----------------------------------------------------------------------------
(* The operations, as the store sees them. *)

Views(n) == [1..n -> [Tx -> {"true", "false"}]]

LEMMA ViewNow ==
    TxView \in Views(top) /\ \A l \in 1..top, t \in Tx : TxView[l][t] = "true" <=> HasTx(l, t)
BY DEF TxView, Views

LEMMA ViewNext ==
    ASSUME NEW n, top' = n, NEW f \in Views(n),
           \A l \in 1..n, t \in Tx : f[l][t] = "true" <=> HasTx(l, t)'
    PROVE  TxView' = f
<1>1. ASSUME NEW l \in 1..n
      PROVE  f[l] = [t \in Tx |-> IF HasTx(l, t)' THEN "true" ELSE "false"]
    BY DEF Views
<1>2. TxView' = [l \in 1..n |-> [t \in Tx |-> IF HasTx(l, t)' THEN "true" ELSE "false"]]
    BY DEF TxView
<1>3. f = [l \in 1..n |-> f[l]]
    BY DEF Views
<1>4. QED
    BY <1>1, <1>2, <1>3

LEMMA TopIsLevel == ASSUME TxInv PROVE top \in Nat /\ 1 <= top /\ top <= MaxLevel /\ MaxLevel \in Nat
BY TxConstants DEF TxInv, TxTypeOK, Level

LEMMA OpenBegins == ASSUME TxInv, Open PROVE Store!Begin
<1>1. top < MaxLevel /\ top' = top + 1 /\ txids' = txids /\ top \in Nat /\ 1 <= top /\ top + 1 \in Level
    BY TopIsLevel DEF Open, Level
<1>2. ASSUME NEW l \in 1..(top + 1), NEW t \in Tx PROVE HasTx(l, t)' <=> HasTx(l, t)
    <2>1. l \in Level /\ \A i \in 1..l : txids'[i] = txids[i]
        BY <1>1, TopIsLevel DEF Level
    <2>2. QED
        BY <2>1, HasTxSame
<1>3. \A t \in Tx : HasTx(top + 1, t) <=> HasTx(top, t)
    BY <1>1, HasTxHere DEF TxInv, Cleared
<1>4. PICK f, n : n = top + 1 /\ f = [l \in 1..n |-> IF l = top + 1 THEN TxView[top] ELSE TxView[l]]
    OBVIOUS
<1>5. f \in Views(n)
    BY <1>1, <1>4, ViewNow DEF Views
<1>6. ASSUME NEW l \in 1..n, NEW t \in Tx PROVE f[l][t] = "true" <=> HasTx(l, t)'
    BY <1>1, <1>2, <1>3, <1>4, ViewNow
<1>7. TxView' = f
    BY <1>1, <1>4, <1>5, <1>6, ViewNext
<1>8. QED
    BY <1>1, <1>4, <1>7 DEF Store!Begin

LEMMA DropAborts == ASSUME TxInv, Drop PROVE Store!Abort
<1>1. top > 1 /\ top' = top - 1 /\ top \in Nat /\ top <= MaxLevel /\ MaxLevel \in Nat
    BY TopIsLevel DEF Drop
<1>2. ASSUME NEW l \in 1..(top - 1), NEW t \in Tx PROVE HasTx(l, t)' <=> HasTx(l, t)
    <2>1. l \in Level /\ \A i \in 1..l : txids'[i] = txids[i]
        BY <1>1 DEF Drop, Level, TxInv, TxTypeOK
    <2>2. QED
        BY <2>1, HasTxSame
<1>3. PICK f, n : n = top - 1 /\ f = [l \in 1..n |-> TxView[l]]
    OBVIOUS
<1>4. f \in Views(n)
    BY <1>1, <1>3, ViewNow DEF Views
<1>5. ASSUME NEW l \in 1..n, NEW t \in Tx PROVE f[l][t] = "true" <=> HasTx(l, t)'
    BY <1>1, <1>2, <1>3, ViewNow
<1>6. TxView' = f
    BY <1>1, <1>3, <1>4, <1>5, ViewNext
<1>7. QED
    BY <1>1, <1>3, <1>6 DEF Store!Abort

\* A step that changes entries of the innermost level only changes what that one shows.
LEMMA TopChanges ==
    ASSUME TxInv, NEW n, n = top, top' = n, \A l \in 1..(n - 1) : txids'[l] = txids[l],
           NEW g \in [Tx -> {"true", "false"}], \A t \in Tx : g[t] = "true" <=> HasTx(n, t)'
    PROVE  TxView' = [TxView EXCEPT ![top] = g]
<1>1. n \in Nat /\ 1 <= n /\ n <= MaxLevel /\ MaxLevel \in Nat
    BY TopIsLevel
<1>2. ASSUME NEW l \in 1..(n - 1), NEW t \in Tx PROVE HasTx(l, t)' <=> HasTx(l, t)
    <2>1. l \in Level /\ \A i \in 1..l : txids'[i] = txids[i]
        BY <1>1 DEF Level
    <2>2. QED
        BY <2>1, HasTxSame
<1>3. PICK f : f = [TxView EXCEPT ![n] = g]
    OBVIOUS
<1>4. f \in Views(n)
    BY <1>1, <1>3, ViewNow DEF Views
<1>5. ASSUME NEW l \in 1..n, NEW t \in Tx PROVE f[l][t] = "true" <=> HasTx(l, t)'
    <2>1. TxView \in Views(n) /\ (TxView[l][t] = "true" <=> HasTx(l, t))
        BY ViewNow
    <2>2. CASE l = n
        BY <1>1, <1>3, <2>1, <2>2 DEF Views
    <2>3. CASE l # n
        <3>1. l \in 1..(n - 1) /\ f[l] = TxView[l]
            BY <1>1, <1>3, <2>1, <2>3 DEF Views
        <3>2. QED
            BY <1>2, <2>1, <3>1
    <2>4. QED
        BY <2>2, <2>3
<1>6. TxView' = f
    BY <1>4, <1>5, ViewNext
<1>7. QED
    BY <1>3, <1>6

LEMMA ClearResets == ASSUME TxInv, TxInv', Clear PROVE Store!Reset
<1>0. PICK n : n = top
    OBVIOUS
<1>1. /\ n \in Nat /\ 1 <= n /\ n <= MaxLevel /\ MaxLevel \in Nat /\ top' = n /\ n \in Level
      /\ txids' = [txids EXCEPT ![n] = Cleared] /\ txids \in [Level -> [Tx -> {"true", "false", "none"}]]
    BY <1>0, TopIsLevel DEF Clear, Level, TxInv, TxTypeOK
<1>2. /\ \A l \in 1..(n - 1) : txids'[l] = txids[l]
      /\ \A t \in Tx : txids'[n][t] = "none"
    BY <1>1 DEF Level, Cleared
<1>3. ASSUME NEW t \in Tx
      PROVE  HasTx(n, t)' <=> (n # 1 /\ HasTx(n - 1, t))
    <2>1. HasTx(n, t)' <=> HasTx(n - 1, t)'
        BY <1>1, <1>2, HasTxHereNext DEF TxInv
    <2>2. CASE n = 1
        <3>1. n - 1 = 0
            BY <2>2
        <3>2. QED
            BY <2>1, <2>2, <3>1, HasTxNothing
    <2>3. CASE n # 1
        <3>1. n - 1 \in Level /\ \A i \in 1..(n - 1) : txids'[i] = txids[i]
            BY <1>1, <1>2, <2>3 DEF Level
        <3>2. HasTx(n - 1, t)' <=> HasTx(n - 1, t)
            BY <3>1, HasTxSame
        <3>3. QED
            BY <2>1, <2>3, <3>2
    <2>4. QED
        BY <2>2, <2>3
<1>4. PICK g : g = IF n = 1 THEN NoTx ELSE TxView[n - 1]
    OBVIOUS
<1>5. /\ g \in [Tx -> {"true", "false"}]
      /\ \A t \in Tx : g[t] = "true" <=> (n # 1 /\ HasTx(n - 1, t))
    <2>1. CASE n = 1
        BY <1>4, <2>1 DEF NoTx
    <2>2. CASE n # 1
        <3>1. n - 1 \in 1..n /\ g = TxView[n - 1]
            BY <1>1, <1>4, <2>2
        <3>2. QED
            BY <2>2, <3>1, <1>0, ViewNow DEF Views
    <2>3. QED
        BY <2>1, <2>2
<1>6. TxView' = [TxView EXCEPT ![n] = g]
    BY <1>1, <1>2, <1>3, <1>0, <1>5, TopChanges
<1>7. QED
    BY <1>0, <1>1, <1>4, <1>6 DEF Store!Reset

\* A block that is connected or disconnected: its transactions are there, or not, at once.
LEMMA BlockPuts ==
    ASSUME TxInv, TxInv', NEW block \in SUBSET Tx, NEW v \in {"true", "false"},
           \/ v = "true" /\ AddBlockTx(block)
           \/ v = "false" /\ RemoveBlockTx(block)
    PROVE  Store!PutAll(block, v)
<1>0. PICK n : n = top
    OBVIOUS
<1>1. n \in Nat /\ 1 <= n /\ n <= MaxLevel /\ MaxLevel \in Nat /\ n \in Level
      /\ txids \in [Level -> [Tx -> {"true", "false", "none"}]]
    BY <1>0, TopIsLevel DEF Level, TxInv, TxTypeOK
<1>2. PICK mark \in {"true", "false", "none"} :
          /\ top' = n
          /\ txids' = [txids EXCEPT ![n] = [t \in Tx |-> IF t \in block THEN mark ELSE txids[n][t]]]
          /\ mark = "true" <=> v = "true"
          /\ mark = "none" => n = 1
    <2>1. CASE v = "true" /\ AddBlockTx(block)
        BY <1>0, <2>1 DEF AddBlockTx
    <2>2. CASE v = "false" /\ RemoveBlockTx(block)
        BY <1>0, <2>2 DEF RemoveBlockTx
    <2>3. QED
        BY <2>1, <2>2
<1>3. /\ \A l \in 1..(n - 1) : txids'[l] = txids[l]
      /\ \A t \in Tx : txids'[n][t] = IF t \in block THEN mark ELSE txids[n][t]
    BY <1>1, <1>2 DEF Level
<1>4. ASSUME NEW t \in block PROVE HasTx(n, t)' <=> v = "true"
    <2>1. txids'[n][t] = mark /\ t \in Tx
        BY <1>3
    <2>2. CASE mark = "true"
        BY <1>1, <1>2, <2>1, <2>2, HasTxHereNext DEF TxInv
    <2>3. CASE mark = "false"
        BY <1>1, <1>2, <2>1, <2>3, HasTxHereNext DEF TxInv
    <2>4. CASE mark = "none"
        <3>1. HasTx(n, t)' <=> HasTx(n - 1, t)'
            BY <1>1, <2>1, <2>4, HasTxHereNext DEF TxInv
        <3>2. n - 1 = 0
            BY <1>2, <2>4
        <3>3. QED
            BY <1>2, <2>4, <3>1, <3>2, HasTxNothing
    <2>5. QED
        BY <2>2, <2>3, <2>4
<1>5. ASSUME NEW t \in Tx \ block PROVE HasTx(n, t)' <=> HasTx(n, t)
    <2>1. \A i \in 1..n : txids'[i][t] = txids[i][t]
        BY <1>1, <1>3
    <2>2. QED
        BY <1>1, <2>1, HasTxSame
<1>6. PICK g : g = [t \in Tx |-> IF t \in block THEN v ELSE TxView[n][t]]
    OBVIOUS
<1>7. /\ g \in [Tx -> {"true", "false"}]
      /\ \A t \in Tx : g[t] = "true" <=> HasTx(n, t)'
    <2>1. n \in 1..n
        BY <1>1
    <2>2. /\ TxView[n] \in [Tx -> {"true", "false"}]
          /\ \A t \in Tx : TxView[n][t] = "true" <=> HasTx(n, t)
        BY <2>1, <1>0, ViewNow DEF Views
    <2>3. QED
        BY <1>4, <1>5, <1>6, <2>2
<1>8. TxView' = [TxView EXCEPT ![n] = g]
    BY <1>2, <1>3, <1>0, <1>7, TopChanges
<1>9. QED
    BY <1>0, <1>1, <1>2, <1>6, <1>8 DEF Store!PutAll

\* A flush: the base shows what the cache above it showed, and nothing else changes.
LEMMA FlushCommits ==
    ASSUME TxInv, TxInv', NEW l \in 2..top, Flush(l)
    PROVE  Store!Commit(l)
<1>0. PICK n, m : n = top /\ m = l - 1
    OBVIOUS
<1>1. /\ n \in Nat /\ n <= MaxLevel /\ MaxLevel \in Nat /\ top' = n
      /\ l \in Nat /\ m \in Nat /\ 1 <= m /\ m + 1 = l /\ l <= n /\ l \in Level /\ m \in Level
      /\ txids \in [Level -> [Tx -> {"true", "false", "none"}]]
    BY <1>0, TopIsLevel DEF Flush, Level, TxInv, TxTypeOK
<1>2. PICK merged : merged = [t \in Tx |-> BatchWrite(m, t)]
    OBVIOUS
<1>3. txids' = [txids EXCEPT ![m] = merged, ![l] = Cleared]
    BY <1>0, <1>2 DEF Flush
<1>4. /\ \A i \in Level : i # m /\ i # l => txids'[i] = txids[i]
      /\ txids'[m] = merged /\ txids'[l] = Cleared
    BY <1>1, <1>3
<1>5. ASSUME NEW i \in 1..(m - 1), NEW t \in Tx PROVE HasTx(i, t)' <=> HasTx(i, t)
    <2>1. i \in Level /\ \A j \in 1..i : txids'[j] = txids[j]
        BY <1>1, <1>4 DEF Level
    <2>2. QED
        BY <2>1, HasTxSame
<1>6. ASSUME NEW t \in Tx PROVE HasTx(m - 1, t)' <=> HasTx(m - 1, t)
    <2>1. CASE m = 1
        <3>1. m - 1 = 0
            BY <2>1
        <3>2. QED
            BY <3>1, HasTxNothing
    <2>2. CASE m # 1
        BY <1>1, <1>5, <2>2
    <2>3. QED
        BY <2>1, <2>2
<1>7. ASSUME NEW t \in Tx PROVE HasTx(m, t)' <=> HasTx(l, t)
    <2>1. txids'[m][t] = BatchWrite(m, t)
        BY <1>2, <1>4
    <2>2. CASE txids[l][t] = "none"
        <3>1. txids'[m][t] = txids[m][t]
            BY <1>1, <2>1, <2>2 DEF BatchWrite
        <3>2. HasTx(l, t) <=> HasTx(m, t)
            BY <1>0, <1>1, <2>2, HasTxHere DEF TxInv
        <3>3. \A i \in 1..m : txids'[i][t] = txids[i][t]
            BY <1>1, <1>4, <3>1 DEF Level
        <3>4. QED
            BY <1>1, <3>2, <3>3, HasTxSame
    <2>3. CASE txids[l][t] = "true"
        <3>1. txids'[m][t] = "true"
            BY <1>1, <2>1, <2>3 DEF BatchWrite
        <3>2. QED
            BY <1>1, <2>3, <3>1, HasTxHere, HasTxHereNext DEF TxInv
    <2>4. CASE txids[l][t] = "false" /\ m # 1
        <3>1. txids'[m][t] = "false"
            BY <1>1, <2>1, <2>4 DEF BatchWrite
        <3>2. QED
            BY <1>1, <2>4, <3>1, HasTxHere, HasTxHereNext DEF TxInv
    <2>5. CASE txids[l][t] = "false" /\ m = 1
        <3>1. txids'[m][t] = "none" /\ m - 1 = 0
            BY <1>1, <2>1, <2>5 DEF BatchWrite
        <3>2. ~HasTx(m, t)'
            BY <1>1, <3>1, HasTxHereNext, HasTxNothing DEF TxInv
        <3>3. ~HasTx(l, t)
            BY <1>1, <2>5, HasTxHere DEF TxInv
        <3>4. QED
            BY <3>2, <3>3
    <2>6. QED
        BY <1>1, <2>2, <2>3, <2>4, <2>5
<1>8. ASSUME NEW i \in l..n, NEW t \in Tx PROVE HasTx(i, t)' <=> HasTx(i, t)
    <2>1. txids'[l][t] = "none" /\ l - 1 = m
        BY <1>1, <1>4 DEF Cleared
    <2>2. HasTx(l, t)' <=> HasTx(m, t)'
        BY <1>1, <2>1, HasTxHereNext DEF TxInv
    <2>3. HasTx(l, t)' <=> HasTx(l, t)
        BY <1>7, <2>2
    <2>4. i \in Level /\ l <= i /\ \A j \in (l + 1)..i : txids'[j][t] = txids[j][t]
        BY <1>1, <1>4 DEF Level
    <2>5. QED
        BY <1>1, <2>3, <2>4, HasTxAbove
<1>9. PICK f : f = [TxView EXCEPT ![m] = TxView[l]]
    OBVIOUS
<1>10. l \in 1..n /\ m \in 1..n /\ TxView \in Views(n)
    BY <1>0, <1>1, ViewNow
<1>11. f \in Views(n)
    BY <1>9, <1>10 DEF Views
<1>12. ASSUME NEW i \in 1..n, NEW t \in Tx PROVE f[i][t] = "true" <=> HasTx(i, t)'
    <2>1. /\ TxView[i][t] = "true" <=> HasTx(i, t)
          /\ TxView[l][t] = "true" <=> HasTx(l, t)
        BY <1>0, <1>10, ViewNow
    <2>2. CASE i = m
        <3>1. f[i] = TxView[l]
            BY <1>9, <1>10, <2>2 DEF Views
        <3>2. QED
            BY <1>7, <2>1, <2>2, <3>1
    <2>3. CASE i # m
        <3>1. f[i] = TxView[i]
            BY <1>9, <1>10, <2>3 DEF Views
        <3>2. i \in 1..(m - 1) \/ i \in l..n
            BY <1>1, <2>3
        <3>3. QED
            BY <1>5, <1>8, <2>1, <3>1, <3>2
    <2>4. QED
        BY <2>2, <2>3
<1>13. TxView' = f
    BY <1>1, <1>11, <1>12, ViewNext
<1>14. QED
    BY <1>0, <1>1, <1>9, <1>13 DEF Store!Commit

LEMMA RestartCrashes == ASSUME TxInv', Restart PROVE Store!Crash
<1>1. top' = 1 /\ 1 \in Level /\ \A t \in Tx : txids'[1][t] = "none"
    BY TxConstants DEF Restart, Level, Cleared
<1>2. ASSUME NEW t \in Tx PROVE ~HasTx(1, t)'
    <2>1. 1 - 1 = 0
        OBVIOUS
    <2>2. QED
        BY <1>1, <2>1, HasTxHereNext, HasTxNothing DEF TxInv
<1>3. PICK f : f = [l \in 1..1 |-> NoTx]
    OBVIOUS
<1>4. f \in Views(1) /\ \A l \in 1..1, t \in Tx : l = 1 /\ f[l][t] = "false"
    BY <1>3 DEF Views, NoTx
<1>5. TxView' = f
    BY <1>1, <1>2, <1>4, ViewNext
<1>6. QED
    BY <1>1, <1>3, <1>5 DEF Store!Crash, NoTx

LEMMA TxInitRefines == ASSUME TxInit PROVE Store!Init
<1>1. top = 1 /\ 1 \in Level /\ \A t \in Tx : txids[1][t] = "none"
    BY TxConstants DEF TxInit, Level, Cleared
<1>2. ASSUME NEW t \in Tx PROVE ~HasTx(1, t)
    <2>1. 1 - 1 = 0
        OBVIOUS
    <2>2. QED
        BY <1>1, <2>1, TxInvInit, HasTxHere, HasTxNothing DEF TxInv
<1>3. TxView = [l \in 1..1 |-> NoTx]
    BY <1>1, <1>2 DEF TxView, NoTx
<1>4. QED
    BY <1>1, <1>3 DEF Store!Init, Store!Content, NoTx

\* Each operation is the one of the store it is named after.
LEMMA TxStepsRefine == ASSUME TxInv, TxInv' PROVE StepsCorrespond
<1>1. /\ Open => Store!Begin
      /\ Drop => Store!Abort
      /\ Clear => Store!Reset
      /\ Restart => Store!Crash
    BY OpenBegins, DropAborts, ClearResets, RestartCrashes
<1>2. ASSUME NEW block \in SUBSET Tx
      PROVE  /\ AddBlockTx(block) => Store!PutAll(block, "true")
             /\ RemoveBlockTx(block) => Store!PutAll(block, "false")
    BY BlockPuts
<1>3. ASSUME NEW l \in 2..top PROVE Flush(l) => Store!Commit(l)
    BY FlushCommits
<1>4. QED
    BY <1>1, <1>2, <1>3 DEF StepsCorrespond

LEMMA TxNextRefines ==
    ASSUME TxInv, TxInv', [TxNext]_txVars
    PROVE  Store!Next \/ UNCHANGED Store!vars
<1>1. CASE UNCHANGED txVars
    <2>1. TxView' = TxView /\ top' = top
        BY <1>1 DEF txVars, TxView, HasTx
    <2>2. QED
        BY <2>1 DEF Store!vars, NoTx
<1>2. CASE Open \/ Drop \/ Clear \/ Restart
    BY <1>2, TxStepsRefine DEF StepsCorrespond, Store!Next
<1>3. ASSUME NEW block \in SUBSET Tx, AddBlockTx(block) PROVE Store!Next
    <2>1. Store!PutAll(block, "true")
        BY <1>3, BlockPuts
    <2>2. QED
        BY <2>1 DEF Store!Next
<1>4. ASSUME NEW block \in SUBSET Tx, RemoveBlockTx(block) PROVE Store!Next
    <2>1. Store!PutAll(block, "false")
        BY <1>4, BlockPuts
    <2>2. QED
        BY <2>1 DEF Store!Next
<1>5. ASSUME NEW l \in 2..top, Flush(l) PROVE Store!Next
    <2>1. Store!Commit(l)
        BY <1>5, FlushCommits
    <2>2. QED
        BY <2>1 DEF Store!Next
<1>6. QED
    BY <1>1, <1>2, <1>3, <1>4, <1>5 DEF TxNext

\* The transactions of the recent blocks, kept at any number of levels: a store with
\* nested transactions.
THEOREM TxCacheImplements == TxSpec => TxImplementsStore
<1>1. TxInit => TxInv /\ Store!Init
    BY TxInvInit, TxInitRefines
<1>2. TxInv /\ [TxNext]_txVars => TxInv'
    BY TxInvStep
<1>3. TxInv /\ TxInv' /\ [TxNext]_txVars => [Store!Next]_(Store!vars)
    BY TxNextRefines
<1>4. TxInv /\ TxInv' /\ [TxNext]_txVars => [StepsCorrespond]_txVars
    BY TxStepsRefine
<1>5. QED
    BY <1>1, <1>2, <1>3, <1>4, PTL DEF TxSpec, TxImplementsStore, Store!Spec
=============================================================================
