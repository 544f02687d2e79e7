-------------------------- MODULE ChainStateProofs --------------------------
(***************************************************************************)
(* What the end of the process can leave in the databases of               *)
(* CCacheDBManager (FlushInOrder), and that its caches show the state of   *)
(* the tip, whatever was connected, undone and flushed (StateIsOfTip).     *)
(***************************************************************************)
EXTENDS ChainState, WellFoundedInduction, TLAPS

Position == 1..Len(FlushOrder)

\* The values of the databases do not matter here.
FlushTypeOK ==
    /\ \E S : written \in Seq(S)
    /\ epoch \in [Db -> 0..Len(written)]
    /\ disk = [d \in Db |-> disk[d]]

\* A Flush has written the databases up to flushed, from the caches as it found them.
FlushUnderWay ==
    IF phase = "flush"
    THEN /\ flushed + 1 \in Position /\ flushed \in Nat
         /\ Len(written) > 0 /\ written[Len(written)] = mgr
         /\ \A i \in 1..flushed : epoch[FlushOrder[i]] = Len(written)
    ELSE flushed = 0

\* Earlier in the order, never of an older Flush.
EpochsFall == \A i, j \in Position : i <= j => epoch[FlushOrder[i]] >= epoch[FlushOrder[j]]

\* Before the first crash in a Flush, those it has not come to are of the one before it.
OneFlushApart ==
    ~mixed => \A i \in Position : i > flushed =>
                epoch[FlushOrder[i]] = IF phase = "flush" THEN Len(written) - 1 ELSE Len(written)

DiskIsWritten == \A d \in Db : disk[d] = WrittenBy(epoch[d])[d]

FlushInv == FlushTypeOK /\ FlushUnderWay /\ EpochsFall /\ OneFlushApart /\ DiskIsWritten

-----------------------------------------------------------------------------
\* Each database has its place in the order.
LEMMA Positions ==
    /\ Len(FlushOrder) \in Nat /\ Len(FlushOrder) > 0 /\ DOMAIN FlushOrder = Position
    /\ \A i \in Position : FlushOrder[i] \in Db
    /\ \A d \in Db : \E i \in Position : FlushOrder[i] = d
    /\ \A i, j \in Position : FlushOrder[i] = FlushOrder[j] => i = j
<1>1. Len(FlushOrder) \in Nat /\ DOMAIN FlushOrder = Position /\ BlockDb \in Db
    BY FlushAssumption DEF Position
<1>2. \A d \in Db : \E i \in Position : FlushOrder[i] = d
    BY <1>1 DEF Db, Range
<1>3. \A i \in Position : FlushOrder[i] \in Db
    BY <1>1 DEF Db, Range
<1>4. Len(FlushOrder) > 0
    BY <1>1, <1>2 DEF Position
<1>5. QED
    BY <1>1, <1>2, <1>3, <1>4, FlushAssumption

\* A database before another has its place before it.
LEMMA BeforeIs ==
    ASSUME NEW d, NEW e, Before(d, e)
    PROVE  \E i, j \in Position : i < j /\ FlushOrder[i] = d /\ FlushOrder[j] = e
BY Positions DEF Before

\* The invariant is strong enough.
LEMMA InvGivesOrder ==
    ASSUME FlushInv
    PROVE  FlushInOrder
<1>1. \A d \in Db : epoch[d] \in Nat
    BY DEF FlushInv, FlushTypeOK
<1>2. ASSUME NEW d \in Db, NEW e \in Db, Before(d, e)
      PROVE  epoch[d] >= epoch[e] /\ (~mixed => epoch[d] - epoch[e] <= 1)
    <2>1. PICK i \in Position, j \in Position : i < j /\ FlushOrder[i] = d /\ FlushOrder[j] = e
        BY <1>2, BeforeIs
    <2>2. epoch[d] >= epoch[e]
        BY <2>1 DEF FlushInv, EpochsFall, Position
    <2>3. epoch[d] <= Len(written) /\ Len(written) \in Nat
        BY DEF FlushInv, FlushTypeOK
    <2>4. ASSUME ~mixed PROVE epoch[d] - epoch[e] <= 1
        <3>1. CASE j > flushed
            <4>1. epoch[e] = Len(written) \/ epoch[e] = Len(written) - 1
                BY <2>1, <2>4, <3>1 DEF FlushInv, OneFlushApart
            <4>2. QED
                BY <1>1, <2>3, <4>1
        <3>2. CASE ~ (j > flushed)
            <4>1. phase = "flush" /\ flushed \in Nat
                BY <3>2 DEF FlushInv, FlushUnderWay, Position
            <4>2. j \in 1..flushed
                BY <3>2, <4>1 DEF Position
            <4>3. epoch[e] = Len(written)
                BY <2>1, <4>1, <4>2 DEF FlushInv, FlushUnderWay
            <4>4. QED
                BY <1>1, <2>3, <4>3
        <3>3. QED
            BY <3>1, <3>2
    <2>5. QED
        BY <2>2, <2>4
<1>3. QED
    BY <1>2 DEF FlushInv, FlushInOrder, DiskIsWritten

\* New databases have it.
LEMMA FlushInit ==
    ASSUME Init
    PROVE  FlushInv
<1>1. /\ disk = Content /\ phase = "idle" /\ flushed = 0 /\ written = <<>>
      /\ epoch = [d \in Db |-> 0]
    BY DEF Init
<1>2. Len(written) = 0 /\ written \in Seq({})
    BY <1>1
<1>3. \A i \in Position : epoch[FlushOrder[i]] = 0
    BY <1>1, Positions
<1>4. FlushTypeOK /\ FlushUnderWay
    BY <1>1, <1>2 DEF FlushTypeOK, FlushUnderWay, Content
<1>5. EpochsFall /\ OneFlushApart
    BY <1>1, <1>2, <1>3 DEF EpochsFall, OneFlushApart
<1>6. DiskIsWritten
    BY <1>1 DEF DiskIsWritten, WrittenBy
<1>7. QED
    BY <1>4, <1>5, <1>6 DEF FlushInv

\* So has whatever neither flushes nor writes.
LEMMA NoFlushPreserves ==
    ASSUME FlushInv, UNCHANGED <<disk, written, epoch, mixed, flushed>>,
           \/ phase # "flush" /\ phase' # "flush"
           \/ UNCHANGED <<phase, mgr>>
    PROVE  FlushInv'
<1>1. FlushTypeOK' /\ EpochsFall' /\ DiskIsWritten'
    BY DEF FlushInv, FlushTypeOK, EpochsFall, DiskIsWritten, WrittenBy
<1>2. FlushUnderWay' /\ OneFlushApart'
    BY DEF FlushInv, FlushUnderWay, OneFlushApart
<1>3. QED
    BY <1>1, <1>2 DEF FlushInv

\* Flush begins: what the caches show is what it is going to write.
LEMMA StartFlushPreserves ==
    ASSUME FlushInv, StartFlush
    PROVE  FlushInv'
<1>1. /\ phase = "idle" /\ phase' = "flush" /\ written' = Append(written, mgr)
      /\ UNCHANGED <<disk, mgr, flushed, epoch, mixed>>
    BY DEF StartFlush
<1>2. PICK S : written \in Seq(S)
    BY DEF FlushInv, FlushTypeOK
<1>3. /\ written' \in Seq(S \union {mgr}) /\ Len(written') = Len(written) + 1
      /\ Len(written) \in Nat /\ written'[Len(written')] = mgr
      /\ \A n \in 1..Len(written) : written'[n] = written[n]
    <2>1. written \in Seq(S \union {mgr}) /\ mgr \in S \union {mgr}
        BY <1>2
    <2>2. QED
        BY <1>1, <2>1
<1>4. flushed = 0 /\ \A d \in Db : epoch[d] \in 0..Len(written)
    BY <1>1 DEF FlushInv, FlushUnderWay, FlushTypeOK
<1>5. FlushTypeOK'
    BY <1>1, <1>3 DEF FlushInv, FlushTypeOK
<1>6. FlushUnderWay'
    BY <1>1, <1>3, <1>4, Positions DEF FlushUnderWay, Position
<1>7. EpochsFall' /\ OneFlushApart'
    BY <1>1, <1>3, Positions DEF FlushInv, EpochsFall, OneFlushApart
<1>8. DiskIsWritten'
    BY <1>1, <1>3, <1>4 DEF FlushInv, DiskIsWritten, WrittenBy
<1>9. QED
    BY <1>5, <1>6, <1>7, <1>8 DEF FlushInv

\* The next database is written.
LEMMA FlushNextPreserves ==
    ASSUME FlushInv, FlushNext
    PROVE  FlushInv'
<1> DEFINE p == flushed + 1
           d == FlushOrder[p]
<1>1. /\ phase = "flush" /\ disk' = [disk EXCEPT ![d] = mgr[d]]
      /\ epoch' = [epoch EXCEPT ![d] = Len(written)]
      /\ IF p = Len(FlushOrder)
         THEN phase' = "idle" /\ flushed' = 0 ELSE phase' = "flush" /\ flushed' = p
      /\ UNCHANGED <<mgr, written, mixed>>
    BY DEF FlushNext
<1>2. /\ p \in Position /\ flushed \in Nat /\ Len(written) \in Nat /\ Len(written) > 0
      /\ written[Len(written)] = mgr
      /\ \A i \in 1..flushed : epoch[FlushOrder[i]] = Len(written)
      /\ epoch \in [Db -> 0..Len(written)] /\ disk = [c \in Db |-> disk[c]]
    BY <1>1 DEF FlushInv, FlushUnderWay, FlushTypeOK
<1>3. d \in Db /\ Len(FlushOrder) \in Nat
    BY <1>2, Positions
<1>4. /\ \A i \in Position : i # p => epoch'[FlushOrder[i]] = epoch[FlushOrder[i]]
      /\ epoch'[FlushOrder[p]] = Len(written)
    BY <1>1, <1>2, <1>3, Positions
<1>5. FlushTypeOK'
    <2>1. \E S : written' \in Seq(S)
        BY <1>1 DEF FlushInv, FlushTypeOK
    <2>2. epoch' \in [Db -> 0..Len(written')]
        BY <1>1, <1>2, <1>3
    <2>3. disk' = [c \in Db |-> disk'[c]]
        BY <1>1, <1>2, <1>3
    <2>4. QED
        BY <2>1, <2>2, <2>3 DEF FlushTypeOK
<1>6. \A i \in 1..p : epoch'[FlushOrder[i]] = Len(written)
    <2>1. \A i \in 1..p : i = p \/ (i \in 1..flushed /\ i \in Position)
        BY <1>2, <1>3 DEF Position
    <2>2. QED
        BY <1>2, <1>4, <2>1
<1>7. FlushUnderWay'
    BY <1>1, <1>2, <1>3, <1>6 DEF FlushUnderWay, Position
<1>8. EpochsFall'
    <2> SUFFICES ASSUME NEW i \in Position, NEW j \in Position, i <= j
                 PROVE  epoch'[FlushOrder[i]] >= epoch'[FlushOrder[j]]
        BY DEF EpochsFall
    <2>1. epoch'[FlushOrder[j]] <= Len(written) /\ epoch'[FlushOrder[j]] \in Nat
        BY <1>2, <1>4, Positions
    <2>2. CASE i \in 1..p
        BY <1>6, <2>1, <2>2
    <2>3. CASE i > p
        <3>1. i # p /\ j # p
            BY <1>2, <2>3 DEF Position
        <3>2. QED
            BY <1>4, <3>1 DEF FlushInv, EpochsFall
    <2>4. QED
        BY <1>2, <2>2, <2>3 DEF Position
<1>9. OneFlushApart'
    <2> SUFFICES ASSUME ~mixed, NEW i \in Position, i > flushed'
                 PROVE  epoch'[FlushOrder[i]] =
                          IF phase' = "flush" THEN Len(written) - 1 ELSE Len(written)
        BY <1>1 DEF OneFlushApart
    <2>1. CASE p = Len(FlushOrder)
        BY <1>1, <1>2, <1>3, <1>6, <2>1 DEF Position
    <2>2. CASE p # Len(FlushOrder)
        <3>1. i # p /\ i > flushed
            BY <1>1, <1>2, <2>2 DEF Position
        <3>2. QED
            BY <1>1, <1>4, <2>2, <3>1 DEF FlushInv, OneFlushApart
    <2>3. QED
        BY <2>1, <2>2
<1>10. DiskIsWritten'
    <2> SUFFICES ASSUME NEW c \in Db PROVE disk'[c] = WrittenBy(epoch'[c])[c]
        BY <1>1 DEF DiskIsWritten, WrittenBy
    <2>1. CASE c = d
        BY <1>1, <1>2, <1>3, <2>1 DEF WrittenBy
    <2>2. CASE c # d
        BY <1>1, <1>2, <2>2 DEF FlushInv, DiskIsWritten, WrittenBy
    <2>3. QED
        BY <2>1, <2>2
<1>11. QED
    BY <1>5, <1>7, <1>8, <1>9, <1>10 DEF FlushInv

\* The restart forgets what no database was written from; a Flush that was cut off shows.
LEMMA RestartPreserves ==
    ASSUME FlushInv, Restart
    PROVE  FlushInv'
<1> DEFINE m == Max(Range(epoch))
<1>1. /\ phase' = "idle" /\ flushed' = 0 /\ written' = SubSeq(written, 1, m)
      /\ mixed' = (mixed \/ \E d \in Db : epoch[d] # epoch[BlockDb])
      /\ UNCHANGED <<disk, epoch>>
    BY DEF Restart
<1>2. PICK S : written \in Seq(S)
    BY DEF FlushInv, FlushTypeOK
<1>3. Len(written) \in Nat /\ epoch \in [Db -> 0..Len(written)] /\ 1 \in Position
    BY <1>2, Positions DEF FlushInv, FlushTypeOK, Position
<1>4. m \in Range(epoch) /\ \A x \in Range(epoch) : m >= x
    <2>1. epoch[FlushOrder[1]] \in Range(epoch)
        BY <1>3, Positions DEF Range
    <2>2. \A x \in Range(epoch) : epoch[FlushOrder[1]] >= x
        <3> TAKE x \in Range(epoch)
        <3>1. PICK d \in Db : x = epoch[d]
            BY <1>3 DEF Range
        <3>2. PICK i \in Position : FlushOrder[i] = d
            BY Positions
        <3>3. 1 <= i
            BY DEF Position
        <3>4. QED
            BY <1>3, <3>1, <3>2, <3>3 DEF FlushInv, EpochsFall
    <2>3. QED
        BY <2>1, <2>2 DEF Max
<1>5. m \in 0..Len(written) /\ \A d \in Db : epoch[d] \in 0..m
    BY <1>3, <1>4 DEF Range
<1> HIDE DEF m
<1>6. /\ written' \in Seq(S) /\ Len(written') = m
      /\ \A n \in 1..m : written'[n] = written[n]
    BY <1>1, <1>2, <1>5
<1>7. FlushTypeOK' /\ FlushUnderWay'
    BY <1>1, <1>3, <1>5, <1>6 DEF FlushInv, FlushTypeOK, FlushUnderWay
<1>8. EpochsFall'
    BY <1>1 DEF FlushInv, EpochsFall
<1>9. OneFlushApart'
    <2> SUFFICES ASSUME ~mixed', NEW i \in Position PROVE epoch[FlushOrder[i]] = m
        BY <1>1, <1>6 DEF OneFlushApart
    <2>1. \A d \in Db : epoch[d] = epoch[BlockDb]
        BY <1>1
    <2>2. PICK d \in Db : m = epoch[d]
        BY <1>3, <1>4 DEF Range
    <2>3. QED
        BY <2>1, <2>2, Positions
<1>10. DiskIsWritten'
    <2> SUFFICES ASSUME NEW d \in Db
                 PROVE  (IF epoch[d] = 0 THEN Content ELSE written'[epoch[d]])[d] = disk[d]
        BY <1>1 DEF DiskIsWritten, WrittenBy
    <2>1. epoch[d] = 0 \/ epoch[d] \in 1..m
        BY <1>5
    <2>2. QED
        BY <1>6, <2>1 DEF FlushInv, DiskIsWritten, WrittenBy
<1>11. QED
    BY <1>7, <1>8, <1>9, <1>10 DEF FlushInv

\* Every step keeps it.
LEMMA FlushStep == FlushInv /\ [Next]_vars => FlushInv'
<1> SUFFICES ASSUME FlushInv, [Next]_vars PROVE FlushInv'
    OBVIOUS
<1>1. CASE NewWrapper
    BY <1>1, NoFlushPreserves DEF NewWrapper
<1>2. CASE NewOpLogger
    BY <1>2, NoFlushPreserves DEF NewOpLogger
<1>3. CASE DeleteOpLogger
    BY <1>3, NoFlushPreserves DEF DeleteOpLogger
<1>4. CASE ConnectBlock
    BY <1>4, NoFlushPreserves DEF ConnectBlock
<1>5. CASE RejectBlock
    BY <1>5, NoFlushPreserves DEF RejectBlock
<1>6. CASE DisconnectBlock
    BY <1>6, NoFlushPreserves DEF DisconnectBlock
<1>7. CASE StartFlush
    BY <1>7, StartFlushPreserves
<1>8. CASE FlushNext
    BY <1>8, FlushNextPreserves
<1>9. CASE Restart
    BY <1>9, RestartPreserves
<1>10. CASE Reindex
    <2>1. /\ disk' = Content /\ phase' = "idle" /\ flushed' = 0 /\ written' = <<>>
          /\ epoch' = [d \in Db |-> 0]
        BY <1>10 DEF Reindex
    <2>2. Len(written') = 0 /\ written' \in Seq({})
        BY <2>1
    <2>3. \A i \in Position : epoch'[FlushOrder[i]] = 0
        BY <2>1, Positions
    <2>4. FlushTypeOK' /\ FlushUnderWay'
        BY <2>1, <2>2 DEF FlushTypeOK, FlushUnderWay, Content
    <2>5. EpochsFall' /\ OneFlushApart'
        BY <2>1, <2>2, <2>3 DEF EpochsFall, OneFlushApart
    <2>6. DiskIsWritten'
        BY <2>1 DEF DiskIsWritten, WrittenBy
    <2>7. QED
        BY <2>4, <2>5, <2>6 DEF FlushInv
<1>11. CASE \E d \in Db \ {BlockDb}, v \in Value : SetData(d, v)
    BY <1>11, NoFlushPreserves DEF SetData
<1>12. CASE UNCHANGED vars
    BY <1>12, NoFlushPreserves DEF vars
<1>13. QED
    BY <1>1, <1>2, <1>3, <1>4, <1>5, <1>6, <1>7, <1>8, <1>9, <1>10, <1>11, <1>12 DEF Next

\* For any number of databases in any order, any values and any crashes: each database holds
\* what one Flush wrote of it, and no database a newer one than those flushed before it; by one
\* Flush at most as long as no restart has found them apart.
THEOREM FlushAlwaysInOrder == Spec => []FlushInOrder
<1>1. Init => FlushInv
    BY FlushInit
<1>2. FlushInv => FlushInOrder
    BY InvGivesOrder
<1>3. QED
    BY <1>1, <1>2, FlushStep, PTL DEF Spec

-----------------------------------------------------------------------------
(* Minima: what the recursive functions of the module compute is shown by taking a smallest *)
(* counterexample of it.                                                                     *)

\* A smallest number of a set of numbers.
LEMMA LeastExists ==
    ASSUME NEW Bad \in SUBSET Nat, Bad # {}
    PROVE  \E n \in Bad : \A m \in Bad : n <= m
<1>1. PICK n \in Bad : \A m \in Bad : ~ (<<m, n>> \in OpToRel(<, Nat))
    BY NatLessThanWellFounded, WFMin
<1>2. \A m \in Bad : ~ (m < n)
    BY <1>1 DEF OpToRel
<1>3. QED
    BY <1>2

\* The minimum that MapThenFoldSet takes from a set is one.
LEMMA MinIs ==
    ASSUME NEW S \in SUBSET Nat, S # {}
    PROVE  Min(S) \in S /\ \A m \in S : Min(S) <= m
BY LeastExists DEF Min

-----------------------------------------------------------------------------
(* Execute *)

Back(u, i, a) == UndoTx(u[i], a)

\* g undoes, from s, the transactions of each set of positions.
IsUndo(g, u, s, n) ==
    g = [x \in SUBSET (1..n) |-> IF x = {} THEN s ELSE Back(u, Min(x), g[x \ {Min(x)}])]

\* The function that the fold of Execute chooses exists.
LEMMA UndoExists ==
    ASSUME NEW u, NEW s, NEW n \in Nat
    PROVE  \E g : IsUndo(g, u, s, n)
<1> DEFINE D(k) == {x \in SUBSET (1..n) : \A m \in x : m > n - k}
           Step(h, x) == IF x = {} THEN s ELSE Back(u, Min(x), h[x \ {Min(x)}])
           Solves(h, k) == \A x \in D(k) : h[x] = Step(h, x)
           Bad == {k \in Nat : ~ \E h : Solves(h, k)}
<1>1. ASSUME NEW x \in SUBSET (1..n), x # {}
      PROVE  /\ Min(x) \in x /\ Min(x) \in Nat
             /\ x \ {Min(x)} \in SUBSET (1..n)
             /\ \A m \in x \ {Min(x)} : m \in Nat /\ m > Min(x)
    <2>1. x \in SUBSET Nat
        OBVIOUS
    <2>2. Min(x) \in x /\ \A m \in x : Min(x) <= m
        BY <1>1, <2>1, MinIs
    <2> DEFINE lo == Min(x)
    <2> HIDE DEF lo
    <2>3. lo \in x /\ lo \in Nat /\ \A m \in x : m \in Nat /\ lo <= m
        BY <2>1, <2>2 DEF lo
    <2>4. \A m \in x \ {lo} : m \in Nat /\ m > lo
        BY <2>3
    <2>5. QED
        BY <2>3, <2>4 DEF lo
<1>2. Bad = {}
    <2> SUFFICES ASSUME Bad # {} PROVE FALSE
        OBVIOUS
    <2>1. PICK k \in Bad : \A m \in Bad : k <= m
        <3>1. Bad \in SUBSET Nat
            OBVIOUS
        <3> HIDE DEF Bad
        <3>2. QED
            BY <3>1, LeastExists
    <2>2. CASE k = 0
        <3> DEFINE h == [x \in SUBSET (1..n) |-> s]
        <3>1. \A x \in D(k) : x = {}
            BY <2>2
        <3>2. Solves(h, k)
            BY <3>1
        <3>3. QED
            BY <3>2
    <2>3. CASE k # 0
        <3>1. k \in Nat /\ k - 1 \in Nat /\ k - 1 \notin Bad
            <4>1. k \in Nat
                OBVIOUS
            <4> HIDE DEF Bad
            <4>2. k - 1 \in Bad => k <= k - 1
                BY <2>1
            <4>3. QED
                BY <2>3, <4>1, <4>2
        <3>2. PICK h : Solves(h, k - 1)
            BY <3>1
        <3> DEFINE g == [x \in SUBSET (1..n) |-> IF x \in D(k - 1) THEN h[x] ELSE Step(h, x)]
        <3>3. ASSUME NEW x \in D(k) PROVE g[x] = Step(g, x)
            <4>1. CASE x = {}
                <5>1. x \in D(k - 1)
                    BY <4>1
                <5>2. QED
                    BY <3>2, <4>1, <5>1
            <4>2. CASE x # {}
                <5> DEFINE t == x \ {Min(x)}
                <5>1. /\ Min(x) \in x /\ Min(x) \in Nat /\ t \in SUBSET (1..n)
                      /\ \A m \in t : m \in Nat /\ m > Min(x)
                    BY <1>1, <4>2
                <5>2. Min(x) > n - k
                    BY <5>1
                <5>3. \A m \in t : m > n - (k - 1)
                    BY <3>1, <5>1, <5>2
                <5>4. t \in D(k - 1)
                    BY <5>1, <5>3
                <5>5. g[t] = h[t]
                    BY <5>4
                <5>6. x \in D(k - 1) => h[x] = Step(h, x)
                    BY <3>2
                <5>7. g[x] = Step(h, x)
                    BY <5>6
                <5>8. QED
                    BY <4>2, <5>5, <5>7
            <4>3. QED
                BY <4>1, <4>2
        <3>4. Solves(g, k)
            BY <3>3
        <3>5. QED
            BY <3>4
    <2>4. QED
        BY <2>2, <2>3
<1>3. PICK h : Solves(h, n)
    BY <1>2
<1> DEFINE g == [x \in SUBSET (1..n) |-> h[x]]
<1>4. ASSUME NEW x \in SUBSET (1..n) PROVE g[x] = Step(g, x)
    <2>1. x \in D(n)
        OBVIOUS
    <2>2. h[x] = Step(h, x)
        BY <1>3, <2>1
    <2>3. x # {} => g[x \ {Min(x)}] = h[x \ {Min(x)}]
        OBVIOUS
    <2>4. QED
        BY <2>2, <2>3
<1>5. g = [x \in SUBSET (1..n) |-> Step(g, x)]
    BY <1>4
<1>6. QED
    BY <1>5 DEF IsUndo

\* h[i] is what is left when the transactions from the i-th on have been undone.
IsRun(h, u, s, n) == h[n + 1] = s /\ \A i \in 1..n : h[i] = UndoTx(u[i], h[i + 1])

\* What Execute computes, transaction by transaction from the last.
LEMMA ExecuteSteps ==
    ASSUME NEW u, NEW s, NEW n \in Nat, DOMAIN u = 1..n
    PROVE  \E h : h[1] = Execute(u, s) /\ IsRun(h, u, s, n)
<1> DEFINE Eq(g) == g = [x \in SUBSET (DOMAIN u) |->
                            IF x = {} THEN s ELSE UndoTx(u[Min(x)], g[x \ {Min(x)}])]
           it == CHOOSE g : Eq(g)
<1>1. Eq(it)
    <2>1. PICK g : IsUndo(g, u, s, n)
        BY UndoExists
    <2>2. Eq(g)
        BY <2>1 DEF IsUndo, Back
    <2> HIDE DEF Eq
    <2>3. QED
        BY <2>2
<1>2. Execute(u, s) = it[DOMAIN u]
    BY DEF Execute, FoldRight, MapThenFoldSet
<1> DEFINE h == [i \in 1..n + 1 |-> it[i..n]]
<1> HIDE DEF it
<1>3. h[1] = Execute(u, s)
    BY <1>2
<1>4. h[n + 1] = s
    <2>1. (n + 1)..n = {}
        OBVIOUS
    <2>2. it[{}] = s
        BY <1>1
    <2>3. QED
        BY <2>1, <2>2
<1>5. ASSUME NEW i \in 1..n PROVE h[i] = UndoTx(u[i], h[i + 1])
    <2>1. i..n \in SUBSET (1..n) /\ i \in i..n /\ i..n \in SUBSET Nat
        OBVIOUS
    <2>2. Min(i..n) = i
        <3>1. Min(i..n) \in i..n /\ \A m \in i..n : Min(i..n) <= m
            BY <2>1, MinIs
        <3>2. QED
            BY <2>1, <3>1
    <2>3. (i..n) \ {i} = (i + 1)..n
        OBVIOUS
    <2>4. it[i..n] = UndoTx(u[i], it[(i + 1)..n])
        BY <1>1, <2>1, <2>2, <2>3
    <2>5. h[i] = it[i..n] /\ h[i + 1] = it[(i + 1)..n]
        OBVIOUS
    <2>6. QED
        BY <2>4, <2>5
<1>6. IsRun(h, u, s, n)
    BY <1>4, <1>5 DEF IsRun
<1>7. QED
    BY <1>3, <1>6

\* What Execute leaves in a database that a transaction wrote, the first of them telling, and in
\* one that none wrote.
LEMMA ExecuteShows ==
    ASSUME NEW u, NEW s, NEW n \in Nat, DOMAIN u = 1..n, NEW d \in Db
    PROVE  /\ (\A i \in 1..n : u[i][d] = <<>>) => Execute(u, s)[d] = s[d]
           /\ \A i \in 1..n : u[i][d] # <<>> /\ (\A j \in 1..i - 1 : u[j][d] = <<>>) =>
                  Execute(u, s)[d] = Head(u[i][d])
<1>0. PICK h : h[1] = Execute(u, s) /\ IsRun(h, u, s, n)
    BY ExecuteSteps
<1>1. /\ h[1] = Execute(u, s) /\ h[n + 1] = s
      /\ \A i \in 1..n : h[i] = UndoTx(u[i], h[i + 1])
    BY <1>0 DEF IsRun
<1>2. \A i \in 1..n : h[i][d] = IF u[i][d] = <<>> THEN h[i + 1][d] ELSE Head(u[i][d])
    BY <1>1 DEF UndoTx
\* As far as nothing is to be undone, the value stays.
<1>3. ASSUME NEW i \in 1..n + 1, \A j \in 1..i - 1 : u[j][d] = <<>>
      PROVE  h[1][d] = h[i][d]
    <2> DEFINE Bad == {j \in 1..i : h[j][d] # h[1][d]}
    <2> SUFFICES ASSUME Bad # {} PROVE FALSE
        BY <1>3
    <2>1. PICK j \in Bad : \A m \in Bad : j <= m
        <3>1. Bad \in SUBSET Nat
            OBVIOUS
        <3> HIDE DEF Bad
        <3>2. QED
            BY <3>1, LeastExists
    <2>2. j \in 1..i /\ j # 1 /\ i \in Nat
        BY <1>3
    <2>3. j - 1 \in 1..i - 1 /\ j - 1 \in 1..n /\ (j - 1) + 1 = j
        BY <2>2
    <2>4. h[j - 1][d] = h[j][d]
        BY <1>2, <1>3, <2>3
    <2>5. j - 1 \in Bad
        BY <2>2, <2>3, <2>4
    <2> HIDE DEF Bad
    <2>6. QED
        BY <2>1, <2>2, <2>5
<1>4. ASSUME \A i \in 1..n : u[i][d] = <<>> PROVE Execute(u, s)[d] = s[d]
    <2>1. h[1][d] = h[n + 1][d]
        BY <1>3, <1>4
    <2>2. QED
        BY <1>1, <2>1
<1>5. ASSUME NEW i \in 1..n, u[i][d] # <<>>, \A j \in 1..i - 1 : u[j][d] = <<>>
      PROVE  Execute(u, s)[d] = Head(u[i][d])
    <2>1. h[1][d] = h[i][d]
        BY <1>3, <1>5
    <2>2. QED
        BY <1>1, <1>2, <1>5, <2>1
<1>6. QED
    BY <1>4, <1>5

\* It leads from what shows the databases to what shows them.
LEMMA ExecuteIsState ==
    ASSUME NEW u, NEW s, NEW n \in Nat, DOMAIN u = 1..n, s = [d \in Db |-> s[d]]
    PROVE  Execute(u, s) = [d \in Db |-> Execute(u, s)[d]]
<1>0. PICK h : h[1] = Execute(u, s) /\ IsRun(h, u, s, n)
    BY ExecuteSteps
<1>1. /\ h[1] = Execute(u, s) /\ h[n + 1] = s
      /\ \A i \in 1..n : h[i] = UndoTx(u[i], h[i + 1])
    BY <1>0 DEF IsRun
<1>2. CASE n = 0
    BY <1>1, <1>2
<1>3. CASE n # 0
    <2>1. h[1] = UndoTx(u[1], h[1 + 1])
        BY <1>1, <1>3
    <2>2. QED
        BY <1>1, <2>1 DEF UndoTx
<1>4. QED
    BY <1>2, <1>3

-----------------------------------------------------------------------------
(* The chain of a block *)

\* c is a chain by the parents, with b for its tip.
LinkedTo(c, b) ==
    /\ c \in Seq(1..used)
    /\ (c = <<>> <=> b = NoBlock) /\ (c # <<>> => c[Len(c)] = b)
    /\ \A i \in 1..Len(c) : parent[c[i]] = IF i = 1 THEN NoBlock ELSE c[i - 1]

ParentsAreEarlier == used \in Nat /\ \A b \in 1..used : parent[b] \in 0..b - 1

IsUp(up, n) == up = [c \in 0..n |-> IF c = NoBlock THEN <<>> ELSE Append(up[parent[c]], c)]

\* So does the function that ChainTo defines, as every parent came before its child.
LEMMA UpExists ==
    ASSUME ParentsAreEarlier
    PROVE  \E up : IsUp(up, used)
<1> DEFINE Step(h, c) == IF c = NoBlock THEN <<>> ELSE Append(h[parent[c]], c)
           Solves(h, k) == \A c \in 0..k : h[c] = Step(h, c)
           Bad == {k \in 0..used : ~ \E h : Solves(h, k)}
<1>1. used \in Nat /\ \A c \in 1..used : parent[c] \in 0..c - 1
    BY DEF ParentsAreEarlier
<1>2. Bad = {}
    <2> SUFFICES ASSUME Bad # {} PROVE FALSE
        OBVIOUS
    <2>1. PICK k \in Bad : \A m \in Bad : k <= m
        <3>1. Bad \in SUBSET Nat
            BY <1>1
        <3> HIDE DEF Bad
        <3>2. QED
            BY <3>1, LeastExists
    <2>2. k \in 0..used /\ k \in Nat
        BY <1>1
    <2>3. CASE k = 0
        <3> DEFINE h == [c \in 0..0 |-> <<>>]
        <3>1. Solves(h, k)
            BY <2>3 DEF NoBlock
        <3>2. QED
            BY <3>1
    <2>4. CASE k # 0
        <3>1. k - 1 \in 0..used /\ k - 1 \notin Bad
            <4> HIDE DEF Bad
            <4>1. k - 1 \in Bad => k <= k - 1
                BY <2>1
            <4>2. QED
                BY <1>1, <2>2, <2>4, <4>1
        <3>2. PICK h : Solves(h, k - 1)
            BY <3>1
        <3> DEFINE g == [c \in 0..k |-> IF c = k THEN Step(h, c) ELSE h[c]]
        <3>3. ASSUME NEW c \in 0..k PROVE g[c] = Step(g, c)
            <4>1. CASE c = NoBlock
                BY <2>4, <3>2, <4>1 DEF NoBlock
            <4>2. CASE c # NoBlock
                <5>1. parent[c] \in 0..c - 1 /\ parent[c] \in 0..k - 1 /\ parent[c] # k
                    BY <1>1, <2>2, <4>2 DEF NoBlock
                <5>2. g[parent[c]] = h[parent[c]]
                    BY <2>2, <5>1
                <5>3. c # k => h[c] = Step(h, c)
                    BY <2>2, <3>2
                <5>4. QED
                    BY <4>2, <5>2, <5>3
            <4>3. QED
                BY <4>1, <4>2
        <3>4. Solves(g, k)
            BY <3>3
        <3>5. QED
            BY <2>2, <3>4
    <2>5. QED
        BY <2>3, <2>4
<1>3. PICK h : Solves(h, used)
    BY <1>1, <1>2
<1> DEFINE g == [c \in 0..used |-> h[c]]
<1>4. ASSUME NEW c \in 0..used PROVE g[c] = Step(g, c)
    <2>1. c # NoBlock => parent[c] \in 0..used
        BY <1>1 DEF NoBlock
    <2>2. QED
        BY <1>3, <2>1
<1>5. g = [c \in 0..used |-> Step(g, c)]
    BY <1>4
<1>6. QED
    BY <1>5 DEF IsUp

\* The restart finds the chain of the best block.
LEMMA ChainToIsLinked ==
    ASSUME ParentsAreEarlier, NEW b \in 0..used
    PROVE  LinkedTo(ChainTo(b), b)
<1> DEFINE Eq(up) == up = [c \in 0..used |-> IF c = NoBlock THEN <<>> ELSE Append(up[parent[c]], c)]
           it == CHOOSE up : Eq(up)
<1>1. Eq(it)
    <2>1. PICK g : IsUp(g, used)
        BY UpExists
    <2>2. Eq(g)
        BY <2>1 DEF IsUp
    <2> HIDE DEF Eq
    <2>3. QED
        BY <2>2
<1>2. ChainTo(b) = it[b]
    BY DEF ChainTo
<1> HIDE DEF it
<1>3. used \in Nat /\ \A c \in 1..used : parent[c] \in 0..c - 1
    BY DEF ParentsAreEarlier
<1> DEFINE Bad == {c \in 0..used : ~ LinkedTo(it[c], c)}
<1>4. ASSUME Bad # {} PROVE FALSE
    <2>1. PICK k \in Bad : \A m \in Bad : k <= m
        <3>1. Bad \in SUBSET Nat
            BY <1>3
        <3> HIDE DEF Bad
        <3>2. QED
            BY <1>4, <3>1, LeastExists
    <2>2. k \in 0..used
        OBVIOUS
    <2>3. CASE k = NoBlock
        <3>1. it[k] = <<>>
            BY <1>1, <2>2, <2>3
        <3>2. LinkedTo(it[k], k)
            BY <2>3, <3>1 DEF LinkedTo
        <3>3. QED
            BY <3>2
    <2>4. CASE k # NoBlock
        <3> DEFINE p == parent[k]
                   c == it[p]
        <3>1. p \in 0..k - 1 /\ p \in 0..used /\ p < k /\ k \in 1..used
            BY <1>3, <2>2, <2>4 DEF NoBlock
        <3>2. p \notin Bad
            <4> HIDE DEF Bad, p
            <4>1. p \in Bad => k <= p
                BY <2>1
            <4>2. QED
                BY <3>1, <4>1
        <3>3. LinkedTo(c, p)
            BY <3>1, <3>2
        <3>4. it[k] = Append(c, k)
            BY <1>1, <2>2, <2>4
        <3> HIDE DEF c, Bad
        <3>5. /\ c \in Seq(1..used) /\ (c = <<>> <=> p = NoBlock) /\ (c # <<>> => c[Len(c)] = p)
              /\ \A i \in 1..Len(c) : parent[c[i]] = IF i = 1 THEN NoBlock ELSE c[i - 1]
            BY <3>3 DEF LinkedTo
        <3> DEFINE e == Append(c, k)
        <3>6. /\ e \in Seq(1..used) /\ Len(e) = Len(c) + 1 /\ e[Len(c) + 1] = k /\ e # <<>>
              /\ \A i \in 1..Len(c) : e[i] = c[i]
              /\ Len(c) \in Nat
            BY <3>1, <3>5
        <3> HIDE DEF e
        <3>7. ASSUME NEW i \in 1..Len(e)
              PROVE  parent[e[i]] = IF i = 1 THEN NoBlock ELSE e[i - 1]
            <4>1. CASE i = Len(c) + 1
                <5>1. CASE c = <<>>
                    BY <3>5, <3>6, <4>1, <5>1
                <5>2. CASE c # <<>>
                    <6>1. Len(c) > 0 /\ i # 1 /\ i - 1 = Len(c)
                        BY <3>5, <3>6, <4>1, <5>2
                    <6>2. e[i - 1] = p
                        BY <3>5, <3>6, <5>2, <6>1
                    <6>3. QED
                        BY <3>6, <4>1, <6>1, <6>2
                <5>3. QED
                    BY <5>1, <5>2
            <4>2. CASE i # Len(c) + 1
                <5>1. i \in 1..Len(c) /\ (i # 1 => i - 1 \in 1..Len(c))
                    BY <3>6, <4>2
                <5>2. QED
                    BY <3>5, <3>6, <5>1
            <4>3. QED
                BY <4>1, <4>2
        <3>8. LinkedTo(e, k)
            BY <2>4, <3>6, <3>7 DEF LinkedTo
        <3>9. QED
            BY <3>4, <3>8 DEF Bad, e
    <2>5. QED
        BY <2>3, <2>4
<1>5. QED
    BY <1>2, <1>4

-----------------------------------------------------------------------------
\* A sequence, of whatever.
IsList(s) == \E S : s \in Seq(S)

\* The length of a list, and its positions.
LEMMA Listed ==
    /\ IsList(<<>>)
    /\ \A s : IsList(s) => Len(s) \in Nat /\ DOMAIN s = 1..Len(s) /\ (s = <<>> <=> Len(s) = 0)
BY DEF IsList

\* The same of a list with another entry.
LEMMA Appended ==
    ASSUME NEW s, IsList(s), NEW v
    PROVE  /\ IsList(Append(s, v)) /\ Len(Append(s, v)) = Len(s) + 1 /\ Append(s, v) # <<>>
           /\ \A i \in 1..Len(s) : Append(s, v)[i] = s[i]
           /\ Append(s, v)[Len(s) + 1] = v
           /\ Head(Append(s, v)) = IF s = <<>> THEN v ELSE Head(s)
<1>1. PICK S : s \in Seq(S)
    BY DEF IsList
<1>2. s \in Seq(S \union {v}) /\ v \in S \union {v}
    BY <1>1
<1> DEFINE T == S \union {v}
<1> HIDE DEF T
<1>3. /\ Append(s, v) \in Seq(T) /\ Len(Append(s, v)) = Len(s) + 1
      /\ Append(s, v) # <<>> /\ Len(s) \in Nat
      /\ \A i \in 1..Len(s) : Append(s, v)[i] = s[i]
      /\ Append(s, v)[Len(s) + 1] = v
    BY <1>2 DEF T
<1>4. Head(Append(s, v)) = Append(s, v)[1] /\ (s # <<>> => Head(s) = s[1] /\ Len(s) >= 1)
    BY <1>2, <1>3 DEF T
<1>5. s = <<>> => Len(s) = 0
    OBVIOUS
<1>6. QED
    BY <1>3, <1>4, <1>5 DEF IsList

-----------------------------------------------------------------------------
(* What the logs of a block's transactions restore *)

\* The logs u take database d from what s shows of it back to what t shows.
RestoresAt(u, s, t, d) ==
    /\ (\A i \in 1..Len(u) : u[i][d] = <<>>) => s[d] = t[d]
    /\ \A i \in 1..Len(u) :
           u[i][d] # <<>> /\ (\A j \in 1..i - 1 : u[j][d] = <<>>) => Head(u[i][d]) = t[d]

Restores(u, s, t) == \A d \in Db \ {BlockDb} : RestoresAt(u, s, t, d)

\* Another transaction that has written nothing yet.
LEMMA RestoresEmpty ==
    ASSUME NEW u, IsList(u), NEW l, NEW s, NEW t, NEW d, RestoresAt(u, s, t, d), l[d] = <<>>
    PROVE  RestoresAt(Append(u, l), s, t, d)
<1> DEFINE v == Append(u, l)
<1>1. /\ Len(v) = Len(u) + 1 /\ Len(u) \in Nat /\ v[Len(u) + 1] = l
      /\ \A i \in 1..Len(u) : v[i] = u[i]
    BY Appended, Listed
<1> HIDE DEF v
<1>2. (\A i \in 1..Len(v) : v[i][d] = <<>>) => s[d] = t[d]
    BY <1>1 DEF RestoresAt
<1>3. ASSUME NEW i \in 1..Len(v), v[i][d] # <<>>, \A j \in 1..i - 1 : v[j][d] = <<>>
      PROVE  Head(v[i][d]) = t[d]
    <2>1. i \in 1..Len(u) /\ \A j \in 1..i - 1 : j \in 1..Len(u)
        BY <1>1, <1>3
    <2>2. QED
        BY <1>1, <1>3, <2>1 DEF RestoresAt
<1>4. RestoresAt(v, s, t, d)
    BY <1>2, <1>3 DEF RestoresAt
<1>5. QED
    BY <1>4 DEF v

\* A write of the last transaction to the database: what it replaces is logged.
LEMMA RestoresWrite ==
    ASSUME NEW u, IsList(u), NEW l, NEW k, NEW s, NEW r, NEW t, NEW d,
           RestoresAt(Append(u, l), s, t, d), IsList(l[d]), k[d] = Append(l[d], s[d])
    PROVE  RestoresAt(Append(u, k), r, t, d)
<1> DEFINE v == Append(u, l)
           w == Append(u, k)
           n == Len(u) + 1
<1>1. /\ Len(v) = n /\ Len(w) = n /\ Len(u) \in Nat /\ v[n] = l /\ w[n] = k
      /\ \A i \in 1..Len(u) : v[i] = u[i] /\ w[i] = u[i]
    BY Appended, Listed
<1>2. k[d] # <<>> /\ Head(k[d]) = IF l[d] = <<>> THEN s[d] ELSE Head(l[d])
    BY Appended
<1>3. RestoresAt(v, s, t, d)
    OBVIOUS
<1> HIDE DEF v, w
<1>4. ~ \A i \in 1..Len(w) : w[i][d] = <<>>
    BY <1>1, <1>2
<1>5. ASSUME NEW i \in 1..Len(w), w[i][d] # <<>>, \A j \in 1..i - 1 : w[j][d] = <<>>
      PROVE  Head(w[i][d]) = t[d]
    <2>1. CASE i = n
        <3>1. \A j \in 1..n - 1 : v[j][d] = <<>>
            BY <1>1, <1>5, <2>1
        <3>2. CASE l[d] = <<>>
            <4>1. \A j \in 1..Len(v) : v[j][d] = <<>>
                BY <1>1, <3>1, <3>2
            <4>2. s[d] = t[d]
                BY <1>3, <4>1 DEF RestoresAt
            <4>3. QED
                BY <1>1, <1>2, <2>1, <3>2, <4>2
        <3>3. CASE l[d] # <<>>
            <4>1. Head(v[n][d]) = t[d]
                BY <1>1, <1>3, <3>1, <3>3 DEF RestoresAt
            <4>2. QED
                BY <1>1, <1>2, <2>1, <3>3, <4>1
        <3>4. QED
            BY <3>2, <3>3
    <2>2. CASE i # n
        <3>1. i \in 1..Len(u) /\ \A j \in 1..i - 1 : j \in 1..Len(u)
            BY <1>1, <2>2
        <3>2. v[i] = w[i] /\ \A j \in 1..i - 1 : v[j] = w[j]
            BY <1>1, <3>1
        <3>3. QED
            BY <1>1, <1>3, <1>5, <3>2 DEF RestoresAt
    <2>3. QED
        BY <2>1, <2>2
<1>6. RestoresAt(w, r, t, d)
    BY <1>4, <1>5 DEF RestoresAt
<1>7. QED
    BY <1>6 DEF w

\* A write of it to another database.
LEMMA RestoresOther ==
    ASSUME NEW u, IsList(u), NEW l, NEW k, NEW s, NEW r, NEW t, NEW d,
           RestoresAt(Append(u, l), s, t, d), k[d] = l[d], r[d] = s[d]
    PROVE  RestoresAt(Append(u, k), r, t, d)
<1> DEFINE v == Append(u, l)
           w == Append(u, k)
<1>1. /\ Len(v) = Len(w) /\ Len(w) = Len(u) + 1 /\ Len(u) \in Nat
      /\ v[Len(u) + 1] = l /\ w[Len(u) + 1] = k
      /\ \A i \in 1..Len(u) : v[i] = u[i] /\ w[i] = u[i]
    BY Appended, Listed
<1>2. RestoresAt(v, s, t, d)
    OBVIOUS
<1> HIDE DEF v, w
<1>3. \A i \in 1..Len(w) : v[i][d] = w[i][d]
    BY <1>1
<1>4. \A i \in 1..Len(w) : \A j \in 1..i - 1 : j \in 1..Len(w)
    BY <1>1
<1>5. RestoresAt(w, r, t, d)
    BY <1>1, <1>2, <1>3, <1>4 DEF RestoresAt
<1>6. QED
    BY <1>5 DEF w

\* And that is what Execute makes of them.
LEMMA ExecuteRestores ==
    ASSUME NEW u, IsList(u), NEW s, NEW t, NEW d \in Db, RestoresAt(u, s, t, d)
    PROVE  Execute(u, s)[d] = t[d]
<1> DEFINE Wrote == {i \in 1..Len(u) : u[i][d] # <<>>}
<1>1. Len(u) \in Nat /\ DOMAIN u = 1..Len(u)
    BY Listed
<1>2. CASE Wrote = {}
    <2>1. \A i \in 1..Len(u) : u[i][d] = <<>>
        BY <1>2
    <2>2. Execute(u, s)[d] = s[d]
        BY <1>1, <2>1, ExecuteShows
    <2>3. QED
        BY <2>1, <2>2 DEF RestoresAt
<1>3. CASE Wrote # {}
    <2>1. PICK i \in Wrote : \A m \in Wrote : i <= m
        <3>1. Wrote \in SUBSET Nat
            BY <1>1
        <3> HIDE DEF Wrote
        <3>2. QED
            BY <1>3, <3>1, LeastExists
    <2>2. i \in 1..Len(u) /\ u[i][d] # <<>>
        OBVIOUS
    <2>3. \A j \in 1..i - 1 : u[j][d] = <<>>
        <3> TAKE j \in 1..i - 1
        <3>1. j \in 1..Len(u) /\ ~ (i <= j)
            BY <1>1, <2>2
        <3>2. j \notin Wrote
            BY <2>1, <3>1
        <3>3. QED
            BY <3>1, <3>2
    <2>4. Execute(u, s)[d] = Head(u[i][d])
        BY <1>1, <2>2, <2>3, ExecuteShows
    <2>5. QED
        BY <2>2, <2>3, <2>4 DEF RestoresAt
<1>4. QED
    BY <1>2, <1>3

-----------------------------------------------------------------------------
(* The invariant *)

\* A value for each database, the best block one of the first n.
IsState(s, n) == s = [d \in Db |-> s[d]] /\ s[BlockDb] \in 0..n

BlocksTypeOK ==
    /\ used \in Nat
    /\ \A b \in 0..used : IsState(stateAt[b], used)
    /\ IsList(undoFile) /\ Len(undoFile) = used /\ \A b \in 1..used : IsList(undoFile[b])
    /\ IsList(parent) /\ Len(parent) = used /\ ParentsAreEarlier
    /\ IsState(mgr, used) /\ \A n \in 1..Len(written) : IsState(written[n], used)

WrapperTypeOK ==
    /\ IsState(cw, used) /\ IsList(vtxundo)
    /\ tx_undo = [d \in Db |-> tx_undo[d]] /\ \A d \in Db : IsList(tx_undo[d])

\* The best block is the tip of the chain.
ChainLinked == LinkedTo(chain, mgr[BlockDb])

\* What the block has logged takes the wrapper back to the manager's caches.
BlockUnderWay ==
    /\ phase = "block" => Restores(vtxundo, cw, mgr)
    /\ phase = "tx" => Restores(Append(vtxundo, tx_undo), cw, mgr)
    /\ phase \in {"idle", "flush"} => vtxundo = <<>>

\* Blocks, with each its parent, whose undo takes the state they led to back to the parent's.
Closed(G) ==
    /\ G \in SUBSET (0..used) /\ NoBlock \in G
    /\ \A b \in G \ {NoBlock} :
           parent[b] \in G /\ Restores(undoFile[b], stateAt[b], stateAt[parent[b]])

\* s is the state that a block of G led to.
ShowsBlockOf(s, at, G) == s[BlockDb] \in G /\ s = at[s[BlockDb]]

\* The caches show such a block, and so does what each flush wrote.
AllOf(G) ==
    /\ Closed(G) /\ ShowsBlockOf(mgr, stateAt, G)
    /\ \A n \in 1..Len(written) : ShowsBlockOf(written[n], stateAt, G)

\* The blocks connected after a restart found the databases apart are not all of that kind;
\* a reindex begins again with the blocks of a new set.
StatesAreKnown ==
    /\ stateAt[NoBlock] = Content
    /\ \A b \in 0..used : stateAt[b][BlockDb] = b
    /\ ~mixed => \E G : AllOf(G)

ChainInv == BlocksTypeOK /\ WrapperTypeOK /\ ChainLinked /\ BlockUnderWay /\ StatesAreKnown

\* A state stays one as more blocks are connected.
LEMMA StateOfMore ==
    ASSUME NEW m \in Nat, NEW n \in Nat, m <= n, NEW s, IsState(s, m)
    PROVE  IsState(s, n)
BY DEF IsState

\* A sequence and a value of a larger set.
LEMMA LongerRange ==
    ASSUME NEW S, NEW T, S \subseteq T, NEW s \in Seq(S), NEW v \in T
    PROVE  /\ Append(s, v) \in Seq(T) /\ Len(Append(s, v)) = Len(s) + 1 /\ Len(s) \in Nat
           /\ Append(s, v) # <<>> /\ Append(s, v)[Len(s) + 1] = v
           /\ \A i \in 1..Len(s) : Append(s, v)[i] = s[i] /\ s[i] \in S
           /\ (s = <<>> <=> Len(s) = 0)
<1>1. s \in Seq(T) /\ Len(s) \in Nat /\ \A i \in 1..Len(s) : s[i] \in S
    OBVIOUS
<1>2. /\ Append(s, v) \in Seq(T) /\ Len(Append(s, v)) = Len(s) + 1
      /\ Append(s, v)[Len(s) + 1] = v /\ \A i \in 1..Len(s) : Append(s, v)[i] = s[i]
    BY <1>1
<1>3. s = <<>> <=> Len(s) = 0
    OBVIOUS
<1>4. Append(s, v) # <<>>
    BY <1>1, <1>2
<1>5. QED
    BY <1>1, <1>2, <1>3, <1>4

\* The tip is the best block that the caches hold.
LEMMA TipIs ==
    ASSUME ChainInv
    PROVE  Tip = mgr[BlockDb]
BY DEF ChainInv, ChainLinked, LinkedTo, Tip, Last

\* The invariant is strong enough.
LEMMA ChainInvGives ==
    ASSUME ChainInv
    PROVE  StateIsOfTip
BY TipIs DEF ChainInv, StatesAreKnown, AllOf, ShowsBlockOf, StateIsOfTip

\* What new databases hold, and an empty log.
LEMMA ContentIs ==
    /\ BlockDb \in Db /\ Content = [d \in Db |-> Content[d]] /\ Content[BlockDb] = 0
    /\ NoUndo = [d \in Db |-> NoUndo[d]] /\ \A d \in Db : NoUndo[d] = <<>>
BY FlushAssumption DEF Content, NoUndo, NoBlock

\* The state of the wrapper when there is no block.
LEMMA NoWrapper ==
    ASSUME used \in Nat, cw = Content, vtxundo = <<>>, tx_undo = NoUndo
    PROVE  WrapperTypeOK
BY ContentIs, Listed DEF WrapperTypeOK, IsState

\* New databases have the invariant.
LEMMA ChainInitHolds ==
    ASSUME Init
    PROVE  ChainInv
<1>1. /\ mgr = Content /\ cw = Content /\ phase = "idle" /\ tx_undo = NoUndo /\ vtxundo = <<>>
      /\ undoFile = <<>> /\ chain = <<>> /\ parent = <<>> /\ used = 0 /\ written = <<>>
      /\ stateAt = [b \in {NoBlock} |-> Content] /\ mixed = FALSE
    BY DEF Init
<1>2. /\ 0..used = {0} /\ 1..used = {} /\ Len(<<>>) = 0 /\ 1..Len(written) = {}
      /\ stateAt[0] = Content /\ NoBlock = 0
    BY <1>1 DEF NoBlock
<1>3. ParentsAreEarlier
    BY <1>1, <1>2 DEF ParentsAreEarlier
<1>4. BlocksTypeOK
    BY <1>1, <1>2, <1>3, ContentIs, Listed DEF BlocksTypeOK, IsState
<1>5. WrapperTypeOK
    BY <1>1, NoWrapper
<1>6. ChainLinked
    BY <1>1, <1>2, ContentIs DEF ChainLinked, LinkedTo
<1>7. BlockUnderWay
    BY <1>1 DEF BlockUnderWay
<1>8. AllOf({NoBlock})
    BY <1>1, <1>2, ContentIs DEF AllOf, Closed, ShowsBlockOf
<1>9. StatesAreKnown
    BY <1>1, <1>2, <1>8, ContentIs DEF StatesAreKnown
<1>10. QED
    BY <1>4, <1>5, <1>6, <1>7, <1>9 DEF ChainInv

-----------------------------------------------------------------------------
(* Its steps *)

\* What happens in the wrapper does not reach the caches below it.
LEMMA InWrapper ==
    ASSUME ChainInv, WrapperTypeOK', BlockUnderWay',
           UNCHANGED <<mgr, undoFile, chain, parent, used, stateAt, written, mixed>>
    PROVE  ChainInv'
<1>1. BlocksTypeOK'
    BY DEF ChainInv, BlocksTypeOK, IsState, ParentsAreEarlier
<1>2. ChainLinked'
    BY DEF ChainInv, ChainLinked, LinkedTo
<1>3. \A G : AllOf(G) => AllOf(G)'
    BY DEF AllOf, Closed, ShowsBlockOf
<1>4. StatesAreKnown'
    BY <1>3 DEF ChainInv, StatesAreKnown
<1>5. QED
    BY <1>1, <1>2, <1>4 DEF ChainInv

\* A wrapper begins with what the caches show.
LEMMA NewWrapperKeeps == ChainInv /\ NewWrapper => ChainInv'
<1> SUFFICES ASSUME ChainInv, NewWrapper PROVE ChainInv'
    OBVIOUS
<1>1. /\ phase = "idle" /\ phase' = "block" /\ cw' = mgr
      /\ UNCHANGED <<mgr, undoFile, chain, parent, used, stateAt, written, mixed, tx_undo, vtxundo>>
    BY DEF NewWrapper
<1>2. vtxundo = <<>> /\ Len(<<>>) = 0
    BY <1>1 DEF ChainInv, BlockUnderWay
<1>3. WrapperTypeOK'
    BY <1>1 DEF ChainInv, WrapperTypeOK, BlocksTypeOK, IsState
<1>4. BlockUnderWay'
    BY <1>1, <1>2 DEF BlockUnderWay, Restores, RestoresAt
<1>5. QED
    BY <1>1, <1>3, <1>4, InWrapper

\* A transaction begins with nothing to undo.
LEMMA NewOpLoggerKeeps == ChainInv /\ NewOpLogger => ChainInv'
<1> SUFFICES ASSUME ChainInv, NewOpLogger PROVE ChainInv'
    OBVIOUS
<1>1. /\ phase = "block" /\ phase' = "tx" /\ tx_undo' = NoUndo
      /\ UNCHANGED <<mgr, cw, undoFile, chain, parent, used, stateAt, written, mixed, vtxundo>>
    BY DEF NewOpLogger
<1>2. Restores(vtxundo, cw, mgr) /\ IsList(vtxundo)
    BY <1>1 DEF ChainInv, BlockUnderWay, WrapperTypeOK
<1>3. WrapperTypeOK'
    BY <1>1, ContentIs, Listed DEF ChainInv, WrapperTypeOK, IsState
<1>4. Restores(Append(vtxundo, NoUndo), cw, mgr)
    <2> SUFFICES ASSUME NEW d \in Db \ {BlockDb}
                 PROVE  RestoresAt(Append(vtxundo, NoUndo), cw, mgr, d)
        BY DEF Restores
    <2>1. NoUndo[d] = <<>> /\ RestoresAt(vtxundo, cw, mgr, d)
        BY <1>2, ContentIs DEF Restores
    <2>2. QED
        BY <1>2, <2>1, RestoresEmpty
<1>5. BlockUnderWay'
    BY <1>1, <1>4 DEF BlockUnderWay
<1>6. QED
    BY <1>1, <1>3, <1>5, InWrapper

\* The log of a transaction becomes one of the logs of the block.
LEMMA DeleteOpLoggerKeeps == ChainInv /\ DeleteOpLogger => ChainInv'
<1> SUFFICES ASSUME ChainInv, DeleteOpLogger PROVE ChainInv'
    OBVIOUS
<1>1. /\ phase = "tx" /\ phase' = "block" /\ tx_undo' = NoUndo
      /\ vtxundo' = Append(vtxundo, tx_undo)
      /\ UNCHANGED <<mgr, cw, undoFile, chain, parent, used, stateAt, written, mixed>>
    BY DEF DeleteOpLogger
<1>2. IsList(vtxundo')
    BY <1>1, Appended DEF ChainInv, WrapperTypeOK
<1>3. WrapperTypeOK'
    BY <1>1, <1>2, ContentIs, Listed DEF ChainInv, WrapperTypeOK, IsState
<1>4. BlockUnderWay'
    BY <1>1 DEF ChainInv, BlockUnderWay
<1>5. QED
    BY <1>1, <1>3, <1>4, InWrapper

\* A write logs what it replaces, in its own database and in no other.
LEMMA SetDataKeeps ==
    ASSUME ChainInv, NEW d \in Db \ {BlockDb}, NEW v \in Value, SetData(d, v)
    PROVE  ChainInv'
<1>1. /\ phase = "tx" /\ phase' = "tx"
      /\ tx_undo' = [tx_undo EXCEPT ![d] = Append(tx_undo[d], cw[d])]
      /\ cw' = [cw EXCEPT ![d] = v]
      /\ UNCHANGED <<mgr, undoFile, chain, parent, used, stateAt, written, mixed, vtxundo>>
    BY DEF SetData
<1>2. /\ IsState(cw, used) /\ IsList(vtxundo) /\ tx_undo = [c \in Db |-> tx_undo[c]]
      /\ \A c \in Db : IsList(tx_undo[c])
    BY DEF ChainInv, WrapperTypeOK
<1>3. /\ tx_undo'[d] = Append(tx_undo[d], cw[d])
      /\ \A c \in Db \ {d} : tx_undo'[c] = tx_undo[c] /\ cw'[c] = cw[c]
      /\ tx_undo' = [c \in Db |-> tx_undo'[c]] /\ cw' = [c \in Db |-> cw'[c]]
    BY <1>1, <1>2 DEF IsState
<1>4. WrapperTypeOK'
    <2>1. IsList(tx_undo'[d])
        BY <1>2, <1>3, Appended
    <2>2. \A c \in Db : IsList(tx_undo'[c])
        BY <1>2, <1>3, <2>1
    <2>3. IsState(cw, used)'
        BY <1>1, <1>2, <1>3, ContentIs DEF IsState
    <2>4. QED
        BY <1>1, <1>2, <1>3, <2>2, <2>3 DEF WrapperTypeOK
<1>5. \A c \in Db \ {BlockDb} : RestoresAt(Append(vtxundo, tx_undo'), cw', mgr, c)
    <2> TAKE c \in Db \ {BlockDb}
    <2>1. RestoresAt(Append(vtxundo, tx_undo), cw, mgr, c)
        BY <1>1 DEF ChainInv, BlockUnderWay, Restores
    <2>2. CASE c = d
        BY <1>2, <1>3, <2>1, <2>2, RestoresWrite
    <2>3. CASE c # d
        BY <1>2, <1>3, <2>1, <2>3, RestoresOther
    <2>4. QED
        BY <2>2, <2>3
<1>6. BlockUnderWay'
    BY <1>1, <1>5 DEF BlockUnderWay, Restores
<1>7. QED
    BY <1>1, <1>4, <1>6, InWrapper

\* The wrapper is destroyed.
LEMMA RejectBlockKeeps == ChainInv /\ RejectBlock => ChainInv'
<1> SUFFICES ASSUME ChainInv, RejectBlock PROVE ChainInv'
    OBVIOUS
<1>1. /\ phase' = "idle" /\ cw' = Content /\ vtxundo' = <<>> /\ tx_undo' = NoUndo
      /\ UNCHANGED <<mgr, undoFile, chain, parent, used, stateAt, written, mixed>>
    BY DEF RejectBlock
<1>2. WrapperTypeOK'
    <2>1. used' \in Nat
        BY <1>1 DEF ChainInv, BlocksTypeOK
    <2>2. QED
        BY <1>1, <2>1, ContentIs, Listed DEF WrapperTypeOK, IsState
<1>3. BlockUnderWay'
    BY <1>1 DEF BlockUnderWay
<1>4. QED
    BY <1>1, <1>2, <1>3, InWrapper

\* The block in the wrapper is connected: its undo takes its state back to that of the tip.
LEMMA ConnectBlockKeeps == ChainInv /\ ConnectBlock => ChainInv'
<1> SUFFICES ASSUME ChainInv, ConnectBlock PROVE ChainInv'
    OBVIOUS
<1>0. PICK b, state : b = used + 1 /\ state = [cw EXCEPT ![BlockDb] = b]
    OBVIOUS
<1>1. /\ phase = "block" /\ phase' = "idle" /\ used' = b
      /\ undoFile' = Append(undoFile, vtxundo) /\ parent' = Append(parent, Tip)
      /\ chain' = Append(chain, b) /\ mgr' = state
      /\ stateAt' = [c \in 0..b |-> IF c = b THEN state ELSE stateAt[c]]
      /\ cw' = Content /\ vtxundo' = <<>>
      /\ UNCHANGED <<tx_undo, written, mixed>>
    BY <1>0 DEF ConnectBlock
<1>2. /\ used \in Nat /\ Len(undoFile) = used /\ Len(parent) = used /\ IsState(cw, used)
      /\ IsList(undoFile) /\ IsList(parent) /\ IsList(vtxundo)
      /\ mgr[BlockDb] \in 0..used /\ BlockDb \in Db /\ Tip = mgr[BlockDb]
      /\ \A c \in 1..used : parent[c] \in 0..c - 1 /\ IsList(undoFile[c])
      /\ \A c \in 0..used : IsState(stateAt[c], used)
    BY TipIs, ContentIs DEF ChainInv, BlocksTypeOK, WrapperTypeOK, ParentsAreEarlier, IsState
<1>3. b \in Nat /\ b \notin 0..used /\ 0..b = 0..used \union {b} /\ 1..b = 1..used \union {b}
    BY <1>0, <1>2
<1>4. /\ state = [d \in Db |-> state[d]] /\ state[BlockDb] = b
      /\ \A d \in Db \ {BlockDb} : state[d] = cw[d]
    BY <1>0, <1>2 DEF IsState
<1>5. /\ IsList(undoFile') /\ Len(undoFile') = b /\ undoFile'[b] = vtxundo
      /\ \A c \in 1..used : undoFile'[c] = undoFile[c]
      /\ IsList(parent') /\ Len(parent') = b /\ parent'[b] = mgr[BlockDb]
      /\ \A c \in 1..used : parent'[c] = parent[c]
    <2>1. /\ IsList(undoFile') /\ Len(undoFile') = b /\ undoFile'[b] = vtxundo
          /\ \A c \in 1..used : undoFile'[c] = undoFile[c]
        BY <1>0, <1>1, <1>2, Appended
    <2>2. /\ IsList(parent') /\ Len(parent') = b /\ parent'[b] = mgr[BlockDb]
          /\ \A c \in 1..used : parent'[c] = parent[c]
        BY <1>0, <1>1, <1>2, Appended
    <2>3. QED
        BY <2>1, <2>2
<1>6. stateAt'[b] = state /\ \A c \in 0..used : stateAt'[c] = stateAt[c]
    BY <1>1, <1>3
<1>7. \A s : IsState(s, used) => IsState(s, b)
    BY <1>0, <1>2, <1>3, StateOfMore
<1>8. IsState(state, b)
    BY <1>2, <1>3, <1>4 DEF IsState
<1>9. BlocksTypeOK'
    <2>1. \A c \in 0..b : IsState(stateAt'[c], b)
        BY <1>2, <1>3, <1>6, <1>7, <1>8
    <2>2. \A c \in 1..b : IsList(undoFile'[c])
        BY <1>2, <1>3, <1>5
    <2>3. ParentsAreEarlier'
        <3>1. ASSUME NEW c \in 1..b PROVE parent'[c] \in 0..c - 1
            <4>1. CASE c = b
                BY <1>0, <1>2, <1>5, <4>1
            <4>2. CASE c # b
                BY <1>2, <1>3, <1>5, <4>2
            <4>3. QED
                BY <4>1, <4>2
        <3>2. QED
            BY <1>1, <1>3, <3>1 DEF ParentsAreEarlier
    <2>4. IsState(mgr', b)
        BY <1>1, <1>8
    <2>5. \A n \in 1..Len(written') : IsState(written'[n], b)
        BY <1>1, <1>7 DEF ChainInv, BlocksTypeOK
    <2>6. QED
        BY <1>1, <1>3, <1>5, <2>1, <2>2, <2>3, <2>4, <2>5 DEF BlocksTypeOK
<1>10. WrapperTypeOK'
    BY <1>1, <1>3, ContentIs, Listed DEF ChainInv, WrapperTypeOK, IsState
<1>11. ChainLinked'
    <2>1. /\ chain \in Seq(1..used) /\ (chain = <<>> <=> mgr[BlockDb] = NoBlock)
          /\ (chain # <<>> => chain[Len(chain)] = mgr[BlockDb])
          /\ \A i \in 1..Len(chain) : parent[chain[i]] = IF i = 1 THEN NoBlock ELSE chain[i - 1]
        BY DEF ChainInv, ChainLinked, LinkedTo
    <2>2. 1..used \subseteq 1..b /\ b \in 1..b
        <3>1. 1..used \subseteq 1..b
            BY <1>3
        <3>2. b \in 1..b
            BY <1>0, <1>2
        <3>3. QED
            BY <3>1, <3>2
    <2>3. /\ chain' \in Seq(1..b) /\ Len(chain') = Len(chain) + 1 /\ Len(chain) \in Nat
          /\ chain' # <<>> /\ chain'[Len(chain) + 1] = b
          /\ \A i \in 1..Len(chain) : chain'[i] = chain[i] /\ chain[i] \in 1..used
          /\ (chain = <<>> <=> Len(chain) = 0)
        <3> DEFINE S == 1..used
                   T == 1..b
        <3>1. chain \in Seq(S) /\ S \subseteq T /\ b \in T
            BY <2>1, <2>2
        <3> HIDE DEF S, T
        <3>2. /\ Append(chain, b) \in Seq(T) /\ Len(Append(chain, b)) = Len(chain) + 1
              /\ Append(chain, b) # <<>> /\ Append(chain, b)[Len(chain) + 1] = b
              /\ Len(chain) \in Nat /\ (chain = <<>> <=> Len(chain) = 0)
              /\ \A i \in 1..Len(chain) : Append(chain, b)[i] = chain[i] /\ chain[i] \in S
            BY <3>1, LongerRange
        <3>3. QED
            BY <1>1, <3>2 DEF S, T
    <2>4. \A i \in 1..Len(chain') :
              parent'[chain'[i]] = IF i = 1 THEN NoBlock ELSE chain'[i - 1]
        <3> TAKE i \in 1..Len(chain')
        <3>1. CASE i = Len(chain) + 1
            <4>1. parent'[chain'[i]] = mgr[BlockDb]
                BY <1>5, <2>3, <3>1
            <4>2. CASE i = 1
                BY <2>1, <2>3, <3>1, <4>1, <4>2
            <4>3. CASE i # 1
                <5>1. i - 1 = Len(chain) /\ Len(chain) \in 1..Len(chain)
                    BY <2>3, <3>1, <4>3
                <5>2. QED
                    BY <2>1, <2>3, <4>1, <4>3, <5>1
            <4>4. QED
                BY <4>2, <4>3
        <3>2. CASE i # Len(chain) + 1
            <4>1. i \in 1..Len(chain) /\ (i # 1 => i - 1 \in 1..Len(chain))
                BY <2>3, <3>2
            <4>2. chain'[i] = chain[i] /\ (i # 1 => chain'[i - 1] = chain[i - 1])
                BY <2>3, <4>1
            <4>3. parent'[chain[i]] = parent[chain[i]]
                BY <1>5, <2>3, <4>1
            <4>4. QED
                BY <2>1, <4>1, <4>2, <4>3
        <3>3. QED
            BY <3>1, <3>2
    <2>5. b # NoBlock
        BY <1>0, <1>2 DEF NoBlock
    <2>6. QED
        BY <1>1, <1>4, <2>3, <2>4, <2>5 DEF ChainLinked, LinkedTo
<1>12. BlockUnderWay'
    BY <1>1 DEF BlockUnderWay
<1>13. /\ stateAt'[NoBlock] = Content
       /\ \A c \in 0..b : stateAt'[c][BlockDb] = c
    BY <1>2, <1>3, <1>4, <1>6 DEF ChainInv, StatesAreKnown, NoBlock
<1>14. ASSUME NEW G, AllOf(G)
       PROVE  AllOf(G \union {b})'
    <2>1. /\ G \in SUBSET (0..used) /\ NoBlock \in G
          /\ \A c \in G \ {NoBlock} :
                 parent[c] \in G /\ Restores(undoFile[c], stateAt[c], stateAt[parent[c]])
          /\ mgr[BlockDb] \in G /\ mgr = stateAt[mgr[BlockDb]]
          /\ \A n \in 1..Len(written) : ShowsBlockOf(written[n], stateAt, G)
        BY <1>14 DEF AllOf, Closed, ShowsBlockOf
    <2>2. \A c \in G : stateAt'[c] = stateAt[c]
        BY <1>6, <2>1
    <2>3. \A c \in G \ {NoBlock} :
              c \in 1..used /\ parent'[c] = parent[c] /\ undoFile'[c] = undoFile[c]
        <3>1. \A c \in G \ {NoBlock} : c \in 1..used
            BY <1>2, <2>1 DEF NoBlock
        <3>2. QED
            BY <1>5, <3>1
    <2>4. Restores(vtxundo, state, mgr)
        <3>1. Restores(vtxundo, cw, mgr)
            BY <1>1 DEF ChainInv, BlockUnderWay
        <3>2. QED
            BY <1>4, <3>1 DEF Restores, RestoresAt
    <2>5. stateAt'[parent'[b]] = mgr
        BY <1>5, <2>1, <2>2
    <2>6. ASSUME NEW c \in (G \union {b}) \ {NoBlock}
          PROVE  /\ parent'[c] \in G \union {b}
                 /\ Restores(undoFile'[c], stateAt'[c], stateAt'[parent'[c]])
        <3>1. CASE c = b
            BY <1>5, <1>6, <2>1, <2>4, <2>5, <3>1
        <3>2. CASE c # b
            BY <2>1, <2>2, <2>3, <3>2
        <3>3. QED
            BY <3>1, <3>2
    <2>7. Closed(G \union {b})'
        BY <1>1, <1>3, <2>1, <2>6 DEF Closed
    <2>8. ShowsBlockOf(mgr', stateAt', G \union {b})
        BY <1>1, <1>4, <1>6 DEF ShowsBlockOf
    <2>9. \A n \in 1..Len(written') : ShowsBlockOf(written'[n], stateAt', G \union {b})
        BY <1>1, <2>1, <2>2 DEF ShowsBlockOf
    <2>10. QED
        BY <2>7, <2>8, <2>9 DEF AllOf
<1>15. StatesAreKnown'
    BY <1>1, <1>13, <1>14 DEF ChainInv, StatesAreKnown
<1>16. QED
    BY <1>9, <1>10, <1>11, <1>12, <1>15 DEF ChainInv

\* A sequence without its last entry.
LEMMA FrontIs ==
    ASSUME NEW S, NEW s \in Seq(S), s # <<>>
    PROVE  /\ Front(s) \in Seq(S) /\ Len(Front(s)) = Len(s) - 1 /\ Len(s) \in Nat \ {0}
           /\ \A i \in 1..Len(s) - 1 : Front(s)[i] = s[i]
           /\ (Front(s) = <<>> <=> Len(s) = 1)
<1>1. Len(s) \in Nat /\ Len(s) # 0
    OBVIOUS
<1>2. Front(s) = SubSeq(s, 1, Len(s) - 1)
    BY DEF Front
<1>3. /\ Front(s) \in Seq(S) /\ Len(Front(s)) = Len(s) - 1
      /\ \A i \in 1..Len(s) - 1 : Front(s)[i] = s[i]
    <2>1. Len(s) - 1 \in 0..Len(s) /\ \A i \in 1..Len(s) - 1 : i \in 1..Len(s)
        BY <1>1
    <2>2. \A i \in 1..Len(s) : s[i] \in S
        OBVIOUS
    <2>3. SubSeq(s, 1, Len(s) - 1) = [i \in 1..Len(s) - 1 |-> s[i]]
        BY <1>1, <2>1
    <2>4. SubSeq(s, 1, Len(s) - 1) \in Seq(S)
        BY <1>1, <2>1, <2>2, <2>3
    <2> DEFINE f == SubSeq(s, 1, Len(s) - 1)
    <2> HIDE DEF f
    <2>5. f = [i \in 1..Len(s) - 1 |-> s[i]] /\ f \in Seq(S) /\ Front(s) = f
        BY <1>2, <2>3, <2>4 DEF f
    <2>6. Len(f) = Len(s) - 1
        BY <1>1, <2>5
    <2>7. QED
        BY <2>5, <2>6
<1>4. Front(s) = <<>> <=> Len(Front(s)) = 0
    BY <1>3
<1>5. QED
    BY <1>1, <1>3, <1>4

\* Execute on a list of logs leads to a value for each database.
LEMMA ExecuteGivesState ==
    ASSUME NEW u, IsList(u), NEW s, NEW m, IsState(s, m)
    PROVE  Execute(u, s) = [d \in Db |-> Execute(u, s)[d]]
<1>1. PICK n : n = Len(u)
    OBVIOUS
<1>2. n \in Nat /\ DOMAIN u = 1..n /\ s = [d \in Db |-> s[d]]
    BY <1>1, Listed DEF IsState
<1>3. QED
    BY <1>2, ExecuteIsState

\* The tip is disconnected: its undo leads back to the state of its parent.
LEMMA DisconnectBlockKeeps == ChainInv /\ DisconnectBlock => ChainInv'
<1> SUFFICES ASSUME ChainInv, DisconnectBlock PROVE ChainInv'
    OBVIOUS
<1>0. PICK b, p : b = Tip /\ p = parent[Tip]
    OBVIOUS
<1>1. /\ phase = "idle" /\ chain # <<>>
      /\ mgr' = [Execute(undoFile[b], mgr) EXCEPT ![BlockDb] = p]
      /\ chain' = Front(chain)
      /\ UNCHANGED <<cw, phase, tx_undo, vtxundo, undoFile, parent, used, stateAt, written, mixed>>
    BY <1>0 DEF DisconnectBlock
<1>2. /\ used \in Nat /\ IsState(mgr, used) /\ BlockDb \in Db /\ b = mgr[BlockDb]
      /\ \A c \in 1..used : IsList(undoFile[c]) /\ parent[c] \in 0..c - 1
    BY <1>0, TipIs, ContentIs DEF ChainInv, BlocksTypeOK, ParentsAreEarlier
<1>3. /\ chain \in Seq(1..used) /\ b # NoBlock /\ chain[Len(chain)] = b
      /\ \A i \in 1..Len(chain) : parent[chain[i]] = IF i = 1 THEN NoBlock ELSE chain[i - 1]
    BY <1>1, <1>2 DEF ChainInv, ChainLinked, LinkedTo
<1>4. /\ chain' \in Seq(1..used) /\ Len(chain') = Len(chain) - 1 /\ Len(chain) \in Nat \ {0}
      /\ \A i \in 1..Len(chain) - 1 : chain'[i] = chain[i]
      /\ (chain' = <<>> <=> Len(chain) = 1)
    <2> DEFINE S == 1..used
    <2>1. chain \in Seq(S)
        BY <1>3
    <2> HIDE DEF S
    <2>2. /\ chain' \in Seq(S) /\ Len(chain') = Len(chain) - 1 /\ Len(chain) \in Nat \ {0}
          /\ \A i \in 1..Len(chain) - 1 : chain'[i] = chain[i]
          /\ (chain' = <<>> <=> Len(chain) = 1)
        BY <1>1, <2>1, FrontIs
    <2>3. QED
        BY <2>2 DEF S
<1>5. b \in 1..used /\ p \in 0..used /\ p = parent[b]
    BY <1>0, <1>2, <1>3 DEF IsState, NoBlock
<1>6. p = IF Len(chain) = 1 THEN NoBlock ELSE chain[Len(chain) - 1]
    BY <1>3, <1>4, <1>5
<1>7. ChainLinked'
    <2>1. mgr'[BlockDb] = p
        <3>1. Execute(undoFile[b], mgr) = [d \in Db |-> Execute(undoFile[b], mgr)[d]]
            BY <1>2, <1>5, ExecuteGivesState
        <3>2. QED
            BY <1>1, <1>2, <3>1
    <2>2. Len(chain) # 1 => /\ Len(chain) - 1 \in 1..Len(chain) - 1
                            /\ chain[Len(chain) - 1] = chain'[Len(chain')]
                            /\ chain[Len(chain) - 1] \in 1..used
        <3>1. Len(chain) # 1 => Len(chain) - 1 \in 1..Len(chain) - 1
            BY <1>4
        <3>2. \A i \in 1..Len(chain) : chain[i] \in 1..used
            <4> DEFINE S == 1..used
            <4>1. chain \in Seq(S)
                BY <1>3
            <4> HIDE DEF S
            <4>2. \A i \in 1..Len(chain) : chain[i] \in S
                BY <4>1
            <4>3. QED
                BY <4>2 DEF S
        <3>3. ASSUME Len(chain) # 1 PROVE Len(chain) - 1 \in 1..Len(chain)
            BY <1>4, <3>3
        <3>4. QED
            BY <1>4, <3>1, <3>2, <3>3
    <2>3. chain' = <<>> <=> p = NoBlock
        BY <1>4, <1>6, <2>2 DEF NoBlock
    <2>4. chain' # <<>> => chain'[Len(chain')] = p
        BY <1>4, <1>6, <2>2
    <2>5. ASSUME NEW i \in 1..Len(chain')
          PROVE  parent[chain'[i]] = IF i = 1 THEN NoBlock ELSE chain'[i - 1]
        <3>1. /\ i \in 1..Len(chain) /\ i \in 1..Len(chain) - 1
              /\ (i # 1 => i - 1 \in 1..Len(chain) - 1)
            BY <1>4
        <3>2. QED
            BY <1>3, <1>4, <3>1
    <2>6. QED
        BY <1>1, <1>4, <2>1, <2>3, <2>4, <2>5 DEF ChainLinked, LinkedTo
<1>8. /\ mgr' = [d \in Db |-> mgr'[d]] /\ mgr'[BlockDb] = p
      /\ \A d \in Db \ {BlockDb} : mgr'[d] = Execute(undoFile[b], mgr)[d]
    <2>1. Execute(undoFile[b], mgr) = [d \in Db |-> Execute(undoFile[b], mgr)[d]]
        BY <1>2, <1>5, ExecuteGivesState
    <2>2. QED
        BY <1>1, <1>2, <2>1
<1>9. BlocksTypeOK'
    <2>1. IsState(mgr', used)
        BY <1>5, <1>8 DEF IsState
    <2>2. QED
        BY <1>1, <2>1 DEF ChainInv, BlocksTypeOK, ParentsAreEarlier
<1>10. WrapperTypeOK' /\ BlockUnderWay'
    BY <1>1 DEF ChainInv, WrapperTypeOK, BlockUnderWay
<1>11. ASSUME NEW G, AllOf(G)
       PROVE  AllOf(G)'
    <2>1. b \in G /\ mgr = stateAt[b]
        BY <1>2, <1>11 DEF AllOf, ShowsBlockOf
    <2>2. p \in G /\ Restores(undoFile[b], mgr, stateAt[p])
        BY <1>3, <1>5, <1>11, <2>1 DEF AllOf, Closed
    <2>3. \A d \in Db \ {BlockDb} : mgr'[d] = stateAt[p][d]
        <3> TAKE d \in Db \ {BlockDb}
        <3>1. RestoresAt(undoFile[b], mgr, stateAt[p], d) /\ IsList(undoFile[b])
            BY <1>2, <1>5, <2>2 DEF Restores
        <3>2. Execute(undoFile[b], mgr)[d] = stateAt[p][d]
            BY <3>1, ExecuteRestores
        <3>3. QED
            BY <1>8, <3>2
    <2>4. stateAt[p][BlockDb] = p /\ stateAt[p] = [d \in Db |-> stateAt[p][d]]
        BY <1>5 DEF ChainInv, StatesAreKnown, BlocksTypeOK, IsState
    <2>5. mgr' = stateAt[p]
        BY <1>8, <2>3, <2>4
    <2>6. ShowsBlockOf(mgr', stateAt', G)
        BY <1>1, <1>8, <2>2, <2>5 DEF ShowsBlockOf
    <2>7. Closed(G)'
        BY <1>1, <1>11 DEF AllOf, Closed
    <2>8. \A n \in 1..Len(written') : ShowsBlockOf(written'[n], stateAt', G)
        BY <1>1, <1>11 DEF AllOf
    <2>9. QED
        BY <2>6, <2>7, <2>8 DEF AllOf
<1>12. StatesAreKnown'
    BY <1>1, <1>11 DEF ChainInv, StatesAreKnown
<1>13. QED
    BY <1>7, <1>9, <1>10, <1>12 DEF ChainInv

\* A flush begins with the state of the tip.
LEMMA StartFlushKeeps == FlushInv /\ ChainInv /\ StartFlush => ChainInv'
<1> SUFFICES ASSUME FlushInv, ChainInv, StartFlush PROVE ChainInv'
    OBVIOUS
<1>1. /\ phase = "idle" /\ phase' = "flush" /\ written' = Append(written, mgr)
      /\ UNCHANGED <<mgr, cw, tx_undo, vtxundo, undoFile, chain, parent, used, stateAt, mixed>>
    BY DEF StartFlush
<1>2. IsList(written)
    BY DEF FlushInv, FlushTypeOK, IsList
<1>3. /\ Len(written') = Len(written) + 1 /\ Len(written) \in Nat
      /\ written'[Len(written) + 1] = mgr
      /\ \A n \in 1..Len(written) : written'[n] = written[n]
    BY <1>1, <1>2, Appended, Listed
<1>4. \A n \in 1..Len(written') : n \in 1..Len(written) \/ n = Len(written) + 1
    BY <1>3
<1>5. BlocksTypeOK'
    <2>1. \A n \in 1..Len(written') : IsState(written'[n], used)
        BY <1>3, <1>4 DEF ChainInv, BlocksTypeOK
    <2>2. QED
        BY <1>1, <2>1 DEF ChainInv, BlocksTypeOK, ParentsAreEarlier
<1>6. WrapperTypeOK' /\ BlockUnderWay'
    BY <1>1 DEF ChainInv, WrapperTypeOK, BlockUnderWay
<1>7. ChainLinked'
    BY <1>1 DEF ChainInv, ChainLinked, LinkedTo
<1>8. ASSUME NEW G, AllOf(G) PROVE AllOf(G)'
    <2>1. Closed(G)' /\ ShowsBlockOf(mgr', stateAt', G)
        BY <1>1, <1>8 DEF AllOf, Closed
    <2>2. \A n \in 1..Len(written') : ShowsBlockOf(written'[n], stateAt', G)
        BY <1>1, <1>3, <1>4, <1>8 DEF AllOf
    <2>3. QED
        BY <2>1, <2>2 DEF AllOf
<1>9. StatesAreKnown'
    BY <1>1, <1>8 DEF ChainInv, StatesAreKnown
<1>10. QED
    BY <1>5, <1>6, <1>7, <1>9 DEF ChainInv

\* Writing the next database changes no cache.
LEMMA FlushNextKeeps == ChainInv /\ FlushNext => ChainInv'
<1> SUFFICES ASSUME ChainInv, FlushNext PROVE ChainInv'
    OBVIOUS
<1>1. /\ phase = "flush" /\ phase' \in {"idle", "flush"}
      /\ UNCHANGED <<mgr, cw, tx_undo, vtxundo, undoFile, chain, parent, used, stateAt, written,
                     mixed>>
    BY DEF FlushNext
<1>2. WrapperTypeOK' /\ BlockUnderWay'
    BY <1>1 DEF ChainInv, WrapperTypeOK, BlockUnderWay
<1>3. QED
    BY <1>1, <1>2, InWrapper

\* Whatever is on disk when the process ends, its best block has a chain; and when the databases
\* are of one flush they are what that flush wrote, the state of a block.
LEMMA RestartKeeps == FlushInv /\ ChainInv /\ Restart => ChainInv'
<1> SUFFICES ASSUME FlushInv, ChainInv, Restart PROVE ChainInv'
    OBVIOUS
<1> DEFINE m == Max(Range(epoch))
<1>1. /\ mgr' = disk /\ cw' = Content /\ phase' = "idle" /\ tx_undo' = NoUndo /\ vtxundo' = <<>>
      /\ chain' = ChainTo(disk[BlockDb])
      /\ mixed' = (mixed \/ \E d \in Db : epoch[d] # epoch[BlockDb])
      /\ written' = SubSeq(written, 1, m)
      /\ UNCHANGED <<undoFile, parent, used, stateAt>>
    BY DEF Restart
<1>2. PICK S : written \in Seq(S)
    BY DEF FlushInv, FlushTypeOK
<1>3. /\ Len(written) \in Nat /\ epoch \in [Db -> 0..Len(written)] /\ disk = [d \in Db |-> disk[d]]
      /\ \A d \in Db : disk[d] = WrittenBy(epoch[d])[d]
      /\ BlockDb \in Db /\ epoch[BlockDb] \in 0..Len(written)
    BY <1>2, ContentIs DEF FlushInv, FlushTypeOK, DiskIsWritten
<1>4. /\ used \in Nat /\ \A n \in 1..Len(written) : IsState(written[n], used)
    BY DEF ChainInv, BlocksTypeOK
<1>5. m \in 0..Len(written)
    <2>1. m \in Range(epoch)
        <3>1. Range(epoch) # {} /\ Range(epoch) \in SUBSET (0..Len(written))
            BY <1>3 DEF Range
        <3>2. PICK i \in Position : TRUE
            BY Positions DEF Position
        <3>3. /\ 1 \in Position /\ epoch[FlushOrder[1]] \in Range(epoch)
            BY <1>3, Positions DEF Range, Position
        <3>4. \A x \in Range(epoch) : epoch[FlushOrder[1]] >= x
            <4> TAKE x \in Range(epoch)
            <4>1. PICK d \in Db : x = epoch[d]
                BY <1>3 DEF Range
            <4>2. PICK j \in Position : FlushOrder[j] = d
                BY Positions
            <4>3. 1 <= j
                BY DEF Position
            <4>4. QED
                BY <3>3, <4>1, <4>2, <4>3 DEF FlushInv, EpochsFall
        <3>5. QED
            BY <3>3, <3>4 DEF Max
    <2>2. QED
        BY <1>3, <2>1 DEF Range
<1> HIDE DEF m
<1>6. Len(written') = m /\ \A n \in 1..m : written'[n] = written[n] /\ n \in 1..Len(written)
    BY <1>1, <1>2, <1>5
<1>7. disk[BlockDb] \in 0..used
    <2>1. CASE epoch[BlockDb] = 0
        BY <1>3, <1>4, <2>1, ContentIs DEF WrittenBy
    <2>2. CASE epoch[BlockDb] # 0
        <3>1. epoch[BlockDb] \in 1..Len(written)
            BY <1>3, <2>2
        <3>2. disk[BlockDb] = written[epoch[BlockDb]][BlockDb]
            BY <1>3, <2>2 DEF WrittenBy
        <3>3. QED
            BY <1>4, <3>1, <3>2 DEF IsState
    <2>3. QED
        BY <2>1, <2>2
<1>8. IsState(disk, used)
    BY <1>3, <1>7 DEF IsState
<1>9. BlocksTypeOK'
    <2>1. \A n \in 1..Len(written') : IsState(written'[n], used)
        BY <1>4, <1>6
    <2>2. QED
        BY <1>1, <1>8, <2>1 DEF ChainInv, BlocksTypeOK, ParentsAreEarlier
<1>10. WrapperTypeOK'
    BY <1>1, <1>4, NoWrapper, ContentIs, Listed DEF WrapperTypeOK, IsState
<1>11. BlockUnderWay'
    BY <1>1 DEF BlockUnderWay
<1>12. ChainLinked'
    <2>1. LinkedTo(chain', mgr'[BlockDb])
        BY <1>1, <1>7, ChainToIsLinked DEF ChainInv, BlocksTypeOK
    <2>2. QED
        BY <1>1, <2>1 DEF ChainLinked, LinkedTo
<1>13. ASSUME NEW G, AllOf(G), ~mixed'
       PROVE  AllOf(G)'
    <2>1. \A d \in Db : epoch[d] = epoch[BlockDb]
        BY <1>1, <1>13
    <2>2. PICK e \in 0..Len(written) : e = epoch[BlockDb]
        BY <1>3
    <2>3. \A d \in Db : disk[d] = WrittenBy(e)[d]
        BY <1>3, <2>1, <2>2
    <2>4. ShowsBlockOf(disk, stateAt, G)
        <3>1. CASE e = 0
            <4>1. disk = Content
                BY <1>3, <2>3, <3>1, ContentIs DEF WrittenBy
            <4>2. QED
                BY <1>13, <4>1, ContentIs
                DEF ShowsBlockOf, AllOf, Closed, ChainInv, StatesAreKnown, NoBlock
        <3>2. CASE e # 0
            <4>1. e \in 1..Len(written) /\ WrittenBy(e) = written[e]
                BY <1>3, <3>2 DEF WrittenBy
            <4>2. written[e] = [d \in Db |-> written[e][d]]
                BY <1>4, <4>1 DEF IsState
            <4>3. disk = written[e]
                BY <1>3, <2>3, <4>1, <4>2
            <4>4. QED
                BY <1>13, <4>1, <4>3 DEF AllOf
        <3>3. QED
            BY <3>1, <3>2
    <2>5. Closed(G)'
        BY <1>1, <1>13 DEF AllOf, Closed
    <2>6. ShowsBlockOf(mgr', stateAt', G)
        BY <1>1, <2>4
    <2>7. \A n \in 1..Len(written') : ShowsBlockOf(written'[n], stateAt', G)
        BY <1>1, <1>6, <1>13 DEF AllOf
    <2>8. QED
        BY <2>5, <2>6, <2>7 DEF AllOf
<1>14. StatesAreKnown'
    <2>1. stateAt' = stateAt /\ used' = used /\ (~mixed' => ~mixed)
        BY <1>1
    <2>2. ~mixed' => \E G : AllOf(G)'
        BY <1>13, <2>1 DEF ChainInv, StatesAreKnown
    <2>3. QED
        BY <2>1, <2>2 DEF ChainInv, StatesAreKnown
<1>15. QED
    BY <1>9, <1>10, <1>11, <1>12, <1>14 DEF ChainInv

\* With the databases wiped there is the first block, whatever was connected before.
LEMMA ReindexKeeps == ChainInv /\ Reindex => ChainInv'
<1> SUFFICES ASSUME ChainInv, Reindex PROVE ChainInv'
    OBVIOUS
<1>1. /\ mgr' = Content /\ cw' = Content /\ chain' = <<>> /\ written' = <<>>
      /\ phase' = "idle" /\ tx_undo' = NoUndo /\ vtxundo' = <<>>
      /\ UNCHANGED <<undoFile, parent, used, stateAt>>
    BY DEF Reindex
<1>2. used \in Nat /\ Len(written') = 0 /\ 1..Len(written') = {}
    BY <1>1 DEF ChainInv, BlocksTypeOK
<1>3. BlocksTypeOK'
    <2>1. IsState(mgr', used')
        BY <1>1, <1>2, ContentIs DEF IsState
    <2>2. \A n \in 1..Len(written') : IsState(written'[n], used')
        BY <1>2
    <2>3. QED
        BY <1>1, <2>1, <2>2 DEF ChainInv, BlocksTypeOK, ParentsAreEarlier
<1>4. WrapperTypeOK'
    BY <1>1, <1>2, ContentIs, Listed DEF WrapperTypeOK, IsState
<1>5. ChainLinked'
    <2>1. LinkedTo(<<>>, NoBlock)
        BY DEF LinkedTo
    <2>2. QED
        BY <1>1, <2>1, ContentIs DEF ChainLinked, LinkedTo, NoBlock
<1>6. BlockUnderWay'
    BY <1>1 DEF BlockUnderWay
<1>7. AllOf({NoBlock})'
    <2>1. ShowsBlockOf(mgr', stateAt', {NoBlock})
        BY <1>1, ContentIs DEF ChainInv, StatesAreKnown, ShowsBlockOf, NoBlock
    <2>2. Closed({NoBlock})'
        BY <1>1, <1>2 DEF Closed, NoBlock
    <2>3. QED
        BY <1>2, <2>1, <2>2 DEF AllOf
<1>8. StatesAreKnown'
    BY <1>1, <1>7 DEF ChainInv, StatesAreKnown
<1>9. QED
    BY <1>3, <1>4, <1>5, <1>6, <1>8 DEF ChainInv

\* Every step keeps the invariant.
LEMMA ChainStep == FlushInv /\ ChainInv /\ [Next]_vars => ChainInv'
<1> SUFFICES ASSUME FlushInv, ChainInv, [Next]_vars PROVE ChainInv'
    OBVIOUS
<1>1. CASE NewWrapper \/ NewOpLogger \/ DeleteOpLogger \/ RejectBlock
    BY <1>1, NewWrapperKeeps, NewOpLoggerKeeps, DeleteOpLoggerKeeps, RejectBlockKeeps
<1>2. CASE ConnectBlock \/ DisconnectBlock
    BY <1>2, ConnectBlockKeeps, DisconnectBlockKeeps
<1>3. CASE StartFlush \/ FlushNext
    BY <1>3, StartFlushKeeps, FlushNextKeeps
<1>4. CASE Restart \/ Reindex
    BY <1>4, RestartKeeps, ReindexKeeps
<1>5. CASE \E d \in Db \ {BlockDb}, v \in Value : SetData(d, v)
    BY <1>5, SetDataKeeps
<1>6. CASE UNCHANGED vars
    <2>1. WrapperTypeOK' /\ BlockUnderWay'
        BY <1>6 DEF vars, ChainInv, WrapperTypeOK, BlockUnderWay
    <2>2. QED
        BY <1>6, <2>1, InWrapper DEF vars
<1>7. QED
    BY <1>1, <1>2, <1>3, <1>4, <1>5, <1>6 DEF Next

\* For any number of databases, blocks, transactions and writes, any branches and any crashes: the
\* caches show the state the tip led to.
THEOREM StateAlwaysOfTip == Spec => []StateIsOfTip
<1>1. Init => FlushInv /\ ChainInv
    BY FlushInit, ChainInitHolds
<1>2. (FlushInv /\ ChainInv) /\ [Next]_vars => (FlushInv /\ ChainInv)'
    BY FlushStep, ChainStep
<1>3. FlushInv /\ ChainInv => StateIsOfTip
    BY ChainInvGives
<1>4. QED
    BY <1>1, <1>2, <1>3, PTL DEF Spec
=============================================================================
