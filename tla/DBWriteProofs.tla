---------------------------- MODULE DBWriteProofs ----------------------------
(* The inductive invariant of DBWrite, and that the steps of callers keep it. *)
EXTENDS DBWrite, FiniteSetTheorems, WellFoundedInduction, TLAPS

\* An entry of a memtable: the batch and its sequence number.
Entry == Nat \X Nat

\* Where a caller in the queue can be; at its head; and with its group made.
HeadPc == {"room", "append", "sync", "insert", "finish"}
QueuePc == HeadPc \union {"queue"}
WorkPc == {"append", "sync", "insert", "finish"}

ThreadState ==
    [pc : {"idle", "imm", "manual", "close"} \union QueuePc, on : {"run", "cv", "bgcv"},
     batch : Nat \union {None}, sync : BOOLEAN, done : BOOLEAN, ok : BOOLEAN, force : BOOLEAN,
     delay : BOOLEAN, group : Nat, count : Nat, syncError : BOOLEAN]

LogState == [recs : Seq(SUBSET Entry), synced : Nat]
EditState == [add : SUBSET Entry, log : Nat, level0 : Int, seq : Nat, next : Nat]
BgState == [pc : {"none", "start", "build", "built", "work", "apply", "applied"},
            memtable : BOOLEAN, nested : BOOLEAN, isManual : BOOLEAN, inputs : Int,
            ok : BOOLEAN, edit : EditState]

CallerTypeOK ==
    /\ mutex \in Thread \union {None} /\ manual \in Thread \union {None}
    /\ th \in [Thread -> ThreadState] /\ writers \in Seq(Thread)
    /\ used \in [write : Nat, compact : Nat, fail : Nat, crash : Nat]

MemTypeOK == mem \in SUBSET Entry /\ imm \in (SUBSET Entry) \union {None}

FileTypeOK ==
    /\ MemTypeOK
    /\ logfile \in Nat /\ nextFile \in Nat /\ lastSequence \in Nat
    /\ DOMAIN logs \subseteq 0..logfile /\ logs \in [DOMAIN logs -> LogState]
    /\ \A n \in DOMAIN logs : logs[n].synced <= Len(logs[n].recs)
    /\ version \in [log : Nat, tables : SUBSET Entry, level0 : Int]
    /\ manifest \in [log : Nat, tables : SUBSET Entry, level0 : Int, seq : Nat, next : Nat]
    /\ bgError \in BOOLEAN /\ bg \in BgState
    /\ phase \in {"open", "closing", "down", "recovered", "committed"}
    /\ acked \in SUBSET Nat /\ synced \in SUBSET acked /\ spoiled \in SUBSET Nat
    /\ lostPower \in BOOLEAN

TypeOK == CallerTypeOK /\ FileTypeOK

InQueue(w) == w.pc \in QueuePc /\ ~w.done

\* The queue holds each caller that waits once, the one at work at its head.
QueueInv ==
    /\ \A i, j \in 1..Len(writers) : writers[i] = writers[j] => i = j
    /\ \A i \in 1..Len(writers) : InQueue(th[writers[i]])
    /\ \A t \in Thread : InQueue(th[t]) => \E i \in 1..Len(writers) : writers[i] = t
    /\ \A t \in Thread : th[t].pc \in HeadPc => ~th[t].done /\ 0 < Len(writers) /\ writers[1] = t
    /\ manual # None => th[manual].pc = "manual"

\* What BuildBatchGroup gave the caller at the head still describes the queue.
Grouped(t) ==
    /\ th[t].batch # None
    /\ th[t].group \in 1..Len(writers)
    /\ th[t].count = Cardinality(Batches(th[t].group))
    /\ \A i \in 1..th[t].group : th[writers[i]].sync => th[t].sync

GroupInv ==
    \A t \in Thread :
        /\ th[t].pc \in {"queue", "room"} => th[t].group = 1 /\ th[t].count = 0
        /\ th[t].pc \in {"append", "sync", "insert"} => th[t].count > 0
        /\ th[t].pc \in WorkPc /\ th[t].count > 0 => Grouped(t)
        /\ th[t].pc = "finish" /\ th[t].count = 0 =>
              th[t].group = 1 /\ (th[t].ok => th[t].batch = None)

\* Only a caller in the queue has a batch; no two have one, and none has one of the future.
BatchInv ==
    /\ \A t \in Thread : th[t].pc \notin QueuePc => th[t].batch = None
    /\ \A t \in Thread : th[t].sync => th[t].batch # None
    /\ \A t \in Thread : th[t].batch # None => th[t].batch <= used.write
    /\ \A t, u \in Thread : th[t].batch # None /\ th[t].batch = th[u].batch => t = u

CallerInv == QueueInv /\ GroupInv /\ BatchInv

ImmEntries == IF imm = None THEN {} ELSE imm

\* What the background thread is about to write is what it took, and nothing overtook it.
BgInv ==
    /\ bg.memtable => bg.pc \in {"build", "built", "apply", "applied"} /\ imm # None
    /\ bg.pc \in {"build", "built"} => bg.memtable
    /\ bg.pc \in {"apply", "applied"} =>
          /\ bg.memtable => bg.edit.add = imm /\ bg.edit.log = logfile
          /\ ~bg.memtable => bg.edit.add = {} /\ bg.edit.log = version.log
    /\ bg.pc = "apply" =>
          /\ bg.edit.log < bg.edit.next
          /\ manifest.seq <= bg.edit.seq /\ bg.edit.seq <= lastSequence
          /\ \A e \in bg.edit.add : e[2] <= bg.edit.seq
    /\ bg.pc = "applied" /\ bg.ok =>
          manifest.log = bg.edit.log /\ bg.edit.add \subseteq manifest.tables

\* How logs, version and manifest stand to each other.
FileInv ==
    /\ logfile < nextFile /\ manifest.log < manifest.next
    /\ phase # "down" => logfile \in DOMAIN logs
    /\ Operating =>
          /\ version.log <= manifest.log /\ manifest.log <= logfile
          /\ version.tables \subseteq manifest.tables
          /\ manifest.seq <= lastSequence
    /\ ~Operating => /\ mem = {} /\ imm = None /\ bg = Unscheduled /\ writers = <<>> /\ manual = None
                     /\ th = [t \in Thread |-> Idle]

\* The entries of the first k records, up to one that cannot be read.
ReadTo(r, k) == UNION {r[i] : i \in {i \in 1..k : \A j \in 1..i : r[j] # {}}}

\* The records of log n that were synced, up to one that cannot be read.
Durable(n) == ReadTo(logs[n].recs, logs[n].synced)

Recovered(e) == e \in manifest.tables \/ \E n \in ToRecover : e \in Readable(n)
RecoveredSynced(e) == e \in manifest.tables \/ \E n \in ToRecover : e \in Durable(n)

\* What recovery found is in the version, and the new log is empty.
OpeningInv ==
    /\ phase = "recovered" =>
          /\ version.log = logfile /\ manifest.log < logfile
          /\ \A e \in Entry : e \in version.tables <=> Recovered(e)
          /\ manifest.seq <= lastSequence
          /\ logs[logfile] = EmptyLog
    /\ phase = "committed" =>
          /\ version.log = logfile /\ manifest.log = logfile
          /\ version.tables = manifest.tables
          /\ manifest.seq = lastSequence
          /\ logs[logfile] = EmptyLog

\* Some caller, at one of the steps pcs, has e in its group.
Pending(pcs, e) ==
    \E t \in Thread : th[t].pc \in pcs /\ th[t].count > 0 /\ e \in Entries(t)
Logged(e) == Pending({"sync", "insert", "finish"}, e)
Reporting(e) == Pending({"finish"}, e)

SeqInv ==
    /\ \A e \in manifest.tables : e[2] <= manifest.seq
    /\ \A e \in ImmEntries : e[2] <= lastSequence
    /\ \A e \in mem : e[2] <= lastSequence \/ Reporting(e)
    /\ Operating =>
          \A n \in DOMAIN logs : n >= version.log =>
              \A e \in Readable(n) : e[2] <= lastSequence \/ Logged(e)
    /\ ~Operating => \E b \in Nat : \A n \in ToRecover : \A e \in Readable(n) : e[2] <= b
    /\ phase \in {"recovered", "committed"} => \A e \in version.tables : e[2] <= lastSequence

\* A reader or a recovery may come to see e.
Present(e) ==
    \/ e \in manifest.tables \/ e \in ImmEntries \/ e \in mem
    \/ \E n \in DOMAIN logs : /\ n >= IF Operating THEN version.log ELSE manifest.log
                              /\ e \in Readable(n)

UniqueInv == \A e, f \in Entry : Present(e) /\ Present(f) /\ e[2] = f[2] => e = f

\* A batch in a memtable is its writer's only while that one is about to report it.
IdInv ==
    \A e \in mem \union ImmEntries :
        /\ e[1] <= used.write
        /\ \A i \in 1..Len(writers) : th[writers[i]].batch = e[1] => Reporting(e)

\* What was acknowledged is no batch of a writer that still waits.
AckedInv ==
    \A i \in acked : i <= used.write /\ \A j \in 1..Len(writers) : th[writers[j]].batch # i

\* A memtable is backed by the logs a recovery will read.
BackedInv ==
    /\ \A e \in mem : e[1] \notin spoiled =>
          /\ e \in Readable(logfile)
          /\ e[1] \in synced => e \in Durable(logfile)
    /\ \A e \in ImmEntries : e[1] \notin spoiled =>
          /\ Recovered(e)
          /\ e[1] \in synced => RecoveredSynced(e)

\* The record of the group of w is in the log.
HasLogged(w) == w.count > 0 /\ (w.pc \in {"sync", "insert"} \/ (w.pc = "finish" /\ w.ok))

\* And so is what the caller at work has appended, synced and inserted.
WorkInv ==
    \A t \in Thread : HasLogged(th[t]) =>
        \A e \in Entries(t) :
            /\ e[1] \notin spoiled => e \in Readable(logfile)
            /\ th[t].pc # "sync" /\ th[t].sync /\ e[1] \notin spoiled => e \in Durable(logfile)
            /\ th[t].pc = "finish" => e \in mem

\* What was acknowledged is there, or will be after the recovery.
SurviveInv ==
    /\ AckedSurvive
    /\ ~Operating =>
          /\ ~lostPower => \A i \in acked \ spoiled : \E e \in Entry : e[1] = i /\ Recovered(e)
          /\ \A i \in synced \ spoiled : \E e \in Entry : e[1] = i /\ RecoveredSynced(e)

DataInv == SeqInv /\ UniqueInv /\ IdInv /\ AckedInv /\ BackedInv /\ WorkInv /\ SurviveInv

IInv == TypeOK /\ CallerInv /\ BgInv /\ FileInv /\ OpeningInv /\ DataInv

-----------------------------------------------------------------------------
\* A bounded set of naturals that is not empty has its MaxOf.
LEMMA MaxOfBounded ==
    ASSUME NEW b \in Nat, NEW S \in SUBSET (0..b), S # {}
    PROVE  MaxOf(S) \in S /\ \A y \in S : y <= MaxOf(S)
<1> DEFINE T == {b - x : x \in S}
<1>1. T \in SUBSET Nat /\ T # {}
    <2>1. \A x \in S : x \in Int /\ 0 <= x /\ x <= b
        OBVIOUS
    <2>2. \A x \in S : b - x \in Nat
        BY <2>1
    <2>3. QED
        BY <2>2
<1>2. PICK t \in T : \A u \in T : ~ (<<u, t>> \in OpToRel(<, Nat))
    BY <1>1, NatLessThanWellFounded, WFMin
<1>3. \A u \in T : t <= u
    <2>1. TAKE u \in T
    <2>2. ~ (u < t)
        BY <1>1, <1>2 DEF OpToRel
    <2>3. QED
        BY <1>1, <2>2
<1>4. PICK x \in S : t = b - x
    OBVIOUS
<1>5. \A y \in S : y <= x
    <2>1. TAKE y \in S
    <2>2. b - y \in T
        OBVIOUS
    <2>3. QED
        BY <1>3, <1>4, <2>2
<1>6. QED
    BY <1>5 DEF MaxOf

\* A record appended is read if it and those before it can be; what was read still is.
LEMMA ReadAppend ==
    ASSUME NEW r \in Seq(SUBSET Entry), NEW x \in SUBSET Entry, NEW e
    PROVE  /\ e \in ReadTo(r, Len(r)) => e \in ReadTo(Append(r, x), Len(r) + 1)
           /\ e \in ReadTo(Append(r, x), Len(r) + 1) => e \in ReadTo(r, Len(r)) \/ e \in x
           /\ e \in x /\ (\A i \in 1..Len(r) : r[i] # {}) => e \in ReadTo(Append(r, x), Len(r) + 1)
           /\ \A k \in 0..Len(r) : e \in ReadTo(r, k) <=> e \in ReadTo(Append(r, x), k)
           /\ Append(r, x) \in Seq(SUBSET Entry) /\ Len(Append(r, x)) = Len(r) + 1
<1> DEFINE s == Append(r, x)
<1>1. s \in Seq(SUBSET Entry) /\ Len(s) = Len(r) + 1 /\ Len(r) \in Nat
    OBVIOUS
<1>2. /\ \A i \in 1..Len(r) : s[i] = r[i]
      /\ s[Len(r) + 1] = x
    OBVIOUS
<1> HIDE DEF s
<1>3. \A k \in 0..Len(r) : e \in ReadTo(r, k) <=> e \in ReadTo(s, k)
    <2> TAKE k \in 0..Len(r)
    <2>1. \A i \in 1..k : i \in 1..Len(r) /\ \A j \in 1..i : j \in 1..Len(r)
        BY <1>1
    <2>2. QED
        BY <1>2, <2>1 DEF ReadTo
<1>4. e \in ReadTo(r, Len(r)) => e \in ReadTo(s, Len(r) + 1)
    <2>1. Len(r) \in 0..Len(r) /\ \A i \in 1..Len(r) : i \in 1..Len(r) + 1
        BY <1>1
    <2>2. e \in ReadTo(s, Len(r)) => e \in ReadTo(s, Len(r) + 1)
        BY <2>1 DEF ReadTo
    <2>3. QED
        BY <1>3, <2>1, <2>2
<1>5. e \in ReadTo(s, Len(r) + 1) => e \in ReadTo(r, Len(r)) \/ e \in x
    <2> SUFFICES ASSUME NEW i \in 1..Len(r) + 1, e \in s[i], \A j \in 1..i : s[j] # {}
                 PROVE  e \in ReadTo(r, Len(r)) \/ e \in x
        BY DEF ReadTo
    <2>1. CASE i = Len(r) + 1
        BY <1>2, <2>1
    <2>2. CASE i \in 1..Len(r)
        <3>1. \A j \in 1..i : r[j] # {}
            BY <1>1, <1>2, <2>2
        <3>2. e \in r[i]
            BY <1>2, <2>2
        <3>3. QED
            BY <2>2, <3>1, <3>2 DEF ReadTo
    <2>3. QED
        BY <1>1, <2>1, <2>2
<1>6. ASSUME e \in x, \A i \in 1..Len(r) : r[i] # {} PROVE e \in ReadTo(s, Len(r) + 1)
    <2>1. \A j \in 1..Len(r) + 1 : s[j] # {}
        BY <1>1, <1>2, <1>6
    <2>2. QED
        <3>1. Len(r) + 1 \in 1..Len(r) + 1 /\ e \in s[Len(r) + 1]
            BY <1>1, <1>2, <1>6
        <3>2. QED
            BY <2>1, <3>1 DEF ReadTo
<1>7. QED
    BY <1>1, <1>3, <1>4, <1>5, <1>6 DEF s

\* A log cut short has what was in the part that is left.
LEMMA ReadCut ==
    ASSUME NEW r \in Seq(SUBSET Entry), NEW c \in 0..Len(r), NEW k \in 0..c, NEW e
    PROVE  /\ e \in ReadTo(SubSeq(r, 1, c), c) => e \in ReadTo(r, Len(r))
           /\ e \in ReadTo(SubSeq(r, 1, c), k) <=> e \in ReadTo(r, k)
           /\ SubSeq(r, 1, c) \in Seq(SUBSET Entry) /\ Len(SubSeq(r, 1, c)) = c
<1>1. SubSeq(r, 1, c) \in Seq(SUBSET Entry) /\ Len(SubSeq(r, 1, c)) = c
    OBVIOUS
<1>2. \A i \in 1..c : SubSeq(r, 1, c)[i] = r[i] /\ i \in 1..Len(r) /\ \A j \in 1..i : j \in 1..c
    OBVIOUS
<1>3. e \in ReadTo(SubSeq(r, 1, c), c) => e \in ReadTo(r, Len(r))
    BY <1>2 DEF ReadTo
<1>4. \A i \in 1..k : i \in 1..c
    OBVIOUS
<1>5. e \in ReadTo(SubSeq(r, 1, c), k) <=> e \in ReadTo(r, k)
    BY <1>2, <1>4 DEF ReadTo
<1>6. QED
    BY <1>1, <1>3, <1>5

\* A reader with the whole log finds what a part of it has.
LEMMA ReadMore ==
    ASSUME NEW r, NEW c \in Nat, NEW k \in 0..c, NEW e, e \in ReadTo(r, k)
    PROVE  e \in ReadTo(r, c)
BY DEF ReadTo

\* The reader of a log and the part of it that was synced, by ReadTo.
LEMMA ReadableIs ==
    ASSUME FileTypeOK, NEW n \in DOMAIN logs
    PROVE  /\ logs[n].recs \in Seq(SUBSET Entry) /\ logs[n].synced \in 0..Len(logs[n].recs)
           /\ logs[n] \in LogState
           /\ Readable(n) = ReadTo(logs[n].recs, Len(logs[n].recs))
           /\ Readable(n) \in SUBSET Entry
           /\ Durable(n) \subseteq Readable(n)
<1>1. logs[n] \in LogState /\ logs[n].synced <= Len(logs[n].recs)
    BY DEF FileTypeOK
<1>2. logs[n].recs \in Seq(SUBSET Entry) /\ logs[n].synced \in 0..Len(logs[n].recs)
    BY <1>1 DEF LogState
<1>3. DOMAIN logs[n].recs = 1..Len(logs[n].recs)
    BY <1>2
<1>4. Readable(n) = ReadTo(logs[n].recs, Len(logs[n].recs))
    BY <1>3 DEF Readable, ReadTo
<1>5. Readable(n) \in SUBSET Entry
    BY <1>2, <1>4 DEF ReadTo
<1>6. Durable(n) \subseteq Readable(n)
    BY <1>2, <1>4, ReadMore DEF Durable
<1>7. QED
    BY <1>1, <1>2, <1>4, <1>5, <1>6

-----------------------------------------------------------------------------
\* The batches of the first n writers are finite in number, and more with each of them.
LEMMA BatchesGrow ==
    ASSUME NEW i \in Nat, NEW n \in Nat, i <= n
    PROVE  /\ Batches(n) \in SUBSET (1..n) /\ Cardinality(Batches(n)) \in 0..n
           /\ Batches(i) \subseteq Batches(n)
           /\ Cardinality(Batches(i)) <= Cardinality(Batches(n))
           /\ i < n /\ n \in Batches(n) => Cardinality(Batches(i)) < Cardinality(Batches(n))
           /\ i \in Batches(n) => i \in Batches(i) /\ 0 < Cardinality(Batches(i))
<1>1. ASSUME NEW k \in Nat
      PROVE  /\ Batches(k) \in SUBSET (1..k) /\ IsFiniteSet(Batches(k))
             /\ Cardinality(Batches(k)) \in 0..k
             /\ Batches(k) # {} => 0 < Cardinality(Batches(k))
    <2>1. IsFiniteSet(1..k) /\ Cardinality(1..k) = k
        BY FS_Interval
    <2>2. Batches(k) \in SUBSET (1..k)
        BY DEF Batches
    <2>3. IsFiniteSet(Batches(k)) /\ Cardinality(Batches(k)) <= k
        BY <2>1, <2>2, FS_Subset
    <2>4. Cardinality(Batches(k)) \in Nat
        BY <2>3, FS_CardinalityType
    <2>5. Batches(k) # {} => Cardinality(Batches(k)) # 0
        BY <2>3, FS_EmptySet
    <2>6. QED
        BY <2>2, <2>3, <2>4, <2>5
<1>2. Batches(i) \in SUBSET Batches(n)
    BY DEF Batches
<1>3. Cardinality(Batches(i)) <= Cardinality(Batches(n))
    BY <1>1, <1>2, FS_Subset
<1>4. ASSUME i < n, n \in Batches(n) PROVE Cardinality(Batches(i)) < Cardinality(Batches(n))
    <2>1. n \notin Batches(i)
        BY <1>1, <1>4
    <2>2. Cardinality(Batches(i)) # Cardinality(Batches(n))
        BY <1>1, <1>2, <1>4, <2>1, FS_Subset
    <2>3. QED
        BY <1>1, <1>3, <2>2
<1>5. i \in Batches(n) => i \in Batches(i)
    BY DEF Batches
<1>6. QED
    BY <1>1, <1>2, <1>3, <1>4, <1>5

\* The entries of a group have the sequence numbers behind the last one, each its own.
LEMMA EntriesAre ==
    ASSUME TypeOK, NoneAssumption, NEW t \in Thread, Grouped(t)
    PROVE  /\ \A e \in Entries(t) :
                /\ e \in Entry /\ lastSequence < e[2] /\ e[2] <= lastSequence + th[t].count
                /\ \E i \in 1..th[t].group : th[writers[i]].batch = e[1]
           /\ \A e, f \in Entries(t) : e[2] = f[2] => e = f
           /\ \A i \in 1..th[t].group : th[writers[i]].batch # None =>
                \E e \in Entries(t) : e[1] = th[writers[i]].batch
<1> DEFINE g == th[t].group
           Num(i) == lastSequence + Cardinality(Batches(i))
           Ent(i) == <<th[writers[i]].batch, Num(i)>>
<1>1. /\ g \in 1..Len(writers) /\ g \in Nat /\ lastSequence \in Nat
      /\ th[t].count = Cardinality(Batches(g))
      /\ \A i \in 1..g : writers[i] \in Thread /\ th[writers[i]].batch \in Nat \union {None}
    <2>1. g \in 1..Len(writers) /\ th[t].count = Cardinality(Batches(g))
        BY DEF Grouped
    <2>2. writers \in Seq(Thread) /\ th \in [Thread -> ThreadState] /\ lastSequence \in Nat
        BY DEF TypeOK, CallerTypeOK, FileTypeOK
    <2>3. \A i \in 1..g : writers[i] \in Thread
        BY <2>1, <2>2
    <2>4. \A u \in Thread : th[u].batch \in Nat \union {None}
        BY <2>2 DEF ThreadState
    <2>5. QED
        BY <2>1, <2>2, <2>3, <2>4
<1>2. Entries(t) = {Ent(i) : i \in Batches(g)}
    BY DEF Entries
<1>3. ASSUME NEW i \in Batches(g)
      PROVE  /\ i \in 1..g /\ i \in Nat /\ i <= g /\ th[writers[i]].batch \in Nat
             /\ Num(i) \in Nat /\ lastSequence < Num(i) /\ Num(i) <= lastSequence + th[t].count
    <2>1. i \in 1..g /\ i \in Nat /\ i <= g /\ th[writers[i]].batch # None
        BY <1>1 DEF Batches
    <2>2. /\ Cardinality(Batches(i)) \in 0..i /\ 0 < Cardinality(Batches(i))
          /\ Cardinality(Batches(i)) <= Cardinality(Batches(g))
          /\ Cardinality(Batches(g)) \in 0..g
        BY <1>1, <1>3, <2>1, BatchesGrow
    <2>3. QED
        BY <1>1, <2>1, <2>2
<1>4. ASSUME NEW i \in Batches(g), NEW j \in Batches(g), i < j
      PROVE  Num(i) < Num(j)
    <2>1. i \in Nat /\ j \in Nat /\ i \in 1..g /\ j \in 1..g
        BY <1>3
    <2>2. j \in Batches(j)
        BY DEF Batches
    <2>3. Cardinality(Batches(i)) < Cardinality(Batches(j))
        BY <1>4, <2>1, <2>2, BatchesGrow
    <2>4. Cardinality(Batches(i)) \in 0..i /\ Cardinality(Batches(j)) \in 0..j
        BY <2>1, BatchesGrow
    <2>5. QED
        BY <1>1, <2>1, <2>3, <2>4
<1>5. \A i, j \in Batches(g) : Num(i) = Num(j) => i = j
    <2> SUFFICES ASSUME NEW i \in Batches(g), NEW j \in Batches(g), i # j
                 PROVE  Num(i) # Num(j)
        OBVIOUS
    <2>1. i \in Nat /\ j \in Nat /\ Num(i) \in Nat /\ Num(j) \in Nat
        BY <1>3
    <2>2. CASE i < j
        BY <1>4, <2>1, <2>2
    <2>3. CASE j < i
        BY <1>4, <2>1, <2>3
    <2>4. QED
        BY <2>1, <2>2, <2>3
<1>6. \A i \in Batches(g) : Ent(i) \in Entry /\ Ent(i)[1] = th[writers[i]].batch /\ Ent(i)[2] = Num(i)
    BY <1>3 DEF Entry
<1> HIDE DEF Ent, Num
<1>7. \A e \in Entries(t) :
        /\ e \in Entry /\ lastSequence < e[2] /\ e[2] <= lastSequence + th[t].count
        /\ \E i \in 1..g : th[writers[i]].batch = e[1]
    BY <1>2, <1>3, <1>6
<1>8. \A e, f \in Entries(t) : e[2] = f[2] => e = f
    BY <1>2, <1>5, <1>6
<1>9. \A i \in 1..g : th[writers[i]].batch # None =>
        \E e \in Entries(t) : e[1] = th[writers[i]].batch
    <2> TAKE i \in 1..g
    <2> HAVE th[writers[i]].batch # None
    <2>1. i \in Batches(g)
        BY DEF Batches
    <2>2. QED
        BY <1>2, <1>6, <2>1
<1>10. QED
    BY <1>7, <1>8, <1>9

-----------------------------------------------------------------------------
\* Two states of a caller that differ at most in what it waits for and in its options.
SameWriter(v, w) ==
    /\ v.pc = w.pc /\ v.batch = w.batch /\ v.sync = w.sync /\ v.done = w.done
    /\ v.ok = w.ok /\ v.group = w.group /\ v.count = w.count
Outside(w) == w.pc \notin QueuePc /\ w.batch = None /\ ~w.sync

Gone(w) == w.pc \notin HeadPc /\ ~InQueue(w)

\* A step that leaves the queue and those in it alone.
Still ==
    /\ writers' = writers /\ lastSequence' = lastSequence
    /\ \A u \in Thread : SameWriter(th[u], th'[u]) \/ (Gone(th[u]) /\ Outside(th'[u]))

\* A step that leaves the work of the caller at the head alone.
WorkKept ==
    \A u \in Thread : th[u].pc \in WorkPc \/ th'[u].pc \in WorkPc =>
        /\ SameWriter(th[u], th'[u])
        /\ th[u].count > 0 => \A e : e \in Entries(u)' <=> e \in Entries(u)

\* A step of the caller at the head, alone, that leaves the queue as it is.
HeadMoves(t) ==
    /\ th[t].pc \in HeadPc \/ (th[t].pc = "queue" /\ 0 < Len(writers) /\ writers[1] = t)
    /\ ~th[t].done
    /\ writers' = writers /\ lastSequence' = lastSequence /\ manual' = manual
    /\ used'.write = used.write
    /\ \A u \in Thread : u # t => th'[u] = th[u]
    /\ th'[t].pc \in HeadPc /\ th'[t].batch = th[t].batch /\ th'[t].sync = th[t].sync /\ ~th'[t].done

\* The thread part of the types, as facts about one caller.
LEMMA CallerTypes ==
    ASSUME CallerTypeOK
    PROVE  /\ th \in [Thread -> ThreadState] /\ writers \in Seq(Thread)
           /\ \A t \in Thread : /\ th[t] \in ThreadState
                                /\ th[t].group \in Nat /\ th[t].count \in Nat
                                /\ th[t].batch \in Nat \union {None}
                                /\ th[t].sync \in BOOLEAN /\ th[t].done \in BOOLEAN
                                /\ th[t].ok \in BOOLEAN
           /\ \A i \in 1..Len(writers) : writers[i] \in Thread
           /\ Len(writers) \in Nat /\ used.write \in Nat
BY DEF CallerTypeOK, ThreadState

\* A group is what it was while its writers keep their places and batches.
LEMMA GroupSame ==
    ASSUME CallerTypeOK, NEW t \in Thread, Grouped(t),
           lastSequence' = lastSequence, Len(writers) <= Len(writers)', Len(writers)' \in Nat,
           th'[t].group = th[t].group, th'[t].count = th[t].count,
           th'[t].batch = th[t].batch, th'[t].sync = th[t].sync,
           \A i \in 1..th[t].group :
                /\ writers'[i] = writers[i]
                /\ th'[writers[i]].batch = th[writers[i]].batch
                /\ th'[writers[i]].sync = th[writers[i]].sync
    PROVE  /\ Grouped(t)'
           /\ \A e : e \in Entries(t)' <=> e \in Entries(t)
<1> DEFINE g == th[t].group
<1>1. g \in 1..Len(writers) /\ g \in Nat /\ g \in 1..Len(writers)'
    BY CallerTypes DEF Grouped
<1>2. ASSUME NEW n \in 1..g PROVE Batches(n)' = Batches(n)
    <2>1. \A i \in 1..n : i \in 1..g
        BY <1>1
    <2>2. \A i \in 1..n : th'[writers'[i]].batch = th[writers[i]].batch
        BY <2>1
    <2>3. QED
        BY <2>2 DEF Batches
<1>3. g \in 1..g /\ Batches(g)' = Batches(g)
    BY <1>1, <1>2
<1>4. Grouped(t)'
    BY <1>1, <1>3 DEF Grouped
<1>5. \A e : e \in Entries(t)' <=> e \in Entries(t)
    <2> TAKE e
    <2>1. \A i \in Batches(g) :
            /\ i \in 1..g /\ th'[writers'[i]].batch = th[writers[i]].batch
            /\ Cardinality(Batches(i)') = Cardinality(Batches(i))
        <3> TAKE i \in Batches(g)
        <3>1. i \in 1..g
            BY DEF Batches
        <3>2. QED
            BY <1>2, <3>1
    <2>2. e \in Entries(t) <=> \E i \in Batches(g) :
            e = <<th[writers[i]].batch, lastSequence + Cardinality(Batches(i))>>
        BY DEF Entries
    <2>3. e \in Entries(t)' <=> \E i \in Batches(g)' :
            e = <<th'[writers'[i]].batch, lastSequence' + Cardinality(Batches(i)')>>
        BY DEF Entries
    <2>4. QED
        BY <1>3, <2>1, <2>2, <2>3
<1>6. QED
    BY <1>4, <1>5

\* What a step like Still keeps.
LEMMA StillKeeps ==
    ASSUME CallerTypeOK, CallerTypeOK', CallerInv, Still, used.write <= used'.write,
           manual' # None => th'[manual'].pc = "manual"
    PROVE  CallerInv' /\ WorkKept
<1>1. /\ writers' = writers /\ lastSequence' = lastSequence
      /\ \A u \in Thread : SameWriter(th[u], th'[u]) \/ (Gone(th[u]) /\ Outside(th'[u]))
    BY DEF Still
<1>2. /\ \A i \in 1..Len(writers) : writers[i] \in Thread /\ InQueue(th[writers[i]])
                                    /\ SameWriter(th[writers[i]], th'[writers[i]])
    BY <1>1, CallerTypes DEF CallerInv, QueueInv, InQueue, Gone
<1>3. QueueInv'
    <2>1. \A u \in Thread : /\ InQueue(th[u]) <=> InQueue(th'[u])
                            /\ th'[u].pc \in HeadPc => th[u].pc \in HeadPc /\ th'[u].done = th[u].done
        BY <1>1 DEF SameWriter, Gone, Outside, InQueue, QueuePc
    <2>2. \A i \in 1..Len(writers) : InQueue(th'[writers[i]])
        BY <1>2, <2>1
    <2>3. QED
        BY <1>1, <2>1, <2>2 DEF CallerInv, QueueInv
<1>4. ASSUME NEW t \in Thread, th[t].pc \in WorkPc, th[t].count > 0
      PROVE  Grouped(t)' /\ \A e : e \in Entries(t)' <=> e \in Entries(t)
    <2>1. Grouped(t)
        BY <1>4 DEF CallerInv, GroupInv
    <2>2. SameWriter(th[t], th'[t])
        BY <1>1, <1>4 DEF Gone, WorkPc, HeadPc
    <2>3. \A i \in 1..th[t].group : i \in 1..Len(writers)
        BY <2>1, CallerTypes DEF Grouped
    <2>4. \A i \in 1..th[t].group :
                /\ writers'[i] = writers[i]
                /\ th'[writers[i]].batch = th[writers[i]].batch
                /\ th'[writers[i]].sync = th[writers[i]].sync
        BY <1>1, <1>2, <2>3 DEF SameWriter
    <2>5. Len(writers) <= Len(writers)' /\ Len(writers)' \in Nat
        BY <1>1, CallerTypes
    <2>6. QED
        BY <1>1, <2>1, <2>2, <2>4, <2>5, GroupSame DEF SameWriter
<1>5. WorkKept
    <2>1. \A u \in Thread : th[u].pc \in WorkPc \/ th'[u].pc \in WorkPc => SameWriter(th[u], th'[u])
        BY <1>1 DEF Gone, Outside, SameWriter, WorkPc, QueuePc, HeadPc
    <2>2. QED
        BY <1>4, <2>1 DEF WorkKept, SameWriter
<1>6. GroupInv'
    <2> SUFFICES ASSUME NEW t \in Thread, th'[t].pc \in QueuePc
                 PROVE  /\ th'[t].pc \in {"queue", "room"} => th'[t].group = 1 /\ th'[t].count = 0
                        /\ th'[t].pc \in {"append", "sync", "insert"} => th'[t].count > 0
                        /\ th'[t].pc \in WorkPc /\ th'[t].count > 0 => Grouped(t)'
                        /\ th'[t].pc = "finish" /\ th'[t].count = 0 =>
                              th'[t].group = 1 /\ (th'[t].ok => th'[t].batch = None)
        BY DEF GroupInv, QueuePc, HeadPc, WorkPc
    <2>1. SameWriter(th[t], th'[t])
        BY <1>1 DEF Outside
    <2>2. QED
        BY <1>4, <2>1 DEF CallerInv, GroupInv, SameWriter
<1>7. BatchInv'
    <2>1. \A u \in Thread : /\ th'[u].batch # None => th'[u].batch = th[u].batch
                            /\ th'[u].sync => th[u].sync /\ th'[u].batch = th[u].batch
                            /\ th'[u].pc \notin QueuePc => th'[u].batch = None
        BY <1>1 DEF SameWriter, Outside, CallerInv, BatchInv
    <2>2. used.write \in Nat /\ used'.write \in Nat /\ \A u \in Thread : th[u].batch \in Nat \union {None}
        BY CallerTypes DEF CallerTypeOK
    <2>3. \A u \in Thread : th'[u].batch # None => th'[u].batch <= used'.write
        BY <2>1, <2>2 DEF CallerInv, BatchInv
    <2>4. QED
        BY <2>1, <2>3 DEF CallerInv, BatchInv
<1>8. QED
    BY <1>3, <1>5, <1>6, <1>7 DEF CallerInv

\* Only one caller is at the head.
LEMMA OneHead ==
    ASSUME QueueInv, NEW t \in Thread, NEW u \in Thread,
           th[t].pc \in HeadPc \/ (0 < Len(writers) /\ writers[1] = t), th[u].pc \in HeadPc
    PROVE  u = t
BY DEF QueueInv

\* What the caller at the head says of its own state is all that can go wrong with the queue.
LEMMA HeadKeeps ==
    ASSUME CallerTypeOK, CallerTypeOK', CallerInv, NEW t \in Thread, HeadMoves(t),
           th'[t].pc = "room" => th'[t].group = 1 /\ th'[t].count = 0,
           th'[t].pc \in {"append", "sync", "insert"} => th'[t].count > 0,
           th'[t].pc \in WorkPc /\ th'[t].count > 0 => Grouped(t)',
           th'[t].pc = "finish" /\ th'[t].count = 0 =>
                th'[t].group = 1 /\ (th'[t].ok => th'[t].batch = None)
    PROVE  CallerInv'
<1>1. /\ th[t].pc \in QueuePc /\ ~th[t].done /\ th'[t].pc \in QueuePc /\ ~th'[t].done
      /\ th'[t].pc \in HeadPc
      /\ 0 < Len(writers) /\ writers[1] = t /\ writers' = writers
      /\ manual' = manual /\ used'.write = used.write
      /\ th'[t].batch = th[t].batch /\ th'[t].sync = th[t].sync
      /\ \A u \in Thread : u # t => th'[u] = th[u] /\ th[u].pc \notin HeadPc
    <2>1. 0 < Len(writers) /\ writers[1] = t
        BY DEF HeadMoves, CallerInv, QueueInv
    <2>2. QED
        BY <2>1, OneHead DEF HeadMoves, QueuePc, CallerInv
<1>2. QueueInv'
    <2>1. \A u \in Thread : InQueue(th[u]) <=> InQueue(th'[u])
        BY <1>1 DEF InQueue
    <2>2. \A i \in 1..Len(writers) : InQueue(th'[writers'[i]])
        BY <1>1, <2>1, CallerTypes DEF CallerInv, QueueInv
    <2>3. manual # None => th'[manual].pc = "manual"
        <3> SUFFICES ASSUME manual # None PROVE th'[manual].pc = "manual"
            OBVIOUS
        <3>1. manual \in Thread /\ th[manual].pc = "manual"
            BY DEF CallerTypeOK, CallerInv, QueueInv
        <3>2. manual # t
            BY <1>1, <3>1 DEF QueuePc, HeadPc
        <3>3. QED
            BY <1>1, <3>1, <3>2
    <2>4. \A u \in Thread : th'[u].pc \in HeadPc => u = t
        BY <1>1
    <2>5. QED
        BY <1>1, <2>1, <2>2, <2>3, <2>4 DEF CallerInv, QueueInv
<1>3. GroupInv'
    <2>1. \A u \in Thread : u # t =>
            /\ th'[u].pc = "queue" => th'[u].group = 1 /\ th'[u].count = 0
            /\ th'[u].pc \notin HeadPc
        BY <1>1 DEF CallerInv, GroupInv
    <2>2. QED
        BY <1>1, <2>1 DEF GroupInv, HeadPc, WorkPc
<1>4. BatchInv'
    <2>1. \A u \in Thread : th'[u].batch = th[u].batch /\ th'[u].sync = th[u].sync
                            /\ (th'[u].pc \notin QueuePc => th[u].pc \notin QueuePc)
        BY <1>1
    <2>2. QED
        BY <1>1, <2>1 DEF CallerInv, BatchInv
<1>5. QED
    BY <1>2, <1>3, <1>4 DEF CallerInv

\* The work of the caller at the head goes on with the group it has.
LEMMA WorkGoesOn ==
    ASSUME CallerTypeOK, CallerTypeOK', CallerInv, NEW t \in Thread, HeadMoves(t),
           th[t].pc \in WorkPc, th[t].count > 0, th'[t].pc \in WorkPc,
           th'[t].group = th[t].group, th'[t].count = th[t].count
    PROVE  /\ CallerInv' /\ Grouped(t) /\ \A e : e \in Entries(t)' <=> e \in Entries(t)
           /\ \A u \in Thread : u # t => th[u].pc \notin WorkPc /\ th'[u].pc \notin WorkPc
<1>1. Grouped(t) /\ th[t].pc \in HeadPc
    BY DEF CallerInv, GroupInv, WorkPc, HeadPc
<1>2. \A u \in Thread : u # t => th'[u] = th[u] /\ th[u].pc \notin HeadPc
    BY <1>1, OneHead DEF HeadMoves, CallerInv
<1>3. \A u \in Thread : th'[u].batch = th[u].batch /\ th'[u].sync = th[u].sync
    BY <1>2 DEF HeadMoves
<1>4. \A i \in 1..th[t].group : writers[i] \in Thread
    BY <1>1, CallerTypes DEF Grouped
<1>5. Grouped(t)' /\ \A e : e \in Entries(t)' <=> e \in Entries(t)
    <2>1. \A i \in 1..th[t].group : /\ writers'[i] = writers[i]
                                    /\ th'[writers[i]].batch = th[writers[i]].batch
                                    /\ th'[writers[i]].sync = th[writers[i]].sync
        BY <1>3, <1>4 DEF HeadMoves
    <2>2. /\ Len(writers) <= Len(writers)' /\ Len(writers)' \in Nat /\ lastSequence' = lastSequence
          /\ th'[t].batch = th[t].batch /\ th'[t].sync = th[t].sync
        BY CallerTypes DEF HeadMoves
    <2>3. QED
        BY <1>1, <2>1, <2>2, GroupSame
<1>6. CallerInv'
    BY <1>5, HeadKeeps DEF WorkPc
<1>7. QED
    BY <1>1, <1>2, <1>5, <1>6 DEF WorkPc, HeadPc

\* A caller that comes in goes to the end of the queue.
LEMMA EnterKeeps ==
    ASSUME TypeOK, CallerTypeOK', CallerInv, NEW t \in Thread, th[t].pc = "idle",
           th' = [th EXCEPT ![t] = th'[t]], writers' = Append(writers, t),
           lastSequence' = lastSequence, manual' = manual, used.write <= used'.write,
           th'[t].pc = "queue", ~th'[t].done, th'[t].group = 1, th'[t].count = 0,
           th'[t].sync => th'[t].batch # None,
           th'[t].batch # None => used.write < th'[t].batch /\ th'[t].batch <= used'.write
    PROVE  CallerInv' /\ WorkKept
<1>1. /\ \A u \in Thread : u # t => th'[u] = th[u]
      /\ writers \in Seq(Thread) /\ Len(writers) \in Nat
      /\ writers' \in Seq(Thread) /\ Len(writers)' = Len(writers) + 1
      /\ \A i \in 1..Len(writers) : writers[i] \in Thread /\ writers'[i] = writers[i]
      /\ writers'[Len(writers) + 1] = t
    BY DEF TypeOK, CallerTypeOK
<1>2. \A i \in 1..Len(writers) : writers[i] # t
    BY DEF CallerInv, QueueInv, InQueue, QueuePc, HeadPc
<1>3. QueueInv'
    <2>1. \A i, j \in 1..Len(writers)' : writers'[i] = writers'[j] => i = j
        <3> TAKE i, j \in 1..Len(writers)'
        <3> HAVE writers'[i] = writers'[j]
        <3>1. i = Len(writers) + 1 \/ i \in 1..Len(writers)
            BY <1>1
        <3>2. j = Len(writers) + 1 \/ j \in 1..Len(writers)
            BY <1>1
        <3>3. QED
            BY <1>1, <1>2, <3>1, <3>2 DEF CallerInv, QueueInv
    <2>2. InQueue(th'[t])
        BY DEF InQueue, QueuePc
    <2>3. \A i \in 1..Len(writers)' : InQueue(th'[writers'[i]])
        <3> TAKE i \in 1..Len(writers)'
        <3>1. i = Len(writers) + 1 \/ i \in 1..Len(writers)
            BY <1>1
        <3>2. QED
            BY <1>1, <1>2, <2>2, <3>1 DEF CallerInv, QueueInv
    <2>4. \A u \in Thread : InQueue(th'[u]) => \E i \in 1..Len(writers)' : writers'[i] = u
        <3> TAKE u \in Thread
        <3> HAVE InQueue(th'[u])
        <3>1. CASE u = t
            BY <1>1, <3>1
        <3>2. CASE u # t
            <4>1. PICK i \in 1..Len(writers) : writers[i] = u
                BY <1>1, <3>2 DEF CallerInv, QueueInv
            <4>2. i \in 1..Len(writers)'
                BY <1>1
            <4>3. QED
                BY <1>1, <4>1, <4>2
        <3>3. QED
            BY <3>1, <3>2
    <2>5. \A u \in Thread : th'[u].pc \in HeadPc =>
            ~th'[u].done /\ 0 < Len(writers)' /\ writers'[1] = u
        <3> TAKE u \in Thread
        <3> HAVE th'[u].pc \in HeadPc
        <3>1. u # t /\ th'[u] = th[u]
            BY <1>1 DEF HeadPc
        <3>2. ~th[u].done /\ 0 < Len(writers) /\ writers[1] = u
            BY <3>1 DEF CallerInv, QueueInv
        <3>3. 1 \in 1..Len(writers)
            BY <1>1, <3>2
        <3>4. QED
            BY <1>1, <3>1, <3>2, <3>3
    <2>6. manual # None => th'[manual].pc = "manual"
        <3> SUFFICES ASSUME manual # None PROVE th'[manual].pc = "manual"
            OBVIOUS
        <3>1. manual \in Thread /\ th[manual].pc = "manual"
            BY DEF TypeOK, CallerTypeOK, CallerInv, QueueInv
        <3>2. QED
            BY <1>1, <3>1
    <2>7. QED
        BY <2>1, <2>3, <2>4, <2>5, <2>6 DEF QueueInv
<1>4. ASSUME NEW u \in Thread, u # t, th[u].pc \in WorkPc, th[u].count > 0
      PROVE  Grouped(u)' /\ \A e : e \in Entries(u)' <=> e \in Entries(u)
    <2>1. Grouped(u)
        BY <1>4 DEF CallerInv, GroupInv
    <2>2. \A i \in 1..th[u].group : i \in 1..Len(writers)
        BY <2>1, CallerTypes DEF Grouped, TypeOK
    <2>3. \A i \in 1..th[u].group : /\ writers'[i] = writers[i]
                                    /\ th'[writers[i]].batch = th[writers[i]].batch
                                    /\ th'[writers[i]].sync = th[writers[i]].sync
        BY <1>1, <1>2, <2>2
    <2>4. Len(writers) <= Len(writers)' /\ Len(writers)' \in Nat
        BY <1>1
    <2>5. CallerTypeOK /\ th'[u] = th[u]
        BY <1>1, <1>4 DEF TypeOK
    <2>6. QED
        BY <2>1, <2>3, <2>4, <2>5, GroupSame
<1>5. WorkKept
    <2>1. \A u \in Thread : th[u].pc \in WorkPc \/ th'[u].pc \in WorkPc => u # t
        BY DEF WorkPc
    <2>2. QED
        BY <1>1, <1>4, <2>1 DEF WorkKept, SameWriter
<1>6. GroupInv'
    <2> SUFFICES ASSUME NEW u \in Thread, u # t
                 PROVE  /\ th'[u].pc \in {"queue", "room"} => th'[u].group = 1 /\ th'[u].count = 0
                        /\ th'[u].pc \in {"append", "sync", "insert"} => th'[u].count > 0
                        /\ th'[u].pc \in WorkPc /\ th'[u].count > 0 => Grouped(u)'
                        /\ th'[u].pc = "finish" /\ th'[u].count = 0 =>
                              th'[u].group = 1 /\ (th'[u].ok => th'[u].batch = None)
        BY DEF GroupInv, WorkPc
    <2>1. QED
        BY <1>1, <1>4 DEF CallerInv, GroupInv
<1>7. BatchInv'
    <2>1. /\ used.write \in Nat /\ used'.write \in Nat
          /\ \A u \in Thread : th[u].batch \in Nat \union {None} /\ th'[u].batch \in Nat \union {None}
        BY CallerTypes DEF TypeOK, CallerTypeOK, ThreadState
    <2>2. \A u \in Thread : th'[u].batch # None => th'[u].batch <= used'.write
        BY <1>1, <2>1 DEF CallerInv, BatchInv
    <2>3. \A u \in Thread : u # t /\ th[u].batch # None => th[u].batch # th'[t].batch
        BY <2>1 DEF CallerInv, BatchInv
    <2>4. \A u, v \in Thread : th'[u].batch # None /\ th'[u].batch = th'[v].batch => u = v
        BY <1>1, <2>3 DEF CallerInv, BatchInv
    <2>5. /\ \A u \in Thread : th'[u].pc \notin QueuePc => th'[u].batch = None
          /\ \A u \in Thread : th'[u].sync => th'[u].batch # None
        BY <1>1 DEF CallerInv, BatchInv, QueuePc
    <2>6. QED
        BY <2>2, <2>4, <2>5 DEF BatchInv
<1>8. QED
    BY <1>3, <1>5, <1>6, <1>7 DEF CallerInv

\* bg_cv_.SignalAll() changes what a caller waits for, and nothing else.
LEMMA SignalAllSame ==
    ASSUME NEW f \in [Thread -> ThreadState]
    PROVE  /\ SignalAll(f) \in [Thread -> ThreadState]
           /\ \A u \in Thread : SameWriter(f[u], SignalAll(f)[u])
<1>1. \A u \in Thread : [f[u] EXCEPT !.on = "run"] \in ThreadState
                        /\ SameWriter(f[u], [f[u] EXCEPT !.on = "run"])
    BY DEF ThreadState, SameWriter
<1>2. \A u \in Thread : SignalAll(f)[u] = IF f[u].on = "bgcv" THEN [f[u] EXCEPT !.on = "run"] ELSE f[u]
    BY DEF SignalAll
<1>3. ASSUME NEW u \in Thread
      PROVE  SignalAll(f)[u] \in ThreadState /\ SameWriter(f[u], SignalAll(f)[u])
    <2>1. CASE f[u].on = "bgcv"
        BY <1>1, <1>2, <2>1
    <2>2. CASE f[u].on # "bgcv"
        <3>1. SignalAll(f)[u] = f[u]
            BY <1>2, <2>2
        <3>2. QED
            BY <3>1 DEF SameWriter
    <2>3. QED
        BY <2>1, <2>2
<1>4. QED
    BY <1>3 DEF SignalAll

\* A call that returns leaves no writer behind.
LEMMA ReturnedOutside ==
    ASSUME NEW w
    PROVE  Returned(w) \in ThreadState /\ Outside(Returned(w)) /\ Idle \in ThreadState /\ Outside(Idle)
BY DEF Returned, Idle, ThreadState, Outside, QueuePc, HeadPc

\* What the end of a group does to each caller.
LEMMA FinishMoves ==
    ASSUME CallerTypeOK, CallerInv, NEW t \in Thread, Finish(t)
    PROVE  /\ th' \in [Thread -> ThreadState]
           /\ th[t].pc = "finish" /\ 0 < Len(writers) /\ writers[1] = t /\ Outside(th'[t])
           /\ th[t].group \in 1..Len(writers) /\ t \in Group(t)
           /\ \A u \in Group(t) \ {t} :
                th'[u].pc = "queue" /\ th'[u].done /\ th'[u].batch = th[u].batch
                /\ th'[u].sync = th[u].sync /\ th'[u].group = 1 /\ th'[u].count = 0
           /\ \A u \in Thread \ Group(t) : SameWriter(th[u], th'[u]) /\ th[u].pc \notin HeadPc
<1> DEFINE f == IF th[t].syncError /\ ~bgError THEN SignalAll(th) ELSE th
<1>1. th[t].pc = "finish" /\ th' = Wakes(t, f)
    BY DEF Finish, At
<1>2. f \in [Thread -> ThreadState] /\ \A u \in Thread : SameWriter(th[u], f[u])
    BY SignalAllSame, CallerTypes DEF SameWriter
<1>3. 0 < Len(writers) /\ writers[1] = t
    BY <1>1 DEF CallerInv, QueueInv, HeadPc
<1>4. th[t].group \in 1..Len(writers)
    <2>1. CASE th[t].count > 0
        BY <1>1, <2>1 DEF CallerInv, GroupInv, WorkPc, Grouped
    <2>2. CASE th[t].count = 0
        BY <1>1, <1>3, <2>2, CallerTypes DEF CallerInv, GroupInv
    <2>3. QED
        BY <2>1, <2>2, CallerTypes
<1>5. t \in Group(t)
    BY <1>3, <1>4, CallerTypes DEF Group
<1>6. \A u \in Group(t) : u \in Thread /\ InQueue(th[u])
    BY <1>4, CallerTypes DEF Group, CallerInv, QueueInv
<1>7. \A u \in Thread : u # t => th[u].pc \notin HeadPc
    BY <1>3, OneHead DEF CallerInv
<1> HIDE DEF f
<1>8. /\ th'[t] = Returned(f[t])
      /\ \A u \in Group(t) \ {t} : th'[u] = [f[u] EXCEPT !.done = TRUE, !.ok = f[t].ok, !.on = "run"]
      /\ \A u \in Thread \ Group(t) : th'[u] \in {f[u], [f[u] EXCEPT !.on = "run"]}
      /\ th' = [u \in Thread |-> th'[u]]
    BY <1>1, <1>5, <1>6 DEF Wakes
<1>9. \A u \in Group(t) \ {t} :
        /\ th'[u] \in ThreadState
        /\ th'[u].done /\ th'[u].pc = f[u].pc /\ th'[u].batch = f[u].batch /\ th'[u].sync = f[u].sync
        /\ th'[u].group = f[u].group /\ th'[u].count = f[u].count
    <2> TAKE u \in Group(t) \ {t}
    <2>1. f[u] \in ThreadState /\ f[t].ok \in BOOLEAN
        BY <1>2, <1>6 DEF ThreadState
    <2>2. th'[u] = [f[u] EXCEPT !.done = TRUE, !.ok = f[t].ok, !.on = "run"]
        BY <1>8
    <2>3. QED
        BY <2>1, <2>2 DEF ThreadState
<1>10. \A u \in Group(t) \ {t} : th[u].pc = "queue" /\ th[u].group = 1 /\ th[u].count = 0
    BY <1>6, <1>7 DEF InQueue, QueuePc, CallerInv, GroupInv
<1>11. \A u \in Thread \ Group(t) : th'[u] \in ThreadState /\ SameWriter(f[u], th'[u])
    <2> TAKE u \in Thread \ Group(t)
    <2>1. f[u] \in ThreadState
        BY <1>2
    <2>2. [f[u] EXCEPT !.on = "run"] \in ThreadState /\ SameWriter(f[u], [f[u] EXCEPT !.on = "run"])
        BY <2>1 DEF ThreadState, SameWriter
    <2>3. QED
        BY <1>8, <2>1, <2>2 DEF SameWriter
<1>12. th'[t] \in ThreadState /\ Outside(th'[t])
    BY <1>8, ReturnedOutside
<1>13. th' \in [Thread -> ThreadState]
    BY <1>8, <1>9, <1>11, <1>12
<1>14. QED
    BY <1>1, <1>2, <1>3, <1>4, <1>5, <1>6, <1>7, <1>9, <1>10, <1>11, <1>12, <1>13 DEF SameWriter

\* The group leaves the queue; the writer behind it is at the head of what is left.
LEMMA FinishKeeps ==
    ASSUME CallerTypeOK, CallerInv, NEW t \in Thread, Finish(t)
    PROVE  /\ CallerInv' /\ writers' \in Seq(Thread)
           /\ \A u \in Thread : th'[u].pc \notin HeadPc
           /\ \A i \in 1..Len(writers)' : \E j \in 1..Len(writers) :
                writers'[i] = writers[j] /\ writers'[i] \notin Group(t)
<1> DEFINE g == th[t].group
<1>1. /\ g \in 1..Len(writers) /\ writers[1] = t /\ t \in Group(t) /\ Outside(th'[t])
      /\ \A u \in Group(t) \ {t} :
            th'[u].pc = "queue" /\ th'[u].done /\ th'[u].batch = th[u].batch
            /\ th'[u].sync = th[u].sync /\ th'[u].group = 1 /\ th'[u].count = 0
      /\ \A u \in Thread \ Group(t) : SameWriter(th[u], th'[u]) /\ th[u].pc \notin HeadPc
    BY FinishMoves
<1>2. /\ writers \in Seq(Thread) /\ Len(writers) \in Nat /\ g \in Nat /\ g <= Len(writers)
      /\ \A i \in 1..Len(writers) : writers[i] \in Thread
    BY <1>1, CallerTypes
<1>3. /\ writers' = SubSeq(writers, g + 1, Len(writers)) /\ manual' = manual /\ used' = used
    BY DEF Finish
<1> HIDE DEF g
<1>4. /\ writers' \in Seq(Thread) /\ Len(writers') = Len(writers) - g
      /\ \A i \in 1..Len(writers') : g + i \in 1..Len(writers) /\ writers'[i] = writers[g + i]
    BY <1>2, <1>3
<1>5. \A u \in Group(t) : \E k \in 1..g : k \in 1..Len(writers) /\ writers[k] = u
    BY <1>2 DEF Group, g
<1>6. \A i \in 1..Len(writers') : writers'[i] \notin Group(t)
    <2> SUFFICES ASSUME NEW i \in 1..Len(writers'), writers'[i] \in Group(t)
                 PROVE  FALSE
        OBVIOUS
    <2>1. PICK k \in 1..g : k \in 1..Len(writers) /\ writers[k] = writers'[i]
        BY <1>5
    <2>2. g + i = k
        BY <1>4, <2>1 DEF CallerInv, QueueInv
    <2>3. QED
        BY <1>2, <2>2
<1>7. \A u \in Thread : /\ th'[u].pc \notin HeadPc
                        /\ InQueue(th'[u]) => u \notin Group(t) /\ InQueue(th[u])
    BY <1>1 DEF Outside, SameWriter, InQueue, QueuePc, HeadPc
<1>8. QueueInv'
    <2>1. \A i, j \in 1..Len(writers') : writers'[i] = writers'[j] => i = j
        <3> TAKE i, j \in 1..Len(writers')
        <3> HAVE writers'[i] = writers'[j]
        <3>1. g + i = g + j
            BY <1>4 DEF CallerInv, QueueInv
        <3>2. QED
            BY <1>2, <3>1
    <2>2. \A i \in 1..Len(writers') : InQueue(th'[writers'[i]])
        <3> TAKE i \in 1..Len(writers')
        <3>1. g + i \in 1..Len(writers) /\ writers'[i] = writers[g + i]
            BY <1>4
        <3>2. InQueue(th[writers'[i]])
            BY <3>1 DEF CallerInv, QueueInv
        <3>3. writers'[i] \in Thread \ Group(t)
            BY <1>2, <1>6, <3>1
        <3>4. QED
            BY <1>1, <3>2, <3>3 DEF SameWriter, InQueue
    <2>3. \A u \in Thread : InQueue(th'[u]) => \E i \in 1..Len(writers') : writers'[i] = u
        <3> TAKE u \in Thread
        <3> HAVE InQueue(th'[u])
        <3>1. PICK j \in 1..Len(writers) : writers[j] = u
            BY <1>7 DEF CallerInv, QueueInv
        <3>2. j \notin 1..g
            BY <1>7, <3>1 DEF Group, g
        <3>3. j - g \in 1..Len(writers') /\ g + (j - g) = j
            BY <1>2, <1>4, <3>2
        <3>4. QED
            BY <1>4, <3>1, <3>3
    <2>4. manual # None => th'[manual].pc = "manual"
        <3> SUFFICES ASSUME manual # None PROVE th'[manual].pc = "manual"
            OBVIOUS
        <3>1. manual \in Thread /\ th[manual].pc = "manual"
            BY DEF CallerTypeOK, CallerInv, QueueInv
        <3>2. manual \notin Group(t)
            BY <1>2, <1>5, <3>1 DEF CallerInv, QueueInv, InQueue, QueuePc, HeadPc
        <3>3. QED
            BY <1>1, <3>1, <3>2 DEF SameWriter
    <2>5. QED
        BY <1>3, <1>7, <2>1, <2>2, <2>3, <2>4 DEF QueueInv
<1>9. GroupInv'
    <2>1. \A u \in Thread : th'[u].pc = "queue" => th'[u].group = 1 /\ th'[u].count = 0
        BY <1>1 DEF Outside, QueuePc, SameWriter, CallerInv, GroupInv
    <2>2. QED
        BY <1>7, <2>1 DEF GroupInv, WorkPc, HeadPc
<1>10. BatchInv'
    <2>1. \A u \in Thread : /\ th'[u].batch # None => th'[u].batch = th[u].batch
                            /\ th'[u].sync => th[u].sync /\ th'[u].batch = th[u].batch
                            /\ th'[u].pc \notin QueuePc => th'[u].batch = None
        BY <1>1 DEF SameWriter, Outside, CallerInv, BatchInv, QueuePc
    <2>2. QED
        BY <1>3, <2>1 DEF CallerInv, BatchInv
<1>11. QED
    BY <1>4, <1>6, <1>7, <1>8, <1>9, <1>10 DEF CallerInv

\* The end of the process leaves nobody.
LEMMA EndKeeps ==
    ASSUME NoneAssumption, ProcessEnds
    PROVE  /\ CallerInv' /\ th' \in [Thread -> ThreadState] /\ writers' \in Seq(Thread)
           /\ \A u \in Thread : th'[u].pc = "idle"
<1>1. /\ writers' = <<>> /\ Len(writers') = 0 /\ manual' = None /\ \A u \in Thread : th'[u] = Idle
      /\ th' = [t \in Thread |-> Idle]
    BY DEF ProcessEnds
<1>2. Idle \in ThreadState /\ Outside(Idle)
    BY ReturnedOutside
<1>3. Idle.pc = "idle"
    BY DEF Idle
<1>4. QueueInv'
    BY <1>1, <1>2, <1>3 DEF QueueInv, InQueue, Outside, QueuePc, HeadPc
<1>5. GroupInv' /\ BatchInv'
    BY <1>1, <1>2, <1>3 DEF GroupInv, BatchInv, Outside, WorkPc
<1>6. QED
    BY <1>1, <1>2, <1>3, <1>4, <1>5 DEF CallerInv

-----------------------------------------------------------------------------
LogPc == {"sync", "insert", "finish"}

\* What a step without data says of the caller at work: its entries are pending as they
\* were, and only a writer that is new to the queue brings a batch.
WorkGoes ==
    /\ \A e : Logged(e)' <=> Logged(e)
    /\ \A e : Reporting(e) => Reporting(e)'
    /\ \A t \in Thread : HasLogged(th'[t]) =>
            /\ HasLogged(th[t]) /\ th[t].pc = th'[t].pc /\ th[t].sync = th'[t].sync
            /\ \A e : e \in Entries(t)' <=> e \in Entries(t)
    /\ \A i \in 1..Len(writers)' :
            \/ th'[writers'[i]].batch = None \/ used.write < th'[writers'[i]].batch
            \/ \E j \in 1..Len(writers) : th'[writers'[i]].batch = th[writers[j]].batch

CallerKept == CallerTypeOK' /\ CallerInv' /\ WorkGoes

\* A step that leaves the work alone leaves alone what is pending.
LEMMA PendingKept ==
    ASSUME WorkKept
    PROVE  /\ \A e : Logged(e)' <=> Logged(e)
           /\ \A e : Reporting(e) => Reporting(e)'
           /\ \A t \in Thread : HasLogged(th'[t]) =>
                  /\ HasLogged(th[t]) /\ th[t].pc = th'[t].pc /\ th[t].sync = th'[t].sync
                  /\ \A e : e \in Entries(t)' <=> e \in Entries(t)
<1>1. \A t \in Thread : th[t].pc \in LogPc \/ th'[t].pc \in LogPc =>
        /\ SameWriter(th[t], th'[t])
        /\ th[t].count > 0 => \A e : e \in Entries(t)' <=> e \in Entries(t)
    BY DEF WorkKept, LogPc, WorkPc
<1>2. \A e : Logged(e)' <=> Logged(e)
    BY <1>1 DEF Logged, Pending, SameWriter, LogPc
<1>3. \A e : Reporting(e) => Reporting(e)'
    BY <1>1 DEF Reporting, Pending, SameWriter, LogPc
<1>4. QED
    BY <1>1, <1>2, <1>3 DEF SameWriter, HasLogged, LogPc

\* A step like Still is one without data.
LEMMA StillKept ==
    ASSUME TypeOK, CallerInv, CallerTypeOK', Still, used.write <= used'.write,
           manual' # None => th'[manual'].pc = "manual"
    PROVE  CallerKept
<1>1. CallerInv' /\ WorkKept
    BY StillKeeps DEF TypeOK
<1>2. \A i \in 1..Len(writers) : writers[i] \in Thread /\ InQueue(th[writers[i]])
    BY CallerTypes DEF TypeOK, CallerInv, QueueInv
<1>3. \A i \in 1..Len(writers) : th'[writers[i]].batch = th[writers[i]].batch
    BY <1>2 DEF Still, SameWriter, Gone
<1>4. \A i \in 1..Len(writers)' : \E j \in 1..Len(writers) : th'[writers'[i]].batch = th[writers[j]].batch
    BY <1>3 DEF Still
<1>5. WorkGoes
    BY <1>1, <1>4, PendingKept DEF WorkGoes
<1>6. QED
    BY <1>1, <1>5 DEF CallerKept

\* What is used up is counted.
LEMMA UseCounts ==
    ASSUME CallerTypeOK, NEW what \in {"write", "compact", "fail", "crash"}, NEW max, Use(what, max)
    PROVE  /\ used' \in [write : Nat, compact : Nat, fail : Nat, crash : Nat]
           /\ used'.write = IF what = "write" THEN used.write + 1 ELSE used.write
           /\ used.write <= used'.write
<1>1. used \in [write : Nat, compact : Nat, fail : Nat, crash : Nat]
    BY DEF CallerTypeOK
<1>2. used' = [used EXCEPT ![what] = @ + 1]
    BY DEF Use
<1>3. CASE what = "write"
    BY <1>1, <1>2, <1>3
<1>4. CASE what = "compact"
    BY <1>1, <1>2, <1>4
<1>5. CASE what = "fail"
    BY <1>1, <1>2, <1>5
<1>6. CASE what = "crash"
    BY <1>1, <1>2, <1>6
<1>7. QED
    BY <1>3, <1>4, <1>5, <1>6

\* To wait, or to change an option of its own, is no move in the queue.
LEMMA OptionsSame ==
    ASSUME CallerTypeOK, NEW t \in Thread,
           NEW f \in {th, [th EXCEPT ![t].on = "cv"], [th EXCEPT ![t].on = "bgcv"],
                      [th EXCEPT ![t].delay = FALSE], [th EXCEPT ![t].force = FALSE]}
    PROVE  f \in [Thread -> ThreadState] /\ \A u \in Thread : SameWriter(th[u], f[u])
<1>1. th \in [Thread -> ThreadState]
    BY DEF CallerTypeOK
<1>2. DOMAIN f = Thread /\ \A u \in Thread : u # t => f[u] = th[u]
    BY <1>1
<1>3. /\ f[t] \in {th[t], [th[t] EXCEPT !.on = "cv"], [th[t] EXCEPT !.on = "bgcv"],
                   [th[t] EXCEPT !.delay = FALSE], [th[t] EXCEPT !.force = FALSE]}
    BY <1>1
<1>4. th[t] \in ThreadState
    BY <1>1
<1>5. f[t] \in ThreadState /\ SameWriter(th[t], f[t])
    BY <1>3, <1>4, ZenonT(60) DEF ThreadState, SameWriter
<1>6. f \in [Thread -> ThreadState]
    <2>1. f = [u \in Thread |-> f[u]]
        BY <1>1, <1>2
    <2>2. QED
        BY <1>1, <1>2, <1>5, <2>1
<1>7. QED
    BY <1>2, <1>5, <1>6 DEF SameWriter

\* A caller that waits or changes an option, all else of the queue as it was.
LEMMA OptionsKept ==
    ASSUME TypeOK, CallerInv, NEW t \in Thread,
           th' \in {th, [th EXCEPT ![t].on = "cv"], [th EXCEPT ![t].on = "bgcv"],
                    [th EXCEPT ![t].delay = FALSE], [th EXCEPT ![t].force = FALSE]},
           mutex' \in Thread \union {None}, writers' = writers, lastSequence' = lastSequence,
           manual' \in {manual, None} \/ (manual' = t /\ th[t].pc = "manual"), used' = used
    PROVE  CallerKept
<1>1. th' \in [Thread -> ThreadState] /\ \A u \in Thread : SameWriter(th[u], th'[u])
    BY OptionsSame, ZenonT(60) DEF TypeOK
<1>2. manual' \in Thread \union {None} /\ (manual' # None => th'[manual'].pc = "manual")
    <2>1. manual # None => manual \in Thread /\ th[manual].pc = "manual"
        BY DEF TypeOK, CallerTypeOK, CallerInv, QueueInv
    <2>2. QED
        BY <1>1, <2>1 DEF SameWriter
<1>3. CallerTypeOK'
    BY <1>1, <1>2 DEF TypeOK, CallerTypeOK
<1>4. Still /\ used.write <= used'.write
    BY <1>1, CallerTypes DEF Still, TypeOK
<1>5. QED
    BY <1>2, <1>3, <1>4, StillKept

\* BackgroundCall wakes whoever waits for it, and may tell a manual compaction that it is done.
LEMMA SignalKept ==
    ASSUME TypeOK, CallerInv,
           th' = SignalAll(th) \/ (manual # None /\ th' = SignalAll([th EXCEPT ![manual].done = TRUE])),
           mutex' = mutex, writers' = writers, lastSequence' = lastSequence,
           manual' \in {manual, None}, used' \in [write : Nat, compact : Nat, fail : Nat, crash : Nat],
           used.write <= used'.write
    PROVE  CallerKept
<1>1. th \in [Thread -> ThreadState] /\ (manual # None => manual \in Thread /\ th[manual].pc = "manual")
    BY DEF TypeOK, CallerTypeOK, CallerInv, QueueInv
<1> DEFINE f == [th EXCEPT ![manual].done = TRUE]
<1>2. ASSUME manual # None
      PROVE  /\ f \in [Thread -> ThreadState] /\ f[manual].pc = "manual"
             /\ Outside(f[manual]) /\ \A u \in Thread : u # manual => f[u] = th[u]
    <2>1. th[manual] \in ThreadState /\ manual \in Thread
        BY <1>1, <1>2
    <2>2. f[manual] = [th[manual] EXCEPT !.done = TRUE]
        BY <1>1, <2>1
    <2>3. f[manual] \in ThreadState /\ f[manual].pc = "manual" /\ f[manual].batch = th[manual].batch
          /\ f[manual].sync = th[manual].sync
        BY <1>1, <1>2, <2>1, <2>2 DEF ThreadState
    <2>4. th[manual].batch = None /\ ~th[manual].sync
        BY <1>1, <1>2 DEF CallerInv, BatchInv, QueuePc, HeadPc
    <2>5. QED
        BY <1>1, <2>1, <2>3, <2>4 DEF Outside, QueuePc, HeadPc
<1> HIDE DEF f
<1>3. CASE th' = SignalAll(th)
    <2>1. th' \in [Thread -> ThreadState] /\ \A u \in Thread : SameWriter(th[u], th'[u])
        BY <1>1, <1>3, SignalAllSame
    <2>2. Still /\ CallerTypeOK' /\ (manual' # None => th'[manual'].pc = "manual")
        BY <1>1, <2>1 DEF Still, TypeOK, CallerTypeOK, SameWriter
    <2>3. QED
        BY <2>2, StillKept
<1>4. CASE manual # None /\ th' = SignalAll(f)
    <2>1. th' \in [Thread -> ThreadState] /\ \A u \in Thread : SameWriter(f[u], th'[u])
        BY <1>2, <1>4, SignalAllSame
    <2>2. \A u \in Thread : u # manual => SameWriter(th[u], th'[u])
        BY <1>2, <1>4, <2>1
    <2>3. Gone(th[manual]) /\ Outside(th'[manual]) /\ th'[manual].pc = "manual"
        BY <1>1, <1>2, <1>4, <2>1 DEF Outside, Gone, InQueue, SameWriter, QueuePc, HeadPc
    <2>4. Still /\ CallerTypeOK' /\ (manual' # None => th'[manual'].pc = "manual")
        BY <1>1, <1>4, <2>1, <2>2, <2>3 DEF Still, TypeOK, CallerTypeOK
    <2>5. QED
        BY <2>4, StillKept
<1>5. QED
    BY <1>3, <1>4 DEF f

-----------------------------------------------------------------------------
\* A caller's step that changes one caller's state keeps the types if the new state has one.
LEMMA OneCallerTyped ==
    ASSUME CallerTypeOK, NEW t \in Thread, NEW w \in ThreadState, th' = [th EXCEPT ![t] = w],
           mutex' \in Thread \union {None}, manual' = manual, writers' \in Seq(Thread),
           used' \in [write : Nat, compact : Nat, fail : Nat, crash : Nat]
    PROVE  CallerTypeOK' /\ th'[t] = w /\ \A u \in Thread : u # t => th'[u] = th[u]
BY DEF CallerTypeOK

\* The Writer of a call of Write.
LEMMA NewWriter ==
    ASSUME NEW s \in BOOLEAN, NEW b \in Nat, NEW w,
           w = [Idle EXCEPT !.pc = "queue", !.batch = b, !.sync = s, !.delay = TRUE]
    PROVE  /\ w \in ThreadState /\ w.pc = "queue" /\ ~w.done /\ w.group = 1 /\ w.count = 0
           /\ w.batch = b
BY DEF Idle, ThreadState, QueuePc, HeadPc

\* Both ways into the queue.
LEMMA EnterKept ==
    ASSUME TypeOK, NoneAssumption, CallerInv, NEW t \in Thread,
           (\E s \in BOOLEAN : Write(t, s)) \/ CompactRange(t)
    PROVE  CallerKept
<1>1. PICK w \in ThreadState :
        /\ Enter(t, w) /\ w.pc = "queue" /\ ~w.done /\ w.group = 1 /\ w.count = 0
        /\ (w.sync => w.batch # None)
        /\ w.batch # None => used.write < w.batch /\ w.batch <= used'.write
        /\ used' \in [write : Nat, compact : Nat, fail : Nat, crash : Nat]
        /\ used.write <= used'.write
    <2>1. CallerTypeOK /\ used.write \in Nat
        BY CallerTypes DEF TypeOK
    <2>2. CASE \E s \in BOOLEAN : Write(t, s)
        <3>1. PICK s \in BOOLEAN : Write(t, s)
            BY <2>2
        <3>2. PICK b \in Nat : b = used.write + 1
            BY <2>1
        <3>3. PICK w : /\ w = [Idle EXCEPT !.pc = "queue", !.batch = b, !.sync = s, !.delay = TRUE]
                       /\ Enter(t, w) /\ Use("write", MaxWrite)
            BY <3>1, <3>2 DEF Write
        <3>4. /\ w \in ThreadState /\ w.pc = "queue" /\ ~w.done /\ w.group = 1 /\ w.count = 0
              /\ w.batch = used.write + 1
            BY <3>2, <3>3, NewWriter, ZenonT(60)
        <3>5. /\ used' \in [write : Nat, compact : Nat, fail : Nat, crash : Nat]
              /\ used'.write = used.write + 1
            BY <2>1, <3>3, UseCounts
        <3>6. w.batch # None
            BY <2>1, <3>4 DEF NoneAssumption
        <3>7. Enter(t, w)
            BY <3>3
        <3>8. used.write < w.batch /\ w.batch <= used'.write /\ used.write <= used'.write
            BY <2>1, <3>4, <3>5
        <3>9. QED
            BY <3>4, <3>5, <3>6, <3>7, <3>8
    <2>3. CASE CompactRange(t)
        <3> DEFINE w == [Idle EXCEPT !.pc = "queue", !.force = TRUE]
        <3>1. Enter(t, w) /\ Use("compact", MaxCompact)
            BY <2>3 DEF CompactRange
        <3>2. /\ w \in ThreadState /\ w.pc = "queue" /\ ~w.done /\ w.group = 1 /\ w.count = 0
              /\ w.batch = None /\ ~w.sync
            BY DEF Idle, ThreadState, QueuePc, HeadPc
        <3>3. /\ used' \in [write : Nat, compact : Nat, fail : Nat, crash : Nat]
              /\ used'.write = used.write
            BY <2>1, <3>1, UseCounts
        <3> HIDE DEF w
        <3>4. QED
            BY <2>1, <3>1, <3>2, <3>3
    <2>4. QED
        BY <2>2, <2>3
<1>2. /\ th' = [th EXCEPT ![t] = w] /\ writers' = Append(writers, t) /\ mutex' = t
      /\ lastSequence' = lastSequence /\ manual' = manual /\ th[t].pc = "idle"
    BY <1>1 DEF Enter, At
<1>3. /\ writers \in Seq(Thread) /\ Len(writers) \in Nat /\ th \in [Thread -> ThreadState]
      /\ used.write \in Nat /\ \A i \in 1..Len(writers) : writers[i] \in Thread
    BY CallerTypes DEF TypeOK
<1>4. CallerTypeOK' /\ th'[t] = w /\ \A u \in Thread : u # t => th'[u] = th[u]
    <2>1. writers' \in Seq(Thread) /\ mutex' \in Thread \union {None}
        BY <1>2, <1>3
    <2>2. QED
        BY <1>1, <1>2, <2>1, OneCallerTyped DEF TypeOK
<1>5. CallerInv' /\ WorkKept
    BY <1>1, <1>2, <1>4, EnterKeeps
<1>6. \A i \in 1..Len(writers)' :
        \/ th'[writers'[i]].batch = None \/ used.write < th'[writers'[i]].batch
        \/ \E j \in 1..Len(writers) : th'[writers'[i]].batch = th[writers[j]].batch
    <2> TAKE i \in 1..Len(writers)'
    <2>1. CASE i \in 1..Len(writers)
        <3>1. writers'[i] = writers[i] /\ writers[i] \in Thread
            BY <1>2, <1>3, <2>1
        <3>2. writers[i] # t
            BY <1>2, <2>1 DEF CallerInv, QueueInv, InQueue, QueuePc, HeadPc
        <3>3. QED
            BY <1>4, <2>1, <3>1, <3>2
    <2>2. CASE i = Len(writers) + 1
        BY <1>1, <1>2, <1>3, <1>4, <2>2
    <2>3. QED
        BY <1>2, <1>3, <2>1, <2>2
<1>7. QED
    BY <1>4, <1>5, <1>6, PendingKept DEF CallerKept, WorkGoes

\* A step of the head that has no group yet, or that only fails to sync.
LEMMA HeadKept ==
    ASSUME TypeOK, CallerTypeOK', CallerInv, NEW t \in Thread, HeadMoves(t), CallerInv',
           \/ th[t].pc \in {"queue", "room"} /\ (th'[t].pc \in {"room", "append"} \/ th'[t].count = 0)
           \/ /\ th[t].pc = "sync" /\ th'[t].pc = "finish" /\ ~th'[t].ok
              /\ th'[t].group = th[t].group /\ th'[t].count = th[t].count
    PROVE  CallerKept
<1>1. /\ writers' = writers /\ \A u \in Thread : u # t => th'[u] = th[u] /\ th[u].pc \notin HeadPc
      /\ th'[t].batch = th[t].batch
    <2>1. 0 < Len(writers) /\ writers[1] = t
        BY DEF HeadMoves, CallerInv, QueueInv
    <2>2. QED
        BY <2>1, OneHead DEF HeadMoves, CallerInv
<1>2. \A i \in 1..Len(writers)' : \E j \in 1..Len(writers) : th'[writers'[i]].batch = th[writers[j]].batch
    BY <1>1, CallerTypes DEF TypeOK
<1>3. \A u \in Thread : u # t => th'[u].pc \notin LogPc /\ th[u].pc \notin LogPc
    BY <1>1 DEF LogPc, HeadPc
<1>4. CASE th[t].pc \in {"queue", "room"} /\ (th'[t].pc \in {"room", "append"} \/ th'[t].count = 0)
    <2>1. ~(th'[t].pc \in LogPc /\ th'[t].count > 0) /\ th[t].pc \notin LogPc
        BY <1>4 DEF LogPc
    <2>2. /\ \A e : Logged(e)' <=> Logged(e)
          /\ \A e : Reporting(e) => Reporting(e)'
        BY <1>3, <2>1 DEF Logged, Reporting, Pending, LogPc
    <2>3. QED
        BY <1>2, <1>3, <2>1, <2>2 DEF CallerKept, WorkGoes, HasLogged, LogPc
<1>5. CASE /\ th[t].pc = "sync" /\ th'[t].pc = "finish" /\ ~th'[t].ok
           /\ th'[t].group = th[t].group /\ th'[t].count = th[t].count
    <2>1. th[t].count > 0
        BY <1>5 DEF CallerInv, GroupInv
    <2>2. \A e : e \in Entries(t)' <=> e \in Entries(t)
        BY <1>5, <2>1, WorkGoesOn DEF WorkPc, TypeOK
    <2>3. /\ \A e : Logged(e)' <=> Logged(e)
          /\ \A e : Reporting(e) => Reporting(e)'
        BY <1>3, <1>5, <2>1, <2>2 DEF Logged, Reporting, Pending, LogPc
    <2>4. QED
        BY <1>2, <1>3, <1>5, <2>3 DEF CallerKept, WorkGoes, HasLogged, LogPc
<1>6. QED
    BY <1>4, <1>5

\* The loop in Write.
LEMMA QueuedKept ==
    ASSUME TypeOK, CallerInv, NEW t \in Thread, Queued(t)
    PROVE  CallerKept
<1>1. /\ th[t].pc = "queue" /\ th[t].on = "run" /\ writers' = writers /\ lastSequence' = lastSequence
      /\ manual' = manual /\ used' = used
      /\ mutex' \in Thread \union {None}
    BY DEF Queued, At
<1>2. /\ th \in [Thread -> ThreadState] /\ writers \in Seq(Thread) /\ th[t] \in ThreadState
      /\ used' \in [write : Nat, compact : Nat, fail : Nat, crash : Nat] /\ used.write <= used'.write
    BY <1>1, CallerTypes DEF TypeOK, CallerTypeOK
<1>3. CASE th[t].done /\ th' = [th EXCEPT ![t] = Returned(th[t])]
    <2>1. Returned(th[t]) \in ThreadState /\ Outside(Returned(th[t]))
        BY ReturnedOutside
    <2>2. CallerTypeOK' /\ th'[t] = Returned(th[t]) /\ \A u \in Thread : u # t => th'[u] = th[u]
        BY <1>1, <1>2, <1>3, <2>1, OneCallerTyped DEF TypeOK
    <2>3. Gone(th[t])
        BY <1>1, <1>3 DEF Gone, InQueue, HeadPc
    <2>4. Still
        BY <1>1, <2>1, <2>2, <2>3 DEF Still, SameWriter
    <2>5. manual' # None => th'[manual'].pc = "manual"
        BY <1>1, <2>2 DEF CallerInv, QueueInv, TypeOK, CallerTypeOK
    <2>6. QED
        BY <1>2, <2>2, <2>4, <2>5, StillKept
<1>4. CASE ~th[t].done /\ Head(writers) = t /\ th' = [th EXCEPT ![t].pc = "room"]
    <2> DEFINE w == [th[t] EXCEPT !.pc = "room"]
    <2>1. /\ w \in ThreadState /\ w.pc = "room" /\ w.batch = th[t].batch /\ w.sync = th[t].sync
          /\ w.done = th[t].done /\ w.group = th[t].group /\ w.count = th[t].count
        BY <1>2 DEF ThreadState, QueuePc, HeadPc
    <2>2. th' = [th EXCEPT ![t] = w]
        BY <1>4
    <2> HIDE DEF w
    <2>3. CallerTypeOK' /\ th'[t] = w /\ \A u \in Thread : u # t => th'[u] = th[u]
        BY <1>1, <1>2, <2>1, <2>2, OneCallerTyped DEF TypeOK
    <2>4. 0 < Len(writers) /\ writers[1] = t
        <3>1. PICK i \in 1..Len(writers) : writers[i] = t
            BY <1>1, <1>4 DEF CallerInv, QueueInv, InQueue, QueuePc
        <3>2. 0 < Len(writers) /\ writers # <<>>
            BY <1>2, <3>1
        <3>3. QED
            BY <1>2, <1>4, <3>2
    <2>5. HeadMoves(t) /\ th'[t].group = 1 /\ th'[t].count = 0 /\ th'[t].pc = "room"
        BY <1>1, <1>4, <2>1, <2>3, <2>4 DEF HeadMoves, HeadPc, CallerInv, GroupInv
    <2>6. CallerInv'
        BY <2>3, <2>5, HeadKeeps DEF TypeOK
    <2>7. QED
        BY <1>1, <2>3, <2>5, <2>6, HeadKept
<1>5. CASE th' = [th EXCEPT ![t].on = "cv"]
    BY <1>1, <1>5, OptionsKept
<1>6. QED
    BY <1>3, <1>4, <1>5 DEF Queued

\* How many writers BuildBatchGroup takes.
LEMMA GroupSizeIs ==
    ASSUME CallerTypeOK, 0 < Len(writers)
    PROVE  /\ GroupSize \in 1..Len(writers)
           /\ \A i \in 2..GroupSize : th[writers[i]].sync => th[writers[1]].sync
<1> DEFINE S == {n \in 1..Len(writers) : \A i \in 2..n : Joins(i)}
<1>1. Len(writers) \in Nat
    BY CallerTypes
<1>2. 1 \in S /\ S \in SUBSET (0..Len(writers))
    BY <1>1
<1>3. MaxOf(S) \in S
    BY <1>1, <1>2, MaxOfBounded
<1>4. GroupSize \in S
    BY <1>3 DEF GroupSize
<1>5. QED
    BY <1>4 DEF Joins

\* The caller that has room makes its group.
LEMMA RoomEnoughKept ==
    ASSUME TypeOK, NoneAssumption, CallerInv, NEW t \in Thread, RoomEnough(t)
    PROVE  CallerKept
<1> DEFINE n == Cardinality(Batches(GroupSize))
<1>1. /\ th[t].pc = "room" /\ writers' = writers /\ lastSequence' = lastSequence
      /\ manual' = manual /\ used' = used
      /\ mutex' \in Thread \union {None}
    BY DEF RoomEnough, RoomUnchanged, InRoom, At
<1>2. /\ th \in [Thread -> ThreadState] /\ writers \in Seq(Thread) /\ th[t] \in ThreadState
      /\ used' \in [write : Nat, compact : Nat, fail : Nat, crash : Nat]
      /\ \A i \in 1..Len(writers) : writers[i] \in Thread
    BY <1>1, CallerTypes DEF TypeOK, CallerTypeOK
<1>3. ~th[t].done /\ 0 < Len(writers) /\ writers[1] = t /\ th[t].group = 1 /\ th[t].count = 0
    BY <1>1 DEF CallerInv, QueueInv, GroupInv, HeadPc
<1>4. CASE th[t].batch = None /\ th' = [th EXCEPT ![t].pc = "finish"]
    <2> DEFINE w == [th[t] EXCEPT !.pc = "finish"]
    <2>1. /\ w \in ThreadState /\ w.pc = "finish" /\ w.batch = th[t].batch /\ w.sync = th[t].sync
          /\ w.done = th[t].done /\ w.group = th[t].group /\ w.count = th[t].count
        BY <1>2 DEF ThreadState, QueuePc, HeadPc
    <2>2. th' = [th EXCEPT ![t] = w]
        BY <1>4
    <2> HIDE DEF w
    <2>3. CallerTypeOK' /\ th'[t] = w /\ \A u \in Thread : u # t => th'[u] = th[u]
        BY <1>1, <1>2, <2>1, <2>2, OneCallerTyped DEF TypeOK
    <2>4. HeadMoves(t)
        BY <1>1, <1>3, <2>1, <2>3 DEF HeadMoves, HeadPc
    <2>5. CallerInv'
        BY <1>3, <1>4, <2>1, <2>3, <2>4, HeadKeeps DEF TypeOK
    <2>6. QED
        BY <1>1, <1>3, <2>1, <2>3, <2>4, <2>5, HeadKept
<1>5. CASE /\ th[t].batch # None
           /\ th' = [th EXCEPT ![t].pc = "append", ![t].group = GroupSize, ![t].count = n]
    <2>1. /\ GroupSize \in 1..Len(writers) /\ GroupSize \in Nat
          /\ \A i \in 2..GroupSize : th[writers[i]].sync => th[t].sync
        BY <1>3, GroupSizeIs, CallerTypes DEF TypeOK
    <2>2. n \in Nat /\ n > 0
        <3>1. 1 \in Batches(GroupSize)
            BY <1>3, <1>5, <2>1 DEF Batches
        <3>2. 1 <= GroupSize /\ 1 \in Nat
            BY <2>1
        <3>3. Cardinality(Batches(1)) <= n /\ 0 < Cardinality(Batches(1))
              /\ Cardinality(Batches(1)) \in 0..1
            <4>1. Cardinality(Batches(1)) <= n /\ 0 < Cardinality(Batches(1))
                BY <2>1, <3>1, <3>2, BatchesGrow
            <4>2. Cardinality(Batches(1)) \in 0..1
                BY BatchesGrow
            <4>3. QED
                BY <4>1, <4>2
        <3>4. n \in 0..GroupSize
            BY <2>1, BatchesGrow
        <3>5. QED
            BY <2>1, <3>3, <3>4
    <2> HIDE DEF n
    <2> DEFINE w == [th[t] EXCEPT !.pc = "append", !.group = GroupSize, !.count = n]
    <2>3. /\ w \in ThreadState /\ w.pc = "append" /\ w.batch = th[t].batch /\ w.sync = th[t].sync
          /\ w.done = th[t].done /\ w.group = GroupSize /\ w.count = n
        BY <1>2, <2>1, <2>2 DEF ThreadState, QueuePc, HeadPc
    <2>4. th' = [th EXCEPT ![t] = w]
        BY <1>5
    <2> HIDE DEF w
    <2>5. CallerTypeOK' /\ th'[t] = w /\ \A u \in Thread : u # t => th'[u] = th[u]
        BY <1>1, <1>2, <2>3, <2>4, OneCallerTyped DEF TypeOK
    <2>6. HeadMoves(t)
        BY <1>1, <1>3, <2>3, <2>5 DEF HeadMoves, HeadPc
    <2>7. Grouped(t)'
        <3>1. \A u \in Thread : th'[u].batch = th[u].batch /\ th'[u].sync = th[u].sync
            BY <2>3, <2>5
        <3>2. Batches(GroupSize)' = {i \in 1..GroupSize' : th'[writers'[i]].batch # None}
            BY DEF Batches
        <3>3. \A i \in 1..GroupSize : i \in 1..Len(writers) /\ writers'[i] = writers[i] /\ writers[i] \in Thread
            BY <1>1, <1>2, <2>1, CallerTypes DEF TypeOK
        <3>4. {i \in 1..th'[t].group : th'[writers'[i]].batch # None} = Batches(GroupSize)
            BY <2>3, <2>5, <3>1, <3>3 DEF Batches
        <3>5. th'[t].count = Cardinality({i \in 1..th'[t].group : th'[writers'[i]].batch # None})
            BY <2>3, <2>5, <3>4 DEF n
        <3>6. Batches(th[t].group)' = {i \in 1..th'[t].group : th'[writers'[i]].batch # None}
            BY DEF Batches
        <3>7. \A i \in 1..GroupSize : th[writers[i]].sync => th[t].sync
            <4> TAKE i \in 1..GroupSize
            <4>1. CASE i = 1
                BY <1>3, <4>1
            <4>2. CASE i \in 2..GroupSize
                BY <2>1, <4>2
            <4>3. QED
                BY <2>1, <4>1, <4>2
        <3>8. \A i \in 1..th'[t].group : th'[writers'[i]].sync => th'[t].sync
            BY <2>3, <2>5, <3>1, <3>3, <3>7
        <3>9. th'[t].group \in 1..Len(writers') /\ th'[t].batch # None
            BY <1>1, <1>5, <2>1, <2>3, <2>5
        <3>10. QED
            BY <3>5, <3>6, <3>8, <3>9 DEF Grouped
    <2>8. CallerInv'
        BY <2>2, <2>3, <2>5, <2>6, <2>7, HeadKeeps DEF TypeOK
    <2>9. QED
        BY <1>1, <2>3, <2>5, <2>6, <2>8, HeadKept
<1>6. QED
    BY <1>4, <1>5 DEF RoomEnough

\* The other turns of MakeRoomForWrite: it waits, gives up or takes a new log.
LEMMA RoomKept ==
    ASSUME TypeOK, NoneAssumption, CallerInv, NEW t \in Thread,
           RoomError(t) \/ RoomDelay(t) \/ RoomWait(t) \/ RoomSwitch(t) \/ RoomNoFile(t)
    PROVE  CallerKept
<1>1. /\ th[t].pc = "room" /\ writers' = writers /\ lastSequence' = lastSequence
      /\ manual' = manual /\ mutex' \in Thread \union {None}
    BY DEF RoomError, RoomDelay, RoomWait, RoomSwitch, RoomNoFile, RoomUnchanged, InRoom, At
<1>2. /\ th \in [Thread -> ThreadState] /\ writers \in Seq(Thread) /\ th[t] \in ThreadState
      /\ used \in [write : Nat, compact : Nat, fail : Nat, crash : Nat]
    BY <1>1, CallerTypes DEF TypeOK, CallerTypeOK
<1>3. ~th[t].done /\ 0 < Len(writers) /\ writers[1] = t /\ th[t].group = 1 /\ th[t].count = 0
    BY <1>1 DEF CallerInv, QueueInv, GroupInv, HeadPc
<1>4. CASE RoomDelay(t) \/ RoomWait(t) \/ RoomSwitch(t)
    <2>1. used' = used /\ th' \in {[th EXCEPT ![t].on = "bgcv"], [th EXCEPT ![t].delay = FALSE],
                                   [th EXCEPT ![t].force = FALSE]}
        BY <1>4 DEF RoomDelay, RoomWait, RoomSwitch, WaitBg
    <2>2. QED
        BY <1>1, <2>1, OptionsKept
<1>5. CASE RoomError(t) \/ RoomNoFile(t)
    <2>1. th' = [th EXCEPT ![t].pc = "finish", ![t].ok = FALSE]
        BY <1>5 DEF RoomError, RoomNoFile
    <2>2. used' \in [write : Nat, compact : Nat, fail : Nat, crash : Nat] /\ used'.write = used.write
        BY <1>2, <1>5, UseCounts DEF RoomError, RoomNoFile, TypeOK
    <2> DEFINE w == [th[t] EXCEPT !.pc = "finish", !.ok = FALSE]
    <2>3. /\ w \in ThreadState /\ w.pc = "finish" /\ w.batch = th[t].batch /\ w.sync = th[t].sync
          /\ w.done = th[t].done /\ w.group = th[t].group /\ w.count = th[t].count /\ ~w.ok
        BY <1>2 DEF ThreadState, QueuePc, HeadPc
    <2>4. th' = [th EXCEPT ![t] = w]
        BY <2>1
    <2> HIDE DEF w
    <2>5. CallerTypeOK' /\ th'[t] = w /\ \A u \in Thread : u # t => th'[u] = th[u]
        BY <1>1, <1>2, <2>2, <2>3, <2>4, OneCallerTyped DEF TypeOK
    <2>6. HeadMoves(t)
        BY <1>1, <1>3, <2>2, <2>3, <2>5 DEF HeadMoves, HeadPc
    <2>7. CallerInv'
        BY <1>3, <2>3, <2>5, <2>6, HeadKeeps DEF TypeOK
    <2>8. QED
        BY <1>1, <1>3, <2>3, <2>5, <2>6, <2>7, HeadKept
<1>6. QED
    BY <1>4, <1>5

\* The steps of the head with the mutex released: its group stays what it is.
LEMMA WorkKeeps ==
    ASSUME TypeOK, CallerInv, NEW t \in Thread,
           AddRecord(t) \/ AddRecordFails(t) \/ Sync(t) \/ SyncFails(t) \/ InsertInto(t)
    PROVE  /\ CallerTypeOK' /\ CallerInv' /\ HeadMoves(t)
           /\ Grouped(t) /\ th[t].count > 0 /\ th'[t].count > 0 /\ th'[t].sync = th[t].sync
           /\ \A e : e \in Entries(t)' <=> e \in Entries(t)
           /\ \A u \in Thread : u # t => th[u].pc \notin WorkPc /\ th'[u].pc \notin WorkPc
           /\ \A u \in Thread : th'[u].batch = th[u].batch
           /\ AddRecord(t) => th[t].pc = "append" /\ th'[t].ok = th[t].ok
                              /\ th'[t].pc = IF th[t].sync THEN "sync" ELSE "insert"
           /\ AddRecordFails(t) => th[t].pc = "append" /\ th'[t].pc = "finish" /\ ~th'[t].ok
           /\ Sync(t) => th[t].pc = "sync" /\ th'[t].pc = "insert" /\ th'[t].ok = th[t].ok
           /\ SyncFails(t) => /\ th[t].pc = "sync" /\ th'[t].pc = "finish" /\ ~th'[t].ok
                              /\ th'[t].group = th[t].group /\ th'[t].count = th[t].count
           /\ InsertInto(t) => th[t].pc = "insert" /\ th'[t].pc = "finish" /\ th'[t].ok = th[t].ok
<1>1. /\ th[t].pc \in {"append", "sync", "insert"} /\ writers' = writers /\ lastSequence' = lastSequence
      /\ manual' = manual /\ mutex' = mutex
    BY DEF AddRecord, AddRecordFails, Sync, SyncFails, InsertInto, LogUnchanged, At
<1>2. /\ th \in [Thread -> ThreadState] /\ writers \in Seq(Thread) /\ th[t] \in ThreadState
      /\ mutex \in Thread \union {None} /\ used \in [write : Nat, compact : Nat, fail : Nat, crash : Nat]
    BY CallerTypes DEF TypeOK, CallerTypeOK
<1>3. used' \in [write : Nat, compact : Nat, fail : Nat, crash : Nat] /\ used'.write = used.write
    BY <1>2, UseCounts DEF AddRecord, AddRecordFails, Sync, SyncFails, InsertInto, TypeOK
<1>4. ~th[t].done /\ 0 < Len(writers) /\ writers[1] = t /\ th[t].count > 0
    BY <1>1 DEF CallerInv, QueueInv, GroupInv, HeadPc
<1>5. ASSUME NEW w \in ThreadState, th' = [th EXCEPT ![t] = w], w.pc \in WorkPc,
             w.batch = th[t].batch, w.sync = th[t].sync, w.done = th[t].done,
             w.group = th[t].group, w.count = th[t].count
      PROVE  /\ CallerTypeOK' /\ CallerInv' /\ HeadMoves(t) /\ th'[t] = w
             /\ Grouped(t) /\ th[t].count > 0 /\ th'[t].count > 0
             /\ \A e : e \in Entries(t)' <=> e \in Entries(t)
             /\ \A u \in Thread : u # t => th[u].pc \notin WorkPc /\ th'[u].pc \notin WorkPc
             /\ \A u \in Thread : th'[u].batch = th[u].batch
    <2>1. CallerTypeOK' /\ th'[t] = w /\ \A u \in Thread : u # t => th'[u] = th[u]
        BY <1>1, <1>2, <1>3, <1>5, OneCallerTyped DEF TypeOK
    <2>2. HeadMoves(t)
        BY <1>1, <1>3, <1>4, <1>5, <2>1 DEF HeadMoves, HeadPc, WorkPc
    <2>3. QED
        BY <1>1, <1>4, <1>5, <2>1, <2>2, WorkGoesOn DEF TypeOK, WorkPc
<1>6. CASE AddRecord(t)
    <2> DEFINE w == [th[t] EXCEPT !.pc = IF th[t].sync THEN "sync" ELSE "insert"]
    <2>1. th' = [th EXCEPT ![t] = w] /\ th[t].pc = "append"
        BY <1>6 DEF AddRecord, At
    <2>2. /\ w \in ThreadState /\ w.pc \in WorkPc /\ w.pc = (IF th[t].sync THEN "sync" ELSE "insert")
          /\ w.batch = th[t].batch /\ w.sync = th[t].sync /\ w.done = th[t].done
          /\ w.group = th[t].group /\ w.count = th[t].count /\ w.ok = th[t].ok
        BY <1>2 DEF ThreadState, QueuePc, HeadPc, WorkPc
    <2> HIDE DEF w
    <2>3. ~AddRecordFails(t) /\ ~Sync(t) /\ ~SyncFails(t) /\ ~InsertInto(t)
        <3>1. th'[t].pc # "finish"
            BY <1>5, <2>1, <2>2
        <3>2. ~AddRecordFails(t)
            BY <1>2, <3>1 DEF AddRecordFails, ThreadState
        <3>3. QED
            BY <2>1, <3>2 DEF Sync, SyncFails, InsertInto, At
    <2>4. QED
        BY <1>5, <2>1, <2>2, <2>3
<1>7. CASE AddRecordFails(t)
    <2> DEFINE w == [th[t] EXCEPT !.pc = "finish", !.ok = FALSE]
    <2>1. th' = [th EXCEPT ![t] = w] /\ th[t].pc = "append"
        BY <1>7 DEF AddRecordFails, At
    <2>2. /\ w \in ThreadState /\ w.pc \in WorkPc /\ w.pc = "finish"
          /\ w.batch = th[t].batch /\ w.sync = th[t].sync /\ w.done = th[t].done
          /\ w.group = th[t].group /\ w.count = th[t].count /\ ~w.ok
        BY <1>2 DEF ThreadState, QueuePc, HeadPc, WorkPc
    <2> HIDE DEF w
    <2>3. ~AddRecord(t) /\ ~Sync(t) /\ ~SyncFails(t) /\ ~InsertInto(t)
        <3>1. th'[t].pc = "finish"
            BY <1>5, <2>1, <2>2
        <3>2. ~AddRecord(t)
            BY <1>2, <3>1 DEF AddRecord, ThreadState
        <3>3. QED
            BY <2>1, <3>2 DEF Sync, SyncFails, InsertInto, At
    <2>4. QED
        BY <1>5, <2>1, <2>2, <2>3
<1>8. CASE Sync(t)
    <2> DEFINE w == [th[t] EXCEPT !.pc = "insert"]
    <2>1. th' = [th EXCEPT ![t] = w] /\ th[t].pc = "sync"
        BY <1>8 DEF Sync, At
    <2>2. /\ w \in ThreadState /\ w.pc \in WorkPc /\ w.pc = "insert"
          /\ w.batch = th[t].batch /\ w.sync = th[t].sync /\ w.done = th[t].done
          /\ w.group = th[t].group /\ w.count = th[t].count /\ w.ok = th[t].ok
        BY <1>2 DEF ThreadState, QueuePc, HeadPc, WorkPc
    <2> HIDE DEF w
    <2>3. ~AddRecord(t) /\ ~AddRecordFails(t) /\ ~SyncFails(t) /\ ~InsertInto(t)
        <3>1. th'[t].pc = "insert"
            BY <1>5, <2>1, <2>2
        <3>2. ~SyncFails(t)
            BY <1>2, <3>1 DEF SyncFails, ThreadState
        <3>3. QED
            BY <2>1, <3>2 DEF AddRecord, AddRecordFails, InsertInto, At
    <2>4. QED
        BY <1>5, <2>1, <2>2, <2>3
<1>9. CASE SyncFails(t)
    <2> DEFINE w == [th[t] EXCEPT !.pc = "finish", !.ok = FALSE, !.syncError = TRUE]
    <2>1. th' = [th EXCEPT ![t] = w] /\ th[t].pc = "sync"
        BY <1>9 DEF SyncFails, At
    <2>2. /\ w \in ThreadState /\ w.pc \in WorkPc /\ w.pc = "finish"
          /\ w.batch = th[t].batch /\ w.sync = th[t].sync /\ w.done = th[t].done
          /\ w.group = th[t].group /\ w.count = th[t].count /\ ~w.ok
        BY <1>2 DEF ThreadState, QueuePc, HeadPc, WorkPc
    <2> HIDE DEF w
    <2>3. ~AddRecord(t) /\ ~AddRecordFails(t) /\ ~Sync(t) /\ ~InsertInto(t)
        <3>1. th'[t].pc = "finish"
            BY <1>5, <2>1, <2>2
        <3>2. ~Sync(t)
            BY <1>2, <3>1 DEF Sync, ThreadState
        <3>3. QED
            BY <2>1, <3>2 DEF AddRecord, AddRecordFails, InsertInto, At
    <2>4. QED
        BY <1>5, <2>1, <2>2, <2>3
<1>10. CASE InsertInto(t)
    <2> DEFINE w == [th[t] EXCEPT !.pc = "finish"]
    <2>1. th' = [th EXCEPT ![t] = w] /\ th[t].pc = "insert"
        BY <1>10 DEF InsertInto, At
    <2>2. /\ w \in ThreadState /\ w.pc \in WorkPc /\ w.pc = "finish"
          /\ w.batch = th[t].batch /\ w.sync = th[t].sync /\ w.done = th[t].done
          /\ w.group = th[t].group /\ w.count = th[t].count /\ w.ok = th[t].ok
        BY <1>2 DEF ThreadState, QueuePc, HeadPc, WorkPc
    <2> HIDE DEF w
    <2>3. ~AddRecord(t) /\ ~AddRecordFails(t) /\ ~Sync(t) /\ ~SyncFails(t)
        BY <2>1 DEF AddRecord, AddRecordFails, Sync, SyncFails, At
    <2>4. QED
        BY <1>5, <2>1, <2>2, <2>3
<1>11. QED
    BY <1>6, <1>7, <1>8, <1>9, <1>10

\* The steps of CompactRange behind its NULL write, and those of the destructor.
LEMMA OutsideKept ==
    ASSUME TypeOK, CallerInv, NEW t \in Thread,
           WaitImm(t) \/ ManualCompaction(t) \/ Close(t) \/ (Destroyed(t) /\ bg.pc # "none")
    PROVE  CallerKept
<1>1. writers' = writers /\ lastSequence' = lastSequence /\ mutex' = mutex /\ used' = used
    BY DEF WaitImm, ManualCompaction, Close, Destroyed, CallerUnchanged
<1>2. /\ th \in [Thread -> ThreadState] /\ writers \in Seq(Thread) /\ th[t] \in ThreadState
      /\ mutex \in Thread \union {None} /\ manual \in Thread \union {None}
      /\ used \in [write : Nat, compact : Nat, fail : Nat, crash : Nat] /\ used.write <= used'.write
      /\ manual # None => th[manual].pc = "manual"
    BY <1>1, CallerTypes DEF TypeOK, CallerTypeOK, CallerInv, QueueInv
<1>3. ASSUME NEW w \in ThreadState, Outside(w), th' = [th EXCEPT ![t] = w], Gone(th[t]),
             manual' \in {manual, None}, manual' = t => w.pc = "manual"
      PROVE  CallerKept
    <2>1. th' \in [Thread -> ThreadState] /\ th'[t] = w /\ \A u \in Thread : u # t => th'[u] = th[u]
        BY <1>2, <1>3
    <2>2. CallerTypeOK'
        BY <1>1, <1>2, <1>3, <2>1 DEF CallerTypeOK
    <2>3. Still
        BY <1>1, <1>3, <2>1 DEF Still, SameWriter
    <2>4. manual' # None => th'[manual'].pc = "manual"
        BY <1>2, <1>3, <2>1
    <2>5. QED
        BY <1>2, <2>2, <2>3, <2>4, StillKept
<1>4. CASE WaitImm(t)
    <2>1. manual' = manual /\ th[t].pc = "imm"
        BY <1>4 DEF WaitImm, At
    <2>2. CASE th' = [th EXCEPT ![t].on = "bgcv"]
        BY <1>1, <1>2, <2>1, <2>2, OptionsKept
    <2>3. CASE th' = [th EXCEPT ![t].pc = "manual"]
        <3> DEFINE w == [th[t] EXCEPT !.pc = "manual"]
        <3>1. w \in ThreadState /\ w.pc = "manual" /\ w.batch = th[t].batch /\ w.sync = th[t].sync
            BY <1>2 DEF ThreadState
        <3>2. th' = [th EXCEPT ![t] = w]
            BY <2>3
        <3> HIDE DEF w
        <3>3. Gone(th[t]) /\ Outside(w)
            BY <2>1, <3>1 DEF Gone, Outside, InQueue, QueuePc, HeadPc, CallerInv, BatchInv
        <3>4. QED
            BY <1>3, <2>1, <3>1, <3>2, <3>3
    <2>4. QED
        BY <1>4, <2>2, <2>3 DEF WaitImm, WaitBg
<1>5. CASE ManualCompaction(t)
    <2>1. th[t].pc = "manual"
        BY <1>5 DEF ManualCompaction, At
    <2>2. CASE ManualLoops(t)
        <3>1. th' = [th EXCEPT ![t].on = "bgcv"] /\ (manual' = manual \/ manual' = t)
            BY <1>5, <2>2 DEF ManualCompaction, WaitBg
        <3>2. QED
            BY <1>1, <1>2, <2>1, <3>1, OptionsKept
    <2>3. CASE ~ManualLoops(t)
        <3>1. th' = [th EXCEPT ![t] = Idle] /\ manual' = IF manual = t THEN None ELSE manual
            BY <1>5, <2>3 DEF ManualCompaction
        <3>2. Gone(th[t]) /\ Outside(Idle) /\ Idle \in ThreadState /\ manual' \in {manual, None}
            BY <2>1, <3>1, ReturnedOutside DEF Gone, InQueue, QueuePc, HeadPc
        <3>3. manual' # t
            <4>1. CASE manual = t
                <5>1. manual' = None /\ th[None] = th[None]
                    BY <3>1, <4>1
                <5>2. CASE None = t
                    BY <1>2, <2>1, <3>1, <4>1, <5>1, <5>2, NoneAssumption DEF NoneAssumption
                <5>3. QED
                    BY <5>1, <5>2
            <4>2. QED
                BY <3>1, <4>1
        <3>4. QED
            BY <1>3, <3>1, <3>2, <3>3
    <2>4. QED
        BY <2>2, <2>3
<1>6. CASE Close(t)
    <2> DEFINE w == [th[t] EXCEPT !.pc = "close"]
    <2>1. th' = [th EXCEPT ![t] = w] /\ th[t].pc = "idle" /\ manual' = manual
        BY <1>6 DEF Close, At
    <2>2. w \in ThreadState /\ w.pc = "close" /\ w.batch = th[t].batch /\ w.sync = th[t].sync
        BY <1>2 DEF ThreadState
    <2> HIDE DEF w
    <2>3. Gone(th[t]) /\ Outside(w)
        BY <2>1, <2>2 DEF Gone, Outside, InQueue, QueuePc, HeadPc, CallerInv, BatchInv
    <2>4. manual' # t
        BY <1>2, <2>1, NoneAssumption DEF NoneAssumption
    <2>5. QED
        BY <1>3, <2>1, <2>2, <2>3, <2>4
<1>7. CASE Destroyed(t) /\ bg.pc # "none"
    <2>1. th' = [th EXCEPT ![t].on = "bgcv"] /\ manual' = manual
        BY <1>7 DEF Destroyed, WaitBg
    <2>2. QED
        BY <1>1, <1>2, <2>1, OptionsKept
<1>8. QED
    BY <1>4, <1>5, <1>6, <1>7

\* Every step of the background thread that does not end the process.
LEMMA BgKept ==
    ASSUME TypeOK, CallerInv, BgStep, ~ReadsNull
    PROVE  CallerKept
<1>1. /\ writers' = writers /\ lastSequence' = lastSequence /\ mutex' = mutex
      /\ used' \in [write : Nat, compact : Nat, fail : Nat, crash : Nat]
      /\ used.write <= used'.write
    <2>1. writers' = writers /\ lastSequence' = lastSequence /\ mutex' = mutex
        BY DEF BgStep, BackgroundCallOff, StartCompactMemTable, NothingToDo, StartCompaction,
               BuildTable, LogMemTable, WorkOnMemTable, WorkEnds, WriteManifest, InstallMemTable,
               InstallCompaction, StartUnchanged, BgUnchanged
    <2>2. used' = used \/ Use("fail", MaxFail)
        BY DEF BgStep, BackgroundCallOff, StartCompactMemTable, NothingToDo, StartCompaction,
               BuildTable, LogMemTable, WorkOnMemTable, WorkEnds, WriteManifest, InstallMemTable,
               InstallCompaction, StartUnchanged
    <2>3. QED
        BY <2>1, <2>2, UseCounts, CallerTypes DEF TypeOK, CallerTypeOK
<1>2. ASSUME th' = th, manual' = manual PROVE CallerKept
    <2>1. CallerTypeOK'
        BY <1>1, <1>2 DEF TypeOK, CallerTypeOK
    <2>2. Still /\ (manual' # None => th'[manual'].pc = "manual")
        BY <1>1, <1>2 DEF Still, SameWriter, CallerInv, QueueInv
    <2>3. QED
        BY <1>1, <2>1, <2>2, StillKept
<1>3. ASSUME th' = SignalAll(th) \/ (manual # None /\ th' = SignalAll([th EXCEPT ![manual].done = TRUE])),
             manual' \in {manual, None}
      PROVE  CallerKept
    BY <1>1, <1>3, SignalKept
<1>4. CASE BackgroundCallOff \/ NothingToDo
    BY <1>3, <1>4 DEF BackgroundCallOff, NothingToDo, Ends
<1>5. CASE \/ StartCompactMemTable \/ StartCompaction \/ BuildTable \/ WorkOnMemTable \/ WriteManifest
    BY <1>2, <1>5 DEF StartCompactMemTable, StartCompaction, BuildTable, WorkOnMemTable, WriteManifest
<1>6. CASE LogMemTable \/ InstallMemTable
    BY <1>2, <1>3, <1>6 DEF LogMemTable, InstallMemTable, MemTableDone, Ends
<1>7. CASE WorkEnds
    <2>1. CASE th' = th /\ manual' = manual
        BY <1>2, <2>1
    <2>2. CASE ~Withdrawn /\ CompactionDone(FALSE, TRUE, version)
        BY <1>3, <2>2 DEF CompactionDone, Ends, Withdrawn
    <2>3. QED
        BY <1>7, <2>1, <2>2 DEF WorkEnds
<1>8. CASE InstallCompaction
    <2>1. ~Withdrawn /\ CompactionDone(bg.ok, bgError', version')
        BY <1>8 DEF InstallCompaction
    <2>2. QED
        BY <1>3, <2>1 DEF CompactionDone, Ends, Withdrawn
<1>9. QED
    BY <1>4, <1>5, <1>6, <1>7, <1>8 DEF BgStep

=============================================================================
