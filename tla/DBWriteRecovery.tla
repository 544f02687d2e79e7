--------------------------- MODULE DBWriteRecovery ---------------------------
(* What was acknowledged survives, and no sequence number is used twice: the steps *)
(* of DBWrite keep the part of its invariant that is about logs, tables and files.  *)
EXTENDS DBWriteProofs

-----------------------------------------------------------------------------
\* None is NULL, and no memtable.
NoneIsNoTable == None \notin SUBSET Entry

\* A step that leaves memtables, logs, tables and what was acknowledged alone.
DataSame ==
    /\ mem' = mem /\ imm' = imm /\ logs' = logs /\ logfile' = logfile /\ nextFile' = nextFile
    /\ lastSequence' = lastSequence /\ version' = version /\ manifest' = manifest
    /\ acked' = acked /\ synced' = synced /\ spoiled' = spoiled /\ lostPower' = lostPower

\* The database works, and goes on doing so.
StaysOpen == Operating /\ phase' \in {"open", "closing"}

BgSame == bg' = bg \/ (bg.pc = "none" /\ bg' = [bg EXCEPT !.pc = "start"])

\* The steps of a caller that touch no data.
QuietCaller(t) ==
    \/ (\E s \in BOOLEAN : Write(t, s)) \/ CompactRange(t) \/ Close(t) \/ Queued(t)
    \/ RoomError(t) \/ RoomDelay(t) \/ RoomEnough(t) \/ RoomWait(t) \/ RoomNoFile(t)
    \/ SyncFails(t) \/ WaitImm(t) \/ ManualCompaction(t) \/ (Destroyed(t) /\ bg.pc # "none")

\* And those of the background thread.
QuietBg ==
    \/ BackgroundCallOff \/ StartCompactMemTable \/ NothingToDo \/ StartCompaction
    \/ BuildTable \/ LogMemTable \/ WorkOnMemTable \/ WorkEnds

\* The types of memtables, and of single numbers and sets.
LEMMA FileTypes ==
    ASSUME FileTypeOK
    PROVE  /\ mem \in SUBSET Entry /\ (imm # None => imm \in SUBSET Entry)
           /\ ImmEntries \in SUBSET Entry
           /\ version.tables \in SUBSET Entry /\ manifest.tables \in SUBSET Entry
           /\ version.log \in Nat /\ manifest.log \in Nat /\ manifest.seq \in Nat /\ manifest.next \in Nat
           /\ logfile \in Nat /\ nextFile \in Nat /\ lastSequence \in Nat
           /\ \A e \in Entry : e[1] \in Nat /\ e[2] \in Nat
<1>1. MemTypeOK
    BY DEF FileTypeOK
<1>2. mem \in SUBSET Entry /\ (imm # None => imm \in SUBSET Entry)
    BY <1>1 DEF MemTypeOK
<1>3. ImmEntries \in SUBSET Entry
    BY <1>2 DEF ImmEntries
<1>4. version \in [log : Nat, tables : SUBSET Entry, level0 : Int]
      /\ manifest \in [log : Nat, tables : SUBSET Entry, level0 : Int, seq : Nat, next : Nat]
      /\ logfile \in Nat /\ nextFile \in Nat /\ lastSequence \in Nat
    BY DEF FileTypeOK
<1>5. \A e \in Entry : e[1] \in Nat /\ e[2] \in Nat
    BY DEF Entry
<1>6. QED
    BY <1>2, <1>3, <1>4, <1>5

\* MaybeScheduleCompaction starts the background thread or leaves it.
LEMMA ScheduleIs ==
    ASSUME NEW b, NEW error, NEW immNow, NEW manualNow, NEW level0
    PROVE  LET s == Schedule(b, error, immNow, manualNow, level0)
           IN  s = b \/ (b.pc = "none" /\ s = [b EXCEPT !.pc = "start"])
BY DEF Schedule

\* Somebody is at work only while the database is open.
LEMMA WorkIsOpen ==
    ASSUME FileInv, CallerTypeOK
    PROVE  /\ \A t \in Thread : th[t].pc # "idle" => Operating
           /\ bg.pc # "none" => Operating
<1>1. Idle.pc = "idle" /\ Unscheduled.pc = "none"
    BY DEF Idle, Unscheduled
<1>2. QED
    BY <1>1 DEF FileInv

\* What such a step of a caller amounts to.
LEMMA QuietCallerIs ==
    ASSUME TypeOK, CallerInv, FileInv, NEW t \in Thread, QuietCaller(t)
    PROVE  CallerKept /\ DataSame /\ StaysOpen /\ BgSame /\ bgError' = bgError
<1>1. CallerKept
    <2>1. CASE SyncFails(t)
        <3>1. /\ CallerTypeOK' /\ CallerInv' /\ HeadMoves(t) /\ th[t].pc = "sync"
              /\ th'[t].pc = "finish" /\ ~th'[t].ok
              /\ th'[t].group = th[t].group /\ th'[t].count = th[t].count
            BY <2>1, WorkKeeps
        <3>2. QED
            BY <3>1, HeadKept
    <2>2. QED
        BY <2>1, NoneAssumption, EnterKept, QueuedKept, RoomKept, RoomEnoughKept, OutsideKept
        DEF QuietCaller
<1>2. DataSame /\ bgError' = bgError
    BY DEF QuietCaller, Write, CompactRange, Enter, Close, Queued, RoomError, RoomDelay, RoomEnough,
           RoomWait, RoomNoFile, SyncFails, WaitImm, ManualCompaction, Destroyed, RoomUnchanged,
           CallerUnchanged, LogUnchanged, logState, fileState, history, DataSame
<1>3. StaysOpen
    <2>1. (th[t].pc # "idle" /\ phase' = phase) \/ (phase = "open" /\ phase' \in {"open", "closing"})
        BY DEF QuietCaller, Write, CompactRange, Enter, Close, Queued, RoomError, RoomDelay, RoomEnough,
               RoomWait, RoomNoFile, SyncFails, WaitImm, ManualCompaction, Destroyed, RoomUnchanged,
               CallerUnchanged, LogUnchanged, InRoom, At
    <2>2. QED
        BY <2>1, WorkIsOpen DEF StaysOpen, Operating, TypeOK
<1>4. BgSame
    <2>1. bg' = bg \/ bg' = Schedule(bg, bgError, imm, t, version.level0)
        BY DEF QuietCaller, Write, CompactRange, Enter, Close, Queued, RoomError, RoomDelay, RoomEnough,
               RoomWait, RoomNoFile, SyncFails, WaitImm, ManualCompaction, Destroyed, RoomUnchanged,
               CallerUnchanged, LogUnchanged
    <2>2. QED
        BY <2>1, ScheduleIs DEF BgSame
<1>5. QED
    BY <1>1, <1>2, <1>3, <1>4

\* A background thread that is only woken has nothing new in its hands.
LEMMA BgWoken ==
    ASSUME bg \in BgState, BgSame
    PROVE  /\ bg' \in BgState
           /\ bg'.memtable = bg.memtable /\ bg'.ok = bg.ok /\ bg'.edit = bg.edit
           /\ bg'.pc = bg.pc \/ (bg.pc = "none" /\ bg'.pc = "start")
BY DEF BgSame, BgState

\* Files are as they were if the step touched no data.
LEMMA FilesSame ==
    ASSUME FileTypeOK, FileInv, DataSame, StaysOpen, bgError' \in BOOLEAN, bg' \in BgState
    PROVE  FileTypeOK' /\ FileInv' /\ OpeningInv' /\ Operating'
<1>1. FileTypeOK'
    BY DEF FileTypeOK, MemTypeOK, DataSame, StaysOpen
<1>2. Operating'
    BY DEF StaysOpen, Operating
<1>3. FileInv'
    BY <1>2 DEF FileInv, DataSame, StaysOpen, Operating
<1>4. OpeningInv'
    BY DEF OpeningInv, StaysOpen
<1>5. QED
    BY <1>1, <1>2, <1>3, <1>4

\* What callers do without data leaves the background thread its edit.
LEMMA QuietCallerFiles ==
    ASSUME TypeOK, CallerInv, BgInv, FileInv, NEW t \in Thread, QuietCaller(t)
    PROVE  FileTypeOK' /\ BgInv' /\ FileInv' /\ OpeningInv' /\ Operating'
<1>1. DataSame /\ StaysOpen /\ BgSame /\ bgError' = bgError
    BY QuietCallerIs
<1>2. bg \in BgState /\ bgError \in BOOLEAN
    BY DEF TypeOK, FileTypeOK
<1>3. FileTypeOK' /\ FileInv' /\ OpeningInv' /\ Operating'
    BY <1>1, <1>2, BgWoken, FilesSame DEF TypeOK
<1>4. BgInv'
    BY <1>1, <1>2, BgWoken DEF BgInv, DataSame
<1>5. QED
    BY <1>3, <1>4

\* The record that LogAndApply will write.
LEMMA EditIs ==
    ASSUME TypeOK, FileInv, SeqInv, Operating, NEW add \in SUBSET Entry, NEW log \in Nat, NEW l \in Int,
           log <= logfile, \A e \in add : e[2] <= lastSequence
    PROVE  LET d == Edit(add, log, l)
           IN  /\ d \in EditState /\ d.add = add /\ d.log = log /\ d.log < d.next
               /\ manifest.seq <= d.seq /\ d.seq <= lastSequence
               /\ \A e \in d.add : e[2] <= d.seq
<1>1. lastSequence \in Nat /\ nextFile \in Nat /\ logfile \in Nat /\ manifest.seq \in Nat
    BY DEF TypeOK, FileTypeOK
<1>2. logfile < nextFile /\ manifest.seq <= lastSequence
    BY DEF FileInv
<1>3. QED
    BY <1>1, <1>2 DEF Edit, EditState

\* The background thread by itself, until it writes a manifest.
LEMMA QuietBgFiles ==
    ASSUME TypeOK, CallerInv, BgInv, FileInv, SeqInv, QuietBg
    PROVE  DataSame /\ StaysOpen /\ FileTypeOK' /\ BgInv' /\ FileInv' /\ OpeningInv' /\ Operating'
<1>1. DataSame
    BY DEF QuietBg, BackgroundCallOff, StartCompactMemTable, NothingToDo, StartCompaction, BuildTable,
           LogMemTable, WorkOnMemTable, WorkEnds, StartUnchanged, BgUnchanged, fileState, DataSame
<1>2. phase' = phase /\ bg.pc # "none"
    BY DEF QuietBg, BackgroundCallOff, StartCompactMemTable, NothingToDo, StartCompaction, BuildTable,
           LogMemTable, WorkOnMemTable, WorkEnds, StartUnchanged, AtBg
<1>3. StaysOpen /\ Operating
    BY <1>2, WorkIsOpen DEF StaysOpen, Operating, TypeOK
<1>4. bg \in BgState /\ bg.edit \in EditState /\ bgError \in BOOLEAN
    BY DEF TypeOK, FileTypeOK, BgState
<1>5. bgError' \in BOOLEAN
    BY <1>4 DEF QuietBg, BackgroundCallOff, StartCompactMemTable, NothingToDo, StartCompaction, BuildTable,
           LogMemTable, WorkOnMemTable, WorkEnds, StartUnchanged
<1>6. Unscheduled \in BgState /\ Unscheduled.pc = "none" /\ ~Unscheduled.memtable
    BY DEF Unscheduled, BgState, NoEdit, EditState, Entry
<1>7. ASSUME bg' = Unscheduled \/ bg' = [Unscheduled EXCEPT !.pc = "start"]
      PROVE  bg' \in BgState /\ BgInv'
    <2>1. bg' \in BgState /\ ~bg'.memtable /\ bg'.pc \in {"none", "start"}
        BY <1>6, <1>7 DEF BgState
    <2>2. QED
        BY <2>1 DEF BgInv
<1>8. \A error, immNow, manualNow, level0 :
        LET s == Schedule(Unscheduled, error, immNow, manualNow, level0)
        IN  s = Unscheduled \/ s = [Unscheduled EXCEPT !.pc = "start"]
    BY ScheduleIs
<1>9. bg' \in BgState /\ BgInv'
    <2>1. CASE BackgroundCallOff \/ NothingToDo
        BY <1>7, <1>8, <2>1 DEF BackgroundCallOff, NothingToDo, Ends
    <2>2. CASE StartCompactMemTable \/ WorkOnMemTable
        <3>1. imm # None /\ bg'.pc = "build" /\ bg'.memtable /\ bg' \in BgState
            BY <1>4, <2>2 DEF StartCompactMemTable, WorkOnMemTable, BgState
        <3>2. QED
            BY <1>1, <3>1 DEF BgInv, DataSame
    <2>3. CASE StartCompaction
        <3>1. version.log \in Nat /\ version.level0 \in Int
            BY DEF TypeOK, FileTypeOK
        <3>2. version.log <= logfile
            BY <1>3, <3>1 DEF FileInv, TypeOK, FileTypeOK
        <3>3. LET d == Edit({}, version.log, -1)
              IN  /\ d \in EditState /\ d.add = {} /\ d.log = version.log /\ d.log < d.next
                  /\ manifest.seq <= d.seq /\ d.seq <= lastSequence
            <4>1. -1 \in Int /\ {} \in SUBSET Entry
                OBVIOUS
            <4>2. QED
                BY <1>3, <3>1, <3>2, <4>1, EditIs, ZenonT(60)
        <3>4. ~bg.memtable
            BY <2>3 DEF BgInv, StartCompaction, AtBg
        <3>5. CASE bg' = [bg EXCEPT !.pc = "work", !.isManual = (manual # None), !.inputs = Inputs]
            <4>1. bg' \in BgState /\ bg'.pc = "work" /\ ~bg'.memtable
                BY <1>4, <3>1, <3>4, <3>5 DEF Inputs, BgState
            <4>2. QED
                BY <4>1 DEF BgInv
        <3>6. CASE bg' = [bg EXCEPT !.pc = "apply", !.edit = Edit({}, version.log, -1)]
            <4>1. /\ bg' \in BgState /\ bg'.pc = "apply" /\ ~bg'.memtable
                  /\ bg'.edit = Edit({}, version.log, -1)
                BY <1>4, <3>3, <3>4, <3>6 DEF BgState
            <4>2. QED
                BY <1>1, <3>3, <4>1 DEF BgInv, DataSame
        <3>7. QED
            BY <2>3, <3>5, <3>6 DEF StartCompaction
    <2>4. CASE BuildTable
        <3>1. bg'.pc = "built" /\ bg'.memtable = bg.memtable /\ bg' \in BgState
            BY <1>4, <2>4 DEF BuildTable, BgState
        <3>2. bg.memtable /\ imm # None
            BY <2>4 DEF BuildTable, BgInv
        <3>3. QED
            BY <1>1, <3>1, <3>2 DEF BgInv, DataSame
    <2>5. CASE LogMemTable
        <3>1. bg.memtable /\ imm # None /\ imm \in SUBSET Entry /\ logfile \in Nat
            <4>1. bg.pc = "built"
                BY <2>5 DEF LogMemTable, AtBg
            <4>2. bg.memtable /\ imm # None
                BY <4>1 DEF BgInv
            <4>3. QED
                BY <4>2, FileTypes DEF TypeOK
        <3>2. CASE bg' = [bg EXCEPT !.pc = "apply", !.edit = MemTableEdit]
            <4>1. \A e \in imm : e[2] <= lastSequence
                BY <3>1 DEF SeqInv, ImmEntries
            <4>2. PICK l \in Int : MemTableEdit = Edit(imm, logfile, l) /\ logfile <= logfile
                BY <3>1 DEF MemTableEdit
            <4>3. LET d == MemTableEdit
                  IN  /\ d \in EditState /\ d.add = imm /\ d.log = logfile /\ d.log < d.next
                      /\ manifest.seq <= d.seq /\ d.seq <= lastSequence
                      /\ \A e \in d.add : e[2] <= d.seq
                BY <1>3, <3>1, <4>1, <4>2, EditIs, ZenonT(60)
            <4>4. /\ bg' \in BgState /\ bg'.pc = "apply" /\ bg'.memtable = bg.memtable
                  /\ bg'.edit = MemTableEdit
                BY <1>4, <3>2, <4>3 DEF BgState
            <4>5. QED
                BY <1>1, <3>1, <4>3, <4>4 DEF BgInv, DataSame
        <3>3. CASE bg' = [bg EXCEPT !.pc = "work", !.memtable = FALSE, !.nested = FALSE, !.ok = TRUE]
            <4>1. bg' \in BgState /\ bg'.pc = "work" /\ ~bg'.memtable
                BY <1>4, <3>3 DEF BgState
            <4>2. QED
                BY <4>1 DEF BgInv
        <3>4. CASE bg' = Schedule(Unscheduled, TRUE, imm, manual, version.level0)
            BY <1>7, <1>8, <3>4
        <3>5. QED
            BY <2>5, <3>2, <3>3, <3>4 DEF LogMemTable, MemTableDone, Ends
    <2>6. CASE WorkEnds
        <3>1. ~bg.memtable /\ bg.pc = "work" /\ bg.inputs \in Int
            BY <1>4, <2>6 DEF WorkEnds, AtBg, BgInv, BgState
        <3>2. CASE bg' = [bg EXCEPT !.pc = "apply", !.edit = Edit({}, version.log, -bg.inputs)]
            <4>1. version.log \in Nat /\ -bg.inputs \in Int
                BY <3>1 DEF TypeOK, FileTypeOK
            <4>2. version.log <= logfile
                BY <1>3, <4>1 DEF FileInv, TypeOK, FileTypeOK
            <4>3. LET d == Edit({}, version.log, -bg.inputs)
                  IN  /\ d \in EditState /\ d.add = {} /\ d.log = version.log /\ d.log < d.next
                      /\ manifest.seq <= d.seq /\ d.seq <= lastSequence
                BY <1>3, <4>1, <4>2, EditIs
            <4>4. /\ bg' \in BgState /\ bg'.pc = "apply" /\ ~bg'.memtable
                  /\ bg'.edit = Edit({}, version.log, -bg.inputs)
                BY <1>4, <3>1, <3>2, <4>3 DEF BgState
            <4>5. QED
                BY <1>1, <4>3, <4>4 DEF BgInv, DataSame
        <3>3. CASE CompactionDone(FALSE, TRUE, version)
            BY <1>7, <1>8, <3>3 DEF CompactionDone, Ends
        <3>4. QED
            BY <2>6, <3>2, <3>3 DEF WorkEnds
    <2>7. QED
        BY <2>1, <2>2, <2>3, <2>4, <2>5, <2>6 DEF QuietBg
<1>10. FileTypeOK' /\ FileInv' /\ OpeningInv' /\ Operating'
    BY <1>1, <1>3, <1>5, <1>9, FilesSame DEF TypeOK
<1>11. QED
    BY <1>1, <1>3, <1>9, <1>10

-----------------------------------------------------------------------------
\* Numbers stay unique when entries only go away.
LEMMA UniqueKept ==
    ASSUME UniqueInv, \A e : Present(e)' => Present(e)
    PROVE  UniqueInv'
BY DEF UniqueInv

\* The same for the ids in memtables, while writers keep their batches.
LEMMA IdKept ==
    ASSUME TypeOK, IdInv, WorkGoes, used.write <= used'.write, used'.write \in Nat,
           \A e : e \in (mem \union ImmEntries)' => e \in mem \union ImmEntries
    PROVE  IdInv'
<1> SUFFICES ASSUME NEW e \in mem \union ImmEntries
             PROVE  /\ e[1] <= used'.write
                    /\ \A i \in 1..Len(writers)' : th'[writers'[i]].batch = e[1] => Reporting(e)'
    BY DEF IdInv
<1>1. e \in Entry
    BY FileTypes DEF TypeOK
<1>2. e[1] \in Nat /\ used.write \in Nat
    BY <1>1, CallerTypes DEF TypeOK, Entry
<1>3. e[1] <= used.write /\ \A i \in 1..Len(writers) : th[writers[i]].batch = e[1] => Reporting(e)
    BY DEF IdInv
<1>4. e[1] <= used'.write
    BY <1>2, <1>3
<1>5. ASSUME NEW i \in 1..Len(writers)', th'[writers'[i]].batch = e[1]
      PROVE  Reporting(e)'
    <2>1. e[1] # None /\ ~(used.write < e[1])
        BY <1>2, <1>3, NoneAssumption DEF NoneAssumption
    <2>2. \E j \in 1..Len(writers) : th[writers[j]].batch = e[1]
        BY <1>5, <2>1 DEF WorkGoes
    <2>3. QED
        BY <1>3, <2>2 DEF WorkGoes
<1>6. QED
    BY <1>4, <1>5

\* No step but the end of a group makes a batch of the queue an acknowledged one.
LEMMA AckedKept ==
    ASSUME TypeOK, AckedInv, used.write <= used'.write, used'.write \in Nat, acked' = acked,
           \A i \in 1..Len(writers)' :
              \/ th'[writers'[i]].batch = None \/ used.write < th'[writers'[i]].batch
              \/ \E j \in 1..Len(writers) : th'[writers'[i]].batch = th[writers[j]].batch
    PROVE  AckedInv'
<1> SUFFICES ASSUME NEW i \in acked
             PROVE  i <= used'.write /\ \A j \in 1..Len(writers)' : th'[writers'[j]].batch # i
    BY DEF AckedInv
<1>1. i \in Nat /\ used.write \in Nat /\ i # None
    BY CallerTypes, NoneAssumption DEF TypeOK, FileTypeOK, NoneAssumption
<1>2. i <= used.write /\ \A j \in 1..Len(writers) : th[writers[j]].batch # i
    BY DEF AckedInv
<1>3. i <= used'.write /\ ~(used.write < i)
    BY <1>1, <1>2
<1>4. QED
    BY <1>1, <1>2, <1>3

\* What was acknowledged survives a step that hides nothing.
LEMMA SurviveKept ==
    ASSUME SurviveInv, Operating, Operating', acked' = acked, synced' = synced,
           spoiled \subseteq spoiled', lostPower' = lostPower,
           \A e : e \in Visible => e \in Visible'
    PROVE  SurviveInv'
<1>1. Ids(Visible) \subseteq Ids(Visible')
    BY DEF Ids
<1>2. QED
    BY <1>1 DEF SurviveInv, AckedSurvive, Ids

-----------------------------------------------------------------------------
\* A step without data keeps what is said of data.
LEMMA DataKept ==
    ASSUME TypeOK, CallerInv, FileInv, DataInv, WorkGoes, DataSame, Operating, Operating',
           used.write <= used'.write, used'.write \in Nat
    PROVE  DataInv'
<1>1. /\ \A e : Logged(e)' <=> Logged(e)
      /\ \A e : Reporting(e) => Reporting(e)'
    BY DEF WorkGoes
<1>2. \A n : (n \in DOMAIN logs)' <=> n \in DOMAIN logs
    BY DEF DataSame
<1>3. \A n : Readable(n)' = Readable(n)
    BY DEF Readable, DataSame
<1>4. \A n : Durable(n)' = Durable(n)
    BY DEF Durable, DataSame
<1>5. ImmEntries' = ImmEntries
    BY DEF ImmEntries, DataSame
<1>6. SeqInv'
    BY <1>1, <1>3, <1>5 DEF DataInv, SeqInv, DataSame, Operating
<1>7. UniqueInv'
    <2>1. \A e : Present(e)' => Present(e)
        BY <1>3, <1>5 DEF Present, DataSame
    <2>2. QED
        BY <2>1 DEF DataInv, UniqueInv
<1>8. IdInv' /\ AckedInv'
    BY <1>5, IdKept, AckedKept DEF DataInv, WorkGoes, DataSame
<1>9. BackedInv'
    <2>1. \A e : Recovered(e)' <=> Recovered(e)
        BY <1>3 DEF Recovered, ToRecover, DataSame
    <2>2. \A e : RecoveredSynced(e)' <=> RecoveredSynced(e)
        BY <1>4 DEF RecoveredSynced, ToRecover, DataSame
    <2>3. QED
        BY <1>3, <1>4, <1>5, <2>1, <2>2 DEF DataInv, BackedInv, DataSame
<1>10. WorkInv'
    <2> SUFFICES ASSUME NEW t \in Thread, HasLogged(th'[t]), NEW e \in Entries(t)'
                 PROVE  /\ e[1] \notin spoiled => e \in Readable(logfile)
                        /\ th'[t].pc # "sync" /\ th'[t].sync /\ e[1] \notin spoiled => e \in Durable(logfile)
                        /\ th'[t].pc = "finish" => e \in mem
        BY <1>3, <1>4 DEF WorkInv, DataSame
    <2>1. HasLogged(th[t]) /\ th[t].pc = th'[t].pc /\ th[t].sync = th'[t].sync /\ e \in Entries(t)
        BY DEF WorkGoes
    <2>2. QED
        BY <2>1 DEF DataInv, WorkInv
<1>11. SurviveInv'
    BY DEF DataInv, SurviveInv, AckedSurvive, DataSame, Visible, Ids
<1>12. QED
    BY <1>6, <1>7, <1>8, <1>9, <1>10, <1>11 DEF DataInv

\* A new log is empty, the others are as they were.
LEMMA LogAdded ==
    ASSUME FileTypeOK, NEW n \in Nat, n \notin DOMAIN logs, logs' = WithLog(n)
    PROVE  /\ DOMAIN logs' = DOMAIN logs \union {n} /\ logs'[n] = EmptyLog
           /\ logs' \in [DOMAIN logs' -> LogState]
           /\ \A m \in DOMAIN logs' : logs'[m].synced <= Len(logs'[m].recs)
           /\ \A m \in DOMAIN logs : Readable(m)' = Readable(m) /\ Durable(m)' = Durable(m)
           /\ \A e : e \notin Readable(n)'
<1>1. EmptyLog \in LogState /\ EmptyLog.recs = <<>> /\ EmptyLog.synced <= Len(EmptyLog.recs)
    BY DEF EmptyLog, LogState
<1>2. /\ DOMAIN logs' = DOMAIN logs \union {n} /\ logs'[n] = EmptyLog
      /\ \A m \in DOMAIN logs : logs'[m] = logs[m]
      /\ logs' = [m \in DOMAIN logs' |-> logs'[m]]
    BY DEF WithLog
<1>3. \A m \in DOMAIN logs : logs[m] \in LogState /\ logs[m].synced <= Len(logs[m].recs)
    BY DEF FileTypeOK
<1>4. \A m \in DOMAIN logs' : logs'[m] \in LogState /\ logs'[m].synced <= Len(logs'[m].recs)
    BY <1>1, <1>2, <1>3
<1>5. logs' \in [DOMAIN logs' -> LogState]
    BY <1>2, <1>4
<1>6. \A m \in DOMAIN logs : Readable(m)' = Readable(m) /\ Durable(m)' = Durable(m)
    BY <1>2 DEF Readable, Durable
<1>7. \A e : e \notin Readable(n)'
    BY <1>1, <1>2 DEF Readable
<1>8. QED
    BY <1>2, <1>4, <1>5, <1>6, <1>7

\* The memtable becomes imm_ and the log behind it is not written any more.
LEMMA RoomSwitchStep ==
    ASSUME TypeOK, NoneIsNoTable, CallerInv, BgInv, FileInv, DataInv, NEW t \in Thread, RoomSwitch(t)
    PROVE  FileTypeOK' /\ BgInv' /\ FileInv' /\ OpeningInv' /\ DataInv'
<1>1. CallerKept
    BY NoneAssumption, RoomKept
<1>2. /\ th[t].pc = "room" /\ imm = None /\ logs' = WithLog(nextFile)
      /\ logfile' = nextFile /\ nextFile' = nextFile + 1 /\ imm' = mem /\ mem' = {}
      /\ lastSequence' = lastSequence /\ version' = version /\ manifest' = manifest
      /\ bgError' = bgError /\ phase' = phase /\ acked' = acked /\ synced' = synced
      /\ spoiled' = spoiled /\ lostPower' = lostPower /\ used' = used
    BY DEF RoomSwitch, InRoom, At, MustWait, RoomUnchanged, fileState, history
<1>3. Operating /\ Operating'
    BY <1>2, WorkIsOpen DEF Operating, TypeOK
<1>4. /\ nextFile \in Nat /\ logfile \in Nat /\ logfile < nextFile /\ logfile \in DOMAIN logs
      /\ DOMAIN logs \subseteq 0..logfile
    BY <1>3 DEF TypeOK, FileTypeOK, FileInv, Operating
<1>5. PICK k \in Nat : k = nextFile /\ k \notin DOMAIN logs
    BY <1>4
<1>6. /\ DOMAIN logs' = DOMAIN logs \union {k}
      /\ logs' \in [DOMAIN logs' -> LogState]
      /\ \A m \in DOMAIN logs' : logs'[m].synced <= Len(logs'[m].recs)
      /\ \A m \in DOMAIN logs : Readable(m)' = Readable(m) /\ Durable(m)' = Durable(m)
      /\ \A e : e \notin Readable(k)'
    BY <1>2, <1>5, LogAdded DEF TypeOK
<1>7. bg' \in BgState /\ bg'.memtable = bg.memtable /\ bg'.ok = bg.ok /\ bg'.edit = bg.edit
      /\ (bg'.pc = bg.pc \/ (bg.pc = "none" /\ bg'.pc = "start"))
    <2>1. BgSame
        BY ScheduleIs DEF RoomSwitch, BgSame
    <2>2. QED
        BY <2>1, BgWoken DEF TypeOK, FileTypeOK
<1>8. MemTypeOK' /\ ImmEntries' = mem /\ mem \in SUBSET Entry /\ ImmEntries = {}
    <2>1. mem \in SUBSET Entry
        BY FileTypes DEF TypeOK
    <2>2. mem # None
        BY <2>1 DEF NoneIsNoTable
    <2>3. QED
        BY <1>2, <2>1, <2>2 DEF MemTypeOK, ImmEntries
<1>9. DOMAIN logs' \subseteq 0..logfile' /\ logfile' \in Nat /\ nextFile' \in Nat
    BY <1>2, <1>4, <1>5, <1>6
<1>10. FileTypeOK'
    BY <1>2, <1>6, <1>7, <1>8, <1>9 DEF TypeOK, FileTypeOK
<1>11. BgInv'
    <2>1. ~bg.memtable
        BY <1>2 DEF BgInv
    <2>2. QED
        BY <1>2, <1>7, <2>1 DEF BgInv
<1>12. FileInv' /\ OpeningInv'
    <2>1. /\ version.log <= manifest.log /\ manifest.log <= logfile
          /\ version.tables \subseteq manifest.tables /\ manifest.seq <= lastSequence
          /\ manifest.log < manifest.next
        BY <1>3 DEF FileInv
    <2>2. manifest.log <= nextFile /\ nextFile < nextFile + 1
        BY <1>4, <2>1, FileTypes DEF TypeOK
    <2>3. phase' \in {"open", "closing"}
        BY <1>3 DEF Operating
    <2>4. FileInv'
        BY <1>2, <1>3, <1>5, <1>6, <2>1, <2>2 DEF FileInv
    <2>5. QED
        BY <2>3, <2>4 DEF OpeningInv
<1>13. \A u \in Thread : th[u].pc \notin LogPc
    <2>1. \A u \in Thread : th[u].pc \in HeadPc => u = t
        BY <1>2, OneHead DEF CallerInv, HeadPc
    <2>2. QED
        BY <1>2, <2>1 DEF LogPc, HeadPc
<1>14. \A e : ~Logged(e) /\ ~Reporting(e) /\ ~Logged(e)'
    <2>1. \A e : ~Logged(e) /\ ~Reporting(e)
        BY <1>13 DEF Logged, Reporting, Pending, LogPc
    <2>2. QED
        BY <1>1, <2>1 DEF CallerKept, WorkGoes
<1>15. SeqInv'
    <2>1. \A e \in mem : e[2] <= lastSequence
        BY <1>14 DEF DataInv, SeqInv
    <2>2. \A n \in DOMAIN logs' : n >= version.log => \A e \in Readable(n)' : e[2] <= lastSequence
        BY <1>3, <1>6, <1>14 DEF DataInv, SeqInv
    <2>3. \A e \in manifest.tables : e[2] <= manifest.seq
        BY DEF DataInv, SeqInv
    <2>4. phase' \notin {"recovered", "committed"}
        BY <1>3 DEF Operating
    <2>5. QED
        BY <1>2, <1>3, <1>8, <2>1, <2>2, <2>3, <2>4 DEF SeqInv
<1>16. UniqueInv'
    <2>1. \A e : Present(e)' => Present(e)
        BY <1>2, <1>3, <1>6, <1>8 DEF Present
    <2>2. QED
        BY <2>1, UniqueKept DEF DataInv
<1>17. IdInv' /\ AckedInv'
    <2>1. \A e : e \in (mem \union ImmEntries)' => e \in mem \union ImmEntries
        BY <1>2, <1>8
    <2>2. used.write <= used'.write /\ used'.write \in Nat
        BY <1>2, CallerTypes DEF TypeOK
    <2>3. QED
        BY <1>1, <1>2, <2>1, <2>2, IdKept, AckedKept DEF DataInv, CallerKept, WorkGoes
<1>18. BackedInv'
    <2>1. ASSUME NEW e \in mem, e[1] \notin spoiled
          PROVE  Recovered(e)' /\ (e[1] \in synced => RecoveredSynced(e)')
        <3>1. e \in Readable(logfile) /\ (e[1] \in synced => e \in Durable(logfile))
            BY <2>1 DEF DataInv, BackedInv
        <3>2. manifest.log <= logfile
            BY <1>3 DEF FileInv
        <3>3. logfile \in ToRecover'
            BY <1>2, <1>4, <1>6, <3>2, FileTypes DEF ToRecover, TypeOK
        <3>4. QED
            BY <1>4, <1>6, <3>1, <3>3 DEF Recovered, RecoveredSynced
    <2>2. QED
        BY <1>2, <1>8, <2>1 DEF BackedInv
<1>19. WorkInv'
    <2>1. \A u \in Thread : ~HasLogged(th'[u])
        BY <1>1, <1>13 DEF CallerKept, WorkGoes, HasLogged, LogPc
    <2>2. QED
        BY <2>1 DEF WorkInv
<1>20. SurviveInv'
    <2>1. \A e : e \in Visible => e \in Visible'
        BY <1>2, <1>8 DEF Visible, ImmEntries
    <2>2. QED
        BY <1>2, <1>3, <2>1, SurviveKept DEF DataInv
<1>21. QED
    BY <1>10, <1>11, <1>12, <1>15, <1>16, <1>17, <1>18, <1>19, <1>20 DEF DataInv

-----------------------------------------------------------------------------
(* The steps of the head with the mutex released *)

WorkStep(t) == AddRecord(t) \/ AddRecordFails(t) \/ Sync(t) \/ InsertInto(t)

\* The caller at the head is the only one whose entries can be pending.
LEMMA WorkPending ==
    ASSUME TypeOK, CallerInv, NEW t \in Thread, WorkStep(t)
    PROVE  /\ \A e : Logged(e) <=> th[t].pc \in LogPc /\ e \in Entries(t)
           /\ \A e : Reporting(e) <=> th[t].pc = "finish" /\ e \in Entries(t)
           /\ \A e : Logged(e)' <=> th'[t].pc \in LogPc /\ e \in Entries(t)
           /\ \A e : Reporting(e)' <=> th'[t].pc = "finish" /\ e \in Entries(t)
<1>1. /\ th[t].count > 0 /\ th'[t].count > 0 /\ \A e : e \in Entries(t)' <=> e \in Entries(t)
      /\ \A u \in Thread : u # t => th[u].pc \notin WorkPc /\ th'[u].pc \notin WorkPc
    BY WorkKeeps DEF WorkStep
<1>2. \A u \in Thread : u # t => th[u].pc \notin LogPc /\ th'[u].pc \notin LogPc
    BY <1>1 DEF LogPc, WorkPc
<1>3. QED
    BY <1>1, <1>2 DEF Logged, Reporting, Pending, LogPc

\* What such a step leaves alone.
LEMMA WorkFrame ==
    ASSUME TypeOK, CallerInv, BgInv, FileInv, NEW t \in Thread, WorkStep(t)
    PROVE  /\ imm' = imm /\ logfile' = logfile /\ nextFile' = nextFile /\ lastSequence' = lastSequence
           /\ version' = version /\ manifest' = manifest /\ bgError' = bgError /\ bg' = bg
           /\ writers' = writers /\ phase' = phase /\ Operating /\ Operating' /\ BgInv'
           /\ acked' = acked /\ synced' = synced /\ lostPower' = lostPower
           /\ used'.write = used.write /\ th[t].pc # "idle"
           /\ logfile \in DOMAIN logs /\ version.log <= logfile
<1>1. /\ imm' = imm /\ logfile' = logfile /\ nextFile' = nextFile /\ lastSequence' = lastSequence
      /\ version' = version /\ manifest' = manifest /\ bgError' = bgError /\ bg' = bg
      /\ phase' = phase /\ acked' = acked /\ synced' = synced /\ lostPower' = lostPower
      /\ th[t].pc # "idle"
    BY DEF WorkStep, AddRecord, AddRecordFails, Sync, InsertInto, LogUnchanged, fileState, At
<1>2. used'.write = used.write /\ writers' = writers
    BY WorkKeeps DEF WorkStep, HeadMoves
<1>3. Operating /\ Operating'
    BY <1>1, WorkIsOpen DEF Operating, TypeOK
<1>4. BgInv'
    BY <1>1 DEF BgInv
<1>5. logfile \in DOMAIN logs /\ version.log <= logfile
    BY <1>3, FileTypes DEF FileInv, Operating, TypeOK
<1>6. QED
    BY <1>1, <1>2, <1>3, <1>4, <1>5

\* The files of a step that writes at most into the present log.
LEMMA WorkFiles ==
    ASSUME TypeOK, CallerInv, BgInv, FileInv, NEW t \in Thread, WorkStep(t),
           MemTypeOK', logs' \in [DOMAIN logs -> LogState], DOMAIN logs' = DOMAIN logs,
           \A n \in DOMAIN logs' : logs'[n].synced <= Len(logs'[n].recs),
           spoiled' \in SUBSET Nat
    PROVE  FileTypeOK' /\ FileInv' /\ OpeningInv'
<1>1. /\ logfile' = logfile /\ nextFile' = nextFile /\ lastSequence' = lastSequence
      /\ version' = version /\ manifest' = manifest /\ bgError' = bgError /\ bg' = bg
      /\ phase' = phase /\ Operating /\ Operating'
      /\ acked' = acked /\ synced' = synced /\ lostPower' = lostPower
    BY WorkFrame
<1>2. FileTypeOK'
    BY <1>1 DEF TypeOK, FileTypeOK
<1>3. FileInv'
    BY <1>1 DEF FileInv
<1>4. OpeningInv'
    BY <1>1 DEF OpeningInv, Operating
<1>5. QED
    BY <1>2, <1>3, <1>4

\* A record at the end of the log: readable unless one before it is not.
LEMMA RecordAdded ==
    ASSUME FileTypeOK, NEW l \in DOMAIN logs, NEW x \in SUBSET Entry,
           logs' = [logs EXCEPT ![l].recs = Append(@, x)]
    PROVE  /\ logs' \in [DOMAIN logs -> LogState] /\ DOMAIN logs' = DOMAIN logs
           /\ \A n \in DOMAIN logs' : logs'[n].synced <= Len(logs'[n].recs)
           /\ \A n \in DOMAIN logs : \A e : e \in Durable(n)' <=> e \in Durable(n)
           /\ \A n \in DOMAIN logs : \A e : e \in Readable(n) => e \in Readable(n)'
           /\ \A n \in DOMAIN logs : \A e : e \in Readable(n)' => e \in Readable(n) \/ e \in x
           /\ ~Spoils(l) => \A e \in x : e \in Readable(l)'
<1> DEFINE r == logs[l].recs
<1>1. /\ r \in Seq(SUBSET Entry) /\ logs[l].synced \in 0..Len(r) /\ logs[l] \in LogState
      /\ Readable(l) = ReadTo(r, Len(r)) /\ Len(r) \in Nat
    BY ReadableIs
<1>2. logs'[l] = [logs[l] EXCEPT !.recs = Append(r, x)] /\ \A n \in DOMAIN logs : n # l => logs'[n] = logs[n]
    OBVIOUS
<1>3. Append(r, x) \in Seq(SUBSET Entry) /\ Len(Append(r, x)) = Len(r) + 1
    BY <1>1
<1> HIDE DEF r
<1>4. logs'[l].recs = Append(r, x) /\ logs'[l].synced = logs[l].synced /\ logs'[l] \in LogState
    BY <1>1, <1>2, <1>3 DEF LogState
<1>5. \A e : e \in Readable(l)' <=> e \in ReadTo(Append(r, x), Len(r) + 1)
    <2>1. PICK q \in Seq(SUBSET Entry) : q = logs'[l].recs
        BY <1>3, <1>4
    <2>2. DOMAIN q = 1..Len(q)
        OBVIOUS
    <2>3. \A e : e \in Readable(l)' <=> \E i \in DOMAIN q : e \in q[i] /\ \A j \in 1..i : q[j] # {}
        BY <2>1 DEF Readable
    <2>4. \A e : e \in Readable(l)' <=> e \in ReadTo(q, Len(q))
        BY <2>2, <2>3 DEF ReadTo
    <2>5. QED
        BY <1>3, <1>4, <2>1, <2>4
<1>6. \A e : /\ e \in Readable(l) => e \in Readable(l)'
             /\ e \in Readable(l)' => e \in Readable(l) \/ e \in x
             /\ e \in x /\ ~Spoils(l) => e \in Readable(l)'
             /\ e \in Durable(l)' <=> e \in Durable(l)
    <2> TAKE e
    <2>1. /\ e \in ReadTo(r, Len(r)) => e \in ReadTo(Append(r, x), Len(r) + 1)
          /\ e \in ReadTo(Append(r, x), Len(r) + 1) => e \in ReadTo(r, Len(r)) \/ e \in x
          /\ e \in x /\ (\A i \in 1..Len(r) : r[i] # {}) => e \in ReadTo(Append(r, x), Len(r) + 1)
          /\ \A k \in 0..Len(r) : e \in ReadTo(r, k) <=> e \in ReadTo(Append(r, x), k)
        BY <1>1, ReadAppend
    <2>2. ~Spoils(l) => \A i \in 1..Len(r) : r[i] # {}
        BY <1>1 DEF Spoils, r
    <2>3. e \in Durable(l)' <=> e \in Durable(l)
        BY <1>1, <1>4, <2>1 DEF Durable, r
    <2>4. QED
        BY <1>1, <1>5, <2>1, <2>2, <2>3
<1>7. \A n \in DOMAIN logs : n # l => Readable(n)' = Readable(n) /\ Durable(n)' = Durable(n)
    BY <1>2 DEF Readable, Durable
<1>8. \A n \in DOMAIN logs : logs'[n] \in LogState /\ logs'[n].synced <= Len(logs'[n].recs)
    <2> TAKE n \in DOMAIN logs
    <2>1. CASE n = l
        BY <1>1, <1>3, <1>4, <2>1
    <2>2. CASE n # l
        BY <1>2, <2>2 DEF FileTypeOK
    <2>3. QED
        BY <2>1, <2>2
<1>9. DOMAIN logs' = DOMAIN logs /\ logs' \in [DOMAIN logs -> LogState]
    <2>1. DOMAIN logs' = DOMAIN logs /\ logs' = [n \in DOMAIN logs |-> logs'[n]]
        BY DEF FileTypeOK
    <2>2. QED
        BY <1>8, <2>1
<1>10. QED
    BY <1>6, <1>7, <1>8, <1>9

\* The entries of a group have numbers that nothing else has.
LEMMA UniqueAdds ==
    ASSUME TypeOK, UniqueInv, NEW t \in Thread, Grouped(t),
           \A e : Present(e) => e[2] <= lastSequence \/ e \in Entries(t),
           \A e : Present(e)' => Present(e) \/ e \in Entries(t)
    PROVE  UniqueInv'
<1> SUFFICES ASSUME NEW e \in Entry, NEW f \in Entry, Present(e)', Present(f)', e[2] = f[2]
             PROVE  e = f
    BY DEF UniqueInv
<1>1. e[2] \in Nat /\ f[2] \in Nat /\ lastSequence \in Nat
    BY FileTypes DEF TypeOK
<1>2. /\ \A x \in Entries(t) : lastSequence < x[2]
      /\ \A x, y \in Entries(t) : x[2] = y[2] => x = y
    BY NoneAssumption, EntriesAre
<1>3. e \in Entries(t) <=> f \in Entries(t)
    BY <1>1, <1>2
<1>4. CASE e \in Entries(t)
    BY <1>2, <1>3, <1>4
<1>5. CASE e \notin Entries(t)
    BY <1>3, <1>5 DEF UniqueInv
<1>6. QED
    BY <1>4, <1>5

\* After AddRecord, whatever came of it, the log may hold the entries of the group.
LEMMA AppendData ==
    ASSUME TypeOK, CallerInv, BgInv, FileInv, DataInv, NEW t \in Thread,
           AddRecord(t) \/ AddRecordFails(t),
           mem' = mem, spoiled \subseteq spoiled', DOMAIN logs' = DOMAIN logs,
           \A n \in DOMAIN logs : \A e : e \in Durable(n)' <=> e \in Durable(n),
           \A n \in DOMAIN logs : \A e : e \in Readable(n) => e \in Readable(n)',
           \A n \in DOMAIN logs : \A e : e \in Readable(n)' => e \in Readable(n) \/ e \in Entries(t)
    PROVE  SeqInv' /\ UniqueInv' /\ IdInv' /\ AckedInv' /\ BackedInv' /\ SurviveInv'
<1>1. /\ imm' = imm /\ logfile' = logfile /\ lastSequence' = lastSequence
      /\ version' = version /\ manifest' = manifest /\ phase' = phase
      /\ Operating /\ Operating' /\ writers' = writers
      /\ acked' = acked /\ synced' = synced /\ lostPower' = lostPower /\ used'.write = used.write
      /\ logfile \in DOMAIN logs /\ version.log <= logfile
    BY WorkFrame DEF WorkStep
<1>2. /\ th[t].pc = "append" /\ th'[t].pc \in LogPc /\ Grouped(t)
      /\ \A u \in Thread : th'[u].batch = th[u].batch
    BY WorkKeeps DEF LogPc
<1>3. \A e : ~Logged(e) /\ ~Reporting(e) /\ (Logged(e)' <=> e \in Entries(t))
    BY <1>2, WorkPending DEF WorkStep, LogPc
<1>4. /\ \A e \in Entries(t) : e \in Entry /\ lastSequence < e[2]
      /\ \A e, f \in Entries(t) : e[2] = f[2] => e = f
    BY <1>2, NoneAssumption, EntriesAre
<1>5. ImmEntries' = ImmEntries
    BY <1>1 DEF ImmEntries
<1>6. SeqInv'
    <2>1. \A e \in mem : e[2] <= lastSequence
        BY <1>3 DEF DataInv, SeqInv
    <2>2. ASSUME NEW n \in DOMAIN logs, n >= version.log, NEW e \in Readable(n)'
          PROVE  e[2] <= lastSequence \/ Logged(e)'
        <3>1. e \in Readable(n) \/ e \in Entries(t)
            BY <2>2
        <3>2. CASE e \in Readable(n)
            BY <1>1, <1>3, <2>2, <3>2 DEF DataInv, SeqInv
        <3>3. QED
            BY <1>3, <3>1, <3>2
    <2>3. (\A e \in manifest.tables : e[2] <= manifest.seq) /\ \A e \in ImmEntries : e[2] <= lastSequence
        BY DEF DataInv, SeqInv
    <2>4. phase' \notin {"recovered", "committed"}
        BY <1>1 DEF Operating
    <2>5. QED
        BY <1>1, <1>5, <2>1, <2>2, <2>3, <2>4 DEF SeqInv
<1>7. \A e : Present(e)' => Present(e) \/ e \in Entries(t)
    BY <1>1, <1>5 DEF Present
<1>8. \A e : Present(e) => e[2] <= lastSequence
    <2>1. \A e \in manifest.tables : e[2] <= lastSequence
        <3> TAKE e \in manifest.tables
        <3>1. e \in Entry
            BY FileTypes DEF TypeOK
        <3>2. e[2] <= manifest.seq /\ manifest.seq <= lastSequence
            BY <1>1 DEF DataInv, SeqInv, FileInv
        <3>3. QED
            BY <3>1, <3>2, FileTypes DEF TypeOK
    <2>2. QED
        BY <1>1, <1>3, <2>1 DEF DataInv, SeqInv, Present
<1>9. UniqueInv'
    BY <1>2, <1>7, <1>8, UniqueAdds DEF DataInv
<1>10. IdInv' /\ AckedInv'
    <2>1. \A i \in 1..Len(writers) : th'[writers[i]].batch = th[writers[i]].batch
        BY <1>2, CallerTypes DEF TypeOK
    <2>2. QED
        BY <1>1, <1>3, <1>5, <2>1 DEF DataInv, IdInv, AckedInv
<1>11. BackedInv'
    <2>1. \A e : Recovered(e) => Recovered(e)'
        BY <1>1 DEF Recovered, ToRecover
    <2>2. \A e : RecoveredSynced(e) => RecoveredSynced(e)'
        BY <1>1 DEF RecoveredSynced, ToRecover
    <2>3. PICK l \in DOMAIN logs : l = logfile
        BY <1>1
    <2>4. \A e : (e \in Readable(logfile) => e \in Readable(logfile)')
                 /\ (e \in Durable(logfile) => e \in Durable(logfile)')
        BY <1>1, <2>3
    <2>5. QED
        BY <1>1, <1>5, <2>1, <2>2, <2>4 DEF DataInv, BackedInv
<1>12. SurviveInv'
    <2>1. \A e : e \in Visible => e \in Visible'
        BY <1>1 DEF Visible
    <2>2. QED
        BY <1>1, <2>1, SurviveKept DEF DataInv
<1>13. QED
    BY <1>6, <1>9, <1>10, <1>11, <1>12

\* The record is in the log, and is read there unless the log was cut short before it.
LEMMA AddRecordStep ==
    ASSUME TypeOK, CallerInv, BgInv, FileInv, DataInv, NEW t \in Thread, AddRecord(t)
    PROVE  FileTypeOK' /\ BgInv' /\ FileInv' /\ OpeningInv' /\ DataInv'
<1>1. /\ logfile' = logfile /\ BgInv' /\ logfile \in DOMAIN logs
    BY WorkFrame DEF WorkStep
<1>2. /\ Grouped(t) /\ th[t].pc = "append" /\ th'[t].sync = th[t].sync
      /\ th'[t].pc = IF th[t].sync THEN "sync" ELSE "insert"
      /\ \A e : e \in Entries(t)' <=> e \in Entries(t)
      /\ \A u \in Thread : u # t => th'[u].pc \notin WorkPc
    BY WorkKeeps
<1>3. Entries(t) \in SUBSET Entry /\ Ids(Entries(t)) \subseteq Nat
    BY <1>2, NoneAssumption, EntriesAre, FileTypes DEF Ids, TypeOK
<1>4. PICK l \in DOMAIN logs, x \in SUBSET Entry : l = logfile /\ x = Entries(t)
    BY <1>1, <1>3
<1>5. logs' = [logs EXCEPT ![l].recs = Append(@, x)] /\ mem' = mem
      /\ spoiled' = IF Spoils(l) THEN spoiled \union Ids(x) ELSE spoiled
    BY <1>4 DEF AddRecord
<1>6. /\ logs' \in [DOMAIN logs -> LogState] /\ DOMAIN logs' = DOMAIN logs
      /\ \A n \in DOMAIN logs' : logs'[n].synced <= Len(logs'[n].recs)
      /\ \A n \in DOMAIN logs : \A e : e \in Durable(n)' <=> e \in Durable(n)
      /\ \A n \in DOMAIN logs : \A e : e \in Readable(n) => e \in Readable(n)'
      /\ \A n \in DOMAIN logs : \A e : e \in Readable(n)' => e \in Readable(n) \/ e \in x
      /\ ~Spoils(l) => \A e \in x : e \in Readable(l)'
    BY <1>5, RecordAdded DEF TypeOK
<1>7. spoiled' \in SUBSET Nat /\ spoiled \subseteq spoiled' /\ MemTypeOK'
    <2>1. spoiled \in SUBSET Nat /\ MemTypeOK
        BY DEF TypeOK, FileTypeOK
    <2>2. imm' = imm
        BY WorkFrame DEF WorkStep
    <2>3. QED
        BY <1>3, <1>4, <1>5, <2>1, <2>2 DEF MemTypeOK
<1>8. FileTypeOK' /\ FileInv' /\ OpeningInv'
    BY <1>6, <1>7, WorkFiles DEF WorkStep
<1>9. SeqInv' /\ UniqueInv' /\ IdInv' /\ AckedInv' /\ BackedInv' /\ SurviveInv'
    BY <1>4, <1>5, <1>6, <1>7, AppendData
<1>10. WorkInv'
    <2> SUFFICES ASSUME NEW u \in Thread, th'[u].pc \in LogPc, NEW e \in Entries(u)'
                 PROVE  /\ e[1] \notin spoiled' => e \in Readable(l)'
                        /\ th'[u].pc # "sync" /\ th'[u].sync => FALSE
                        /\ th'[u].pc # "finish"
        BY <1>1, <1>4 DEF WorkInv, LogPc, HasLogged
    <2>1. u = t /\ e \in x
        BY <1>2, <1>4 DEF LogPc, WorkPc
    <2>2. e[1] \notin spoiled' => e \in Readable(l)'
        BY <1>5, <1>6, <2>1 DEF Ids
    <2>3. QED
        BY <1>2, <2>1, <2>2
<1>11. QED
    BY <1>1, <1>8, <1>9, <1>10 DEF DataInv

\* The record may be there, in part or whole, or not.
LEMMA AddRecordFailsStep ==
    ASSUME TypeOK, CallerInv, BgInv, FileInv, DataInv, NEW t \in Thread, AddRecordFails(t)
    PROVE  FileTypeOK' /\ BgInv' /\ FileInv' /\ OpeningInv' /\ DataInv'
<1>1. /\ logfile' = logfile /\ BgInv' /\ logfile \in DOMAIN logs /\ imm' = imm
    BY WorkFrame DEF WorkStep
<1>2. /\ Grouped(t) /\ ~th'[t].ok /\ \A u \in Thread : u # t => th'[u].pc \notin WorkPc
    BY WorkKeeps
<1>3. Entries(t) \in SUBSET Entry
    BY <1>2, NoneAssumption, EntriesAre
<1>4. PICK l \in DOMAIN logs, y \in SUBSET Entry : l = logfile /\ y = Entries(t)
    BY <1>1, <1>3
<1>5. /\ mem' = mem /\ spoiled' = spoiled
      /\ logs' = logs \/ \E x \in {{}, y} : logs' = [logs EXCEPT ![l].recs = Append(@, x)]
    BY <1>4 DEF AddRecordFails
<1>6. /\ logs' \in [DOMAIN logs -> LogState] /\ DOMAIN logs' = DOMAIN logs
      /\ \A n \in DOMAIN logs' : logs'[n].synced <= Len(logs'[n].recs)
      /\ \A n \in DOMAIN logs : \A e : e \in Durable(n)' <=> e \in Durable(n)
      /\ \A n \in DOMAIN logs : \A e : e \in Readable(n) => e \in Readable(n)'
      /\ \A n \in DOMAIN logs : \A e : e \in Readable(n)' => e \in Readable(n) \/ e \in y
    <2>1. CASE logs' = logs
        BY <2>1 DEF TypeOK, FileTypeOK, Readable, Durable
    <2>2. CASE \E x \in {{}, y} : logs' = [logs EXCEPT ![l].recs = Append(@, x)]
        <3>1. PICK x \in SUBSET Entry : /\ x \subseteq y
                                        /\ logs' = [logs EXCEPT ![l].recs = Append(@, x)]
            BY <2>2
        <3>2. QED
            BY <3>1, RecordAdded DEF TypeOK
    <2>3. QED
        BY <1>5, <2>1, <2>2
<1>7. spoiled' \in SUBSET Nat /\ spoiled \subseteq spoiled' /\ MemTypeOK'
    <2>1. spoiled \in SUBSET Nat /\ MemTypeOK
        BY DEF TypeOK, FileTypeOK
    <2>2. QED
        BY <1>1, <1>5, <2>1 DEF MemTypeOK
<1>8. FileTypeOK' /\ FileInv' /\ OpeningInv'
    BY <1>6, <1>7, WorkFiles DEF WorkStep
<1>9. SeqInv' /\ UniqueInv' /\ IdInv' /\ AckedInv' /\ BackedInv' /\ SurviveInv'
    BY <1>4, <1>5, <1>6, <1>7, AppendData
<1>10. WorkInv'
    <2>1. \A u \in Thread : ~HasLogged(th'[u])
        BY <1>2, WorkKeeps DEF HasLogged, WorkPc
    <2>2. QED
        BY <2>1 DEF WorkInv
<1>11. QED
    BY <1>1, <1>8, <1>9, <1>10 DEF DataInv

\* The log up to here survives a crash of the machine.
LEMMA SyncStep ==
    ASSUME TypeOK, CallerInv, BgInv, FileInv, DataInv, NEW t \in Thread, Sync(t)
    PROVE  FileTypeOK' /\ BgInv' /\ FileInv' /\ OpeningInv' /\ DataInv'
<1>1. /\ imm' = imm /\ logfile' = logfile /\ lastSequence' = lastSequence /\ BgInv'
      /\ version' = version /\ manifest' = manifest /\ phase' = phase
      /\ Operating /\ Operating' /\ writers' = writers
      /\ acked' = acked /\ synced' = synced /\ lostPower' = lostPower /\ used'.write = used.write
      /\ logfile \in DOMAIN logs
    BY WorkFrame DEF WorkStep
<1>2. /\ Grouped(t) /\ th[t].pc = "sync" /\ th'[t].pc = "insert" /\ th'[t].ok = th[t].ok
      /\ th'[t].sync = th[t].sync /\ th[t].count > 0
      /\ \A u \in Thread : u # t => th'[u].pc \notin WorkPc
      /\ \A u \in Thread : th'[u].batch = th[u].batch
    BY WorkKeeps
<1>3. \A e : /\ Logged(e)' <=> Logged(e)
             /\ ~Reporting(e) /\ ~Reporting(e)'
             /\ e \in Entries(t)' <=> e \in Entries(t)
    BY <1>2, WorkPending, WorkKeeps DEF WorkStep, LogPc
<1>4. PICK l \in DOMAIN logs : l = logfile
    BY <1>1
<1>5. logs' = [logs EXCEPT ![l].synced = Len(logs[l].recs)] /\ mem' = mem /\ spoiled' = spoiled
    BY <1>4 DEF Sync
<1>6. /\ logs' \in [DOMAIN logs -> LogState] /\ DOMAIN logs' = DOMAIN logs
      /\ \A n \in DOMAIN logs : logs'[n].recs = logs[n].recs
      /\ \A n \in DOMAIN logs : n # l => logs'[n] = logs[n]
      /\ logs'[l].synced = Len(logs[l].recs)
    <2>1. logs[l] \in LogState /\ logs[l].recs \in Seq(SUBSET Entry)
        BY ReadableIs DEF TypeOK
    <2>2. Len(logs[l].recs) \in Nat
        BY <2>1
    <2>3. [logs[l] EXCEPT !.synced = Len(logs[l].recs)] \in LogState
        BY <2>1, <2>2 DEF LogState
    <2>4. logs \in [DOMAIN logs -> LogState] /\ logs' = [logs EXCEPT ![l] = [logs[l] EXCEPT !.synced = Len(logs[l].recs)]]
        BY <1>5 DEF TypeOK, FileTypeOK
    <2>5. logs' \in [DOMAIN logs -> LogState] /\ DOMAIN logs' = DOMAIN logs
        BY <2>3, <2>4
    <2>6. logs'[l].recs = logs[l].recs /\ logs'[l].synced = Len(logs[l].recs)
        BY <2>1, <2>4 DEF LogState
    <2>7. \A n \in DOMAIN logs : n # l => logs'[n] = logs[n]
        BY <2>4
    <2>8. QED
        BY <2>5, <2>6, <2>7
<1>7. \A n \in DOMAIN logs : Readable(n)' = Readable(n)
    BY <1>6, ZenonT(60) DEF Readable
<1>8. \A e : e \in Durable(l)' <=> e \in Readable(l)
    BY <1>6, ReadableIs, ZenonT(60) DEF Durable, TypeOK
<1>9. \A n \in DOMAIN logs : \A e : e \in Durable(n) => e \in Durable(n)'
    <2> TAKE n \in DOMAIN logs
    <2>1. CASE n = l
        BY <1>8, <2>1, ReadableIs DEF TypeOK
    <2>2. CASE n # l
        BY <1>6, <2>2 DEF Durable
    <2>3. QED
        BY <2>1, <2>2
<1>10. FileTypeOK' /\ FileInv' /\ OpeningInv'
    <2>1. MemTypeOK' /\ spoiled' \in SUBSET Nat
        BY <1>1, <1>5 DEF TypeOK, FileTypeOK, MemTypeOK
    <2>2. \A n \in DOMAIN logs' : logs'[n].synced <= Len(logs'[n].recs)
        <3> TAKE n \in DOMAIN logs'
        <3>1. CASE n = l
            <4>1. Len(logs[l].recs) \in Nat
                BY ReadableIs DEF TypeOK
            <4>2. QED
                BY <1>6, <3>1, <4>1
        <3>2. CASE n # l
            BY <1>6, <3>2 DEF TypeOK, FileTypeOK
        <3>3. QED
            BY <3>1, <3>2
    <2>3. QED
        BY <1>6, <2>1, <2>2, WorkFiles DEF WorkStep
<1>11. ImmEntries' = ImmEntries
    BY <1>1 DEF ImmEntries
<1>12. SeqInv'
    <2>1. phase' \notin {"recovered", "committed"}
        BY <1>1 DEF Operating
    <2>2. QED
        BY <1>1, <1>3, <1>5, <1>6, <1>7, <1>11, <2>1 DEF DataInv, SeqInv
<1>13. UniqueInv'
    <2>1. \A e : Present(e)' => Present(e)
        BY <1>1, <1>5, <1>6, <1>7, <1>11 DEF Present
    <2>2. QED
        BY <2>1, UniqueKept DEF DataInv
<1>14. IdInv' /\ AckedInv'
    <2>1. \A i \in 1..Len(writers) : th'[writers[i]].batch = th[writers[i]].batch
        BY <1>2, CallerTypes DEF TypeOK
    <2>2. QED
        BY <1>1, <1>3, <1>5, <1>11, <2>1 DEF DataInv, IdInv, AckedInv
<1>15. BackedInv'
    <2>1. \A e : Recovered(e) => Recovered(e)'
        BY <1>1, <1>6, <1>7 DEF Recovered, ToRecover
    <2>2. \A e : RecoveredSynced(e) => RecoveredSynced(e)'
        BY <1>1, <1>6, <1>9 DEF RecoveredSynced, ToRecover
    <2>3. \A e : (e \in Readable(logfile) => e \in Readable(logfile)')
                 /\ (e \in Durable(logfile) => e \in Durable(logfile)')
        BY <1>1, <1>4, <1>7, <1>9
    <2>4. QED
        BY <1>1, <1>5, <1>11, <2>1, <2>2, <2>3 DEF DataInv, BackedInv
<1>16. WorkInv'
    <2> SUFFICES ASSUME NEW u \in Thread, th'[u].pc \in LogPc, NEW e \in Entries(u)'
                 PROVE  /\ e[1] \notin spoiled => e \in Readable(l)' /\ e \in Durable(l)'
                        /\ th'[u].pc # "finish"
        BY <1>1, <1>4, <1>5 DEF WorkInv, LogPc, HasLogged
    <2>1. u = t /\ e \in Entries(t)
        BY <1>2, <1>3 DEF LogPc, WorkPc
    <2>2. e[1] \notin spoiled => e \in Readable(l)
        BY <1>2, <1>4, <2>1 DEF DataInv, WorkInv, HasLogged
    <2>3. QED
        BY <1>2, <1>7, <1>8, <2>1, <2>2
<1>17. SurviveInv'
    <2>1. \A e : e \in Visible => e \in Visible'
        BY <1>1, <1>5 DEF Visible
    <2>2. QED
        BY <1>1, <1>5, <2>1, SurviveKept DEF DataInv
<1>18. QED
    BY <1>1, <1>10, <1>12, <1>13, <1>14, <1>15, <1>16, <1>17 DEF DataInv


\* The entries of the group are in the memtable.
LEMMA InsertStep ==
    ASSUME TypeOK, CallerInv, BgInv, FileInv, DataInv, NEW t \in Thread, InsertInto(t)
    PROVE  FileTypeOK' /\ BgInv' /\ FileInv' /\ OpeningInv' /\ DataInv'
<1>1. /\ imm' = imm /\ logfile' = logfile /\ lastSequence' = lastSequence /\ BgInv'
      /\ version' = version /\ manifest' = manifest /\ phase' = phase
      /\ Operating /\ Operating' /\ writers' = writers
      /\ acked' = acked /\ synced' = synced /\ lostPower' = lostPower /\ used'.write = used.write
      /\ logfile \in DOMAIN logs
    BY WorkFrame DEF WorkStep
<1>2. mem' = mem \union Entries(t) /\ logs' = logs /\ spoiled' = spoiled
    BY DEF InsertInto, LogUnchanged
<1>3. /\ Grouped(t) /\ th[t].pc = "insert" /\ th'[t].pc = "finish"
      /\ th'[t].sync = th[t].sync /\ th[t].count > 0
      /\ \A u \in Thread : u # t => th'[u].pc \notin WorkPc
      /\ \A u \in Thread : th'[u].batch = th[u].batch
    BY WorkKeeps
<1>4. \A e : /\ Logged(e) <=> e \in Entries(t)
             /\ Logged(e)' <=> e \in Entries(t)
             /\ ~Reporting(e)
             /\ Reporting(e)' <=> e \in Entries(t)
             /\ e \in Entries(t)' <=> e \in Entries(t)
    BY <1>3, WorkPending, WorkKeeps DEF WorkStep, LogPc
<1>5. /\ \A e \in Entries(t) : e \in Entry /\ \E i \in 1..Len(writers) : th[writers[i]].batch = e[1]
      /\ \A e \in Entries(t) : e[1] <= used.write /\ e[1] \notin acked
    <2> SUFFICES ASSUME NEW e \in Entries(t)
                 PROVE  /\ e \in Entry /\ \E i \in 1..Len(writers) : th[writers[i]].batch = e[1]
                        /\ e[1] <= used.write /\ e[1] \notin acked
        OBVIOUS
    <2>1. e \in Entry /\ \E i \in 1..th[t].group : th[writers[i]].batch = e[1]
        BY <1>3, NoneAssumption, EntriesAre
    <2>2. PICK i \in 1..Len(writers) : th[writers[i]].batch = e[1]
        BY <1>3, <2>1, CallerTypes DEF Grouped, TypeOK
    <2>3. e[1] # None /\ writers[i] \in Thread
        BY <2>1, FileTypes, NoneAssumption, CallerTypes DEF TypeOK, NoneAssumption
    <2>4. QED
        BY <2>1, <2>2, <2>3 DEF CallerInv, BatchInv, DataInv, AckedInv
<1>6. ImmEntries' = ImmEntries /\ \A n : Readable(n)' = Readable(n) /\ Durable(n)' = Durable(n)
    BY <1>1, <1>2 DEF ImmEntries, Readable, Durable
<1>7. FileTypeOK' /\ FileInv' /\ OpeningInv'
    <2>1. Entries(t) \in SUBSET Entry /\ mem \in SUBSET Entry
        BY <1>5, FileTypes DEF TypeOK
    <2>2. MemTypeOK' /\ spoiled' \in SUBSET Nat
        BY <1>1, <1>2, <2>1 DEF TypeOK, FileTypeOK, MemTypeOK
    <2>3. logs \in [DOMAIN logs -> LogState] /\ \A n \in DOMAIN logs : logs[n].synced <= Len(logs[n].recs)
        BY DEF TypeOK, FileTypeOK
    <2>4. QED
        BY <1>2, <2>2, <2>3, WorkFiles DEF WorkStep
<1>8. SeqInv'
    <2>1. \A e \in mem' : e[2] <= lastSequence \/ Reporting(e)'
        BY <1>2, <1>4 DEF DataInv, SeqInv
    <2>2. \A n \in DOMAIN logs' : n >= version.log =>
            \A e \in Readable(n)' : e[2] <= lastSequence \/ Logged(e)'
        BY <1>1, <1>2, <1>4, <1>6 DEF DataInv, SeqInv
    <2>3. phase' \notin {"recovered", "committed"}
        BY <1>1 DEF Operating
    <2>4. (\A e \in manifest.tables : e[2] <= manifest.seq) /\ \A e \in ImmEntries : e[2] <= lastSequence
        BY DEF DataInv, SeqInv
    <2>5. QED
        BY <1>1, <1>6, <2>1, <2>2, <2>3, <2>4 DEF SeqInv
<1>9. UniqueInv'
    <2>1. \A e : Present(e)' => Present(e) \/ e \in Entries(t)
        BY <1>1, <1>2, <1>6 DEF Present
    <2>2. \A e \in manifest.tables : e[2] <= lastSequence
        <3> TAKE e \in manifest.tables
        <3>1. e \in Entry /\ e[2] <= manifest.seq /\ manifest.seq <= lastSequence
            BY <1>1, FileTypes DEF DataInv, SeqInv, FileInv, TypeOK
        <3>2. QED
            BY <3>1, FileTypes DEF TypeOK
    <2>3. \A e : Present(e) => e[2] <= lastSequence \/ e \in Entries(t)
        BY <1>1, <1>4, <2>2 DEF DataInv, SeqInv, Present
    <2>4. QED
        BY <1>3, <2>1, <2>3, UniqueAdds DEF DataInv
<1>10. IdInv' /\ AckedInv'
    <2>1. \A i \in 1..Len(writers) : th'[writers[i]].batch = th[writers[i]].batch
        BY <1>3, CallerTypes DEF TypeOK
    <2>2. AckedInv'
        BY <1>1, <2>1 DEF DataInv, AckedInv
    <2>3. \A e \in Entries(t) : e[1] <= used.write /\ Reporting(e)'
        BY <1>4, <1>5
    <2>4. \A e \in mem \union ImmEntries :
            e[1] <= used.write /\ \A i \in 1..Len(writers) : th[writers[i]].batch # e[1]
        BY <1>4 DEF DataInv, IdInv
    <2>5. IdInv'
        BY <1>1, <1>2, <1>6, <2>1, <2>3, <2>4 DEF IdInv
    <2>6. QED
        BY <2>2, <2>5
<1>11. BackedInv'
    <2>1. \A e : (Recovered(e) => Recovered(e)') /\ (RecoveredSynced(e) => RecoveredSynced(e)')
        BY <1>1, <1>2, <1>6 DEF Recovered, RecoveredSynced, ToRecover
    <2>2. ASSUME NEW e \in Entries(t), e[1] \notin spoiled
          PROVE  e \in Readable(logfile) /\ e[1] \notin synced
        <3>1. synced \subseteq acked
            BY DEF TypeOK, FileTypeOK
        <3>2. QED
            BY <1>3, <1>5, <2>2, <3>1 DEF DataInv, WorkInv, HasLogged
    <2>3. PICK l \in DOMAIN logs : l = logfile
        BY <1>1
    <2>4. Readable(logfile)' = Readable(l) /\ Durable(logfile)' = Durable(l)
        BY <1>1, <1>6, <2>3
    <2>5. QED
        BY <1>1, <1>2, <1>6, <2>1, <2>2, <2>3, <2>4 DEF DataInv, BackedInv
<1>12. WorkInv'
    <2> SUFFICES ASSUME NEW u \in Thread, HasLogged(th'[u]), NEW e \in Entries(u)'
                 PROVE  /\ e[1] \notin spoiled => e \in Readable(logfile)
                        /\ th'[u].pc # "sync" /\ th'[u].sync /\ e[1] \notin spoiled => e \in Durable(logfile)
                        /\ e \in mem'
        BY <1>1, <1>2, <1>6 DEF WorkInv
    <2>1. u = t /\ e \in Entries(t)
        BY <1>3, <1>4 DEF HasLogged, WorkPc
    <2>2. HasLogged(th[t]) /\ th[t].pc # "sync"
        BY <1>3 DEF HasLogged
    <2>3. QED
        BY <1>2, <1>3, <2>1, <2>2 DEF DataInv, WorkInv
<1>13. SurviveInv'
    <2>1. \A e : e \in Visible => e \in Visible'
        BY <1>1, <1>2 DEF Visible
    <2>2. QED
        BY <1>1, <1>2, <2>1, SurviveKept DEF DataInv
<1>14. QED
    BY <1>1, <1>7, <1>8, <1>9, <1>10, <1>11, <1>12, <1>13 DEF DataInv

\* The group is told, and the numbers it used are the database's.
LEMMA FinishStep ==
    ASSUME TypeOK, CallerInv, BgInv, FileInv, DataInv, NEW t \in Thread, Finish(t)
    PROVE  TypeOK' /\ CallerInv' /\ BgInv' /\ FileInv' /\ OpeningInv' /\ DataInv'
<1>1. /\ mem' = mem /\ imm' = imm /\ logs' = logs /\ logfile' = logfile /\ nextFile' = nextFile
      /\ version' = version /\ manifest' = manifest /\ phase' = phase /\ bg' = bg
      /\ manual' = manual /\ mutex' = None
      /\ spoiled' = spoiled /\ lostPower' = lostPower /\ used' = used
      /\ bgError' = (bgError \/ th[t].syncError) /\ lastSequence' = lastSequence + th[t].count
      /\ acked' = acked \union IF th[t].ok THEN {th[u].batch : u \in Group(t)} \ {None} ELSE {}
      /\ synced' = synced \union
             IF th[t].ok THEN {th[u].batch : u \in {u \in Group(t) : th[u].sync}} ELSE {}
    BY DEF Finish, logState, fileState, SequenceAfter
<1>2. /\ th' \in [Thread -> ThreadState] /\ th[t].pc = "finish" /\ 0 < Len(writers) /\ writers[1] = t
      /\ th[t].group \in 1..Len(writers) /\ t \in Group(t)
      /\ \A u \in Thread \ Group(t) : SameWriter(th[u], th'[u])
    BY FinishMoves DEF TypeOK
<1>3. /\ CallerInv' /\ writers' \in Seq(Thread)
      /\ \A u \in Thread : th'[u].pc \notin HeadPc
      /\ \A i \in 1..Len(writers)' : \E j \in 1..Len(writers) :
            writers'[i] = writers[j] /\ writers'[i] \notin Group(t)
    BY FinishKeeps DEF TypeOK
<1>4. \A u \in Group(t) : u \in Thread /\ \E i \in 1..th[t].group : writers[i] = u
    BY <1>2, CallerTypes DEF Group, TypeOK
<1>5. Operating /\ Operating' /\ lastSequence \in Nat /\ th[t].count \in Nat /\ lastSequence <= lastSequence'
    <2>1. lastSequence \in Nat /\ th[t].count \in Nat
        BY CallerTypes, FileTypes DEF TypeOK
    <2>2. Operating
        BY <1>2, WorkIsOpen DEF TypeOK
    <2>3. QED
        BY <1>1, <2>1, <2>2 DEF Operating
\* the batches that are acknowledged
<1>6. ASSUME NEW u \in Group(t), th[u].batch # None
      PROVE  th[u].batch \in Nat /\ th[u].batch <= used.write
    BY <1>4, <1>6, CallerTypes DEF TypeOK, CallerInv, BatchInv
<1>7. ASSUME NEW u \in Group(t), th[u].sync
      PROVE  th[u].batch # None
    BY <1>4, <1>7 DEF CallerInv, BatchInv
<1>8. \A e : Reporting(e) => th[t].count > 0 /\ Grouped(t) /\ e \in Entries(t)
    <2> TAKE e
    <2> HAVE Reporting(e)
    <2>1. PICK u \in Thread : th[u].pc = "finish" /\ th[u].count > 0 /\ e \in Entries(u)
        BY DEF Reporting, Pending
    <2>2. u = t
        BY <1>2, <2>1, OneHead DEF CallerInv, HeadPc
    <2>3. QED
        BY <2>1, <2>2 DEF CallerInv, GroupInv, WorkPc
<1>9. \A e : Logged(e) => th[t].count > 0 /\ Grouped(t) /\ e \in Entries(t)
    <2> TAKE e
    <2> HAVE Logged(e)
    <2>1. PICK u \in Thread : th[u].pc \in {"sync", "insert", "finish"} /\ th[u].count > 0 /\ e \in Entries(u)
        BY DEF Logged, Pending
    <2>2. u = t
        BY <1>2, <2>1, OneHead DEF CallerInv, HeadPc
    <2>3. QED
        BY <1>2, <2>1, <2>2 DEF CallerInv, GroupInv, WorkPc
<1>10. Grouped(t) =>
          /\ \A e \in Entries(t) : /\ e \in Entry /\ lastSequence < e[2] /\ e[2] <= lastSequence'
                                   /\ \E i \in 1..th[t].group : th[writers[i]].batch = e[1]
          /\ \A u \in Group(t) : th[u].batch # None => \E e \in Entries(t) : e[1] = th[u].batch
    <2> HAVE Grouped(t)
    <2>1. /\ \A e \in Entries(t) :
                /\ e \in Entry /\ lastSequence < e[2] /\ e[2] <= lastSequence + th[t].count
                /\ \E i \in 1..th[t].group : th[writers[i]].batch = e[1]
          /\ \A i \in 1..th[t].group : th[writers[i]].batch # None =>
                \E e \in Entries(t) : e[1] = th[writers[i]].batch
        BY NoneAssumption, EntriesAre
    <2>2. QED
        BY <1>1, <1>4, <2>1
\* what is acknowledged is inserted, and on disk if that was asked for
<1>11. ASSUME th[t].ok, NEW u \in Group(t), th[u].batch # None
       PROVE  /\ th[t].count > 0 /\ Grouped(t)
              /\ \E e \in Entries(t) : e[1] = th[u].batch
              /\ \A e \in Entries(t) : e \in mem
              /\ th[u].sync => \A e \in Entries(t) : e[1] \notin spoiled => e \in Durable(logfile)
    <2>1. th[t].count > 0
        <3> SUFFICES ASSUME th[t].count = 0 PROVE FALSE
            BY <1>5
        <3>1. th[t].group = 1 /\ th[t].batch = None
            BY <1>2, <1>11 DEF CallerInv, GroupInv
        <3>2. \A i \in 1..1 : i = 1
            OBVIOUS
        <3>3. u = t
            BY <1>2, <1>4, <3>1, <3>2
        <3>4. QED
            BY <1>11, <3>1, <3>3
    <2>2. Grouped(t)
        BY <1>2, <2>1 DEF CallerInv, GroupInv, WorkPc
    <2>3. HasLogged(th[t]) /\ th[t].pc # "sync"
        BY <1>2, <1>11, <2>1 DEF HasLogged
    <2>4. th[u].sync => th[t].sync
        BY <1>4, <2>2 DEF Grouped
    <2>5. QED
        BY <1>2, <1>10, <1>11, <2>1, <2>2, <2>3, <2>4 DEF DataInv, WorkInv
<1>12. acked' \in SUBSET Nat /\ synced' \in SUBSET acked'
    <2>1. acked \in SUBSET Nat /\ synced \in SUBSET acked
        BY DEF TypeOK, FileTypeOK
    <2>2. QED
        BY <1>1, <1>6, <1>7, <2>1
<1>13. TypeOK'
    <2>1. CallerTypeOK'
        BY <1>1, <1>2, <1>3 DEF TypeOK, CallerTypeOK
    <2>2. bgError' \in BOOLEAN /\ lastSequence' \in Nat
        BY <1>1, <1>5, CallerTypes DEF TypeOK, FileTypeOK, ThreadState
    <2>3. FileTypeOK'
        BY <1>1, <1>12, <2>2 DEF TypeOK, FileTypeOK, MemTypeOK
    <2>4. QED
        BY <2>1, <2>3 DEF TypeOK
<1>14. BgInv'
    <2>1. bg.edit.seq \in Nat
        BY DEF TypeOK, FileTypeOK, BgState, EditState
    <2>2. bg.pc = "apply" => bg.edit.seq <= lastSequence'
        BY <1>1, <1>5, <2>1 DEF BgInv
    <2>3. QED
        BY <1>1, <2>2 DEF BgInv
<1>15. FileInv' /\ OpeningInv'
    <2>1. manifest.seq <= lastSequence'
        BY <1>1, <1>5, FileTypes DEF FileInv, TypeOK
    <2>2. FileInv'
        BY <1>1, <1>5, <2>1 DEF FileInv
    <2>3. QED
        BY <1>5, <2>2 DEF OpeningInv, Operating
<1>16. ImmEntries' = ImmEntries /\ (\A n : Readable(n)' = Readable(n) /\ Durable(n)' = Durable(n))
    BY <1>1 DEF ImmEntries, Readable, Durable
<1>17. SeqInv'
    <2>1. ASSUME NEW e \in Entry, e[2] <= lastSequence \/ Logged(e) \/ Reporting(e)
          PROVE  e[2] <= lastSequence'
        <3>1. e[2] \in Nat
            BY FileTypes DEF TypeOK
        <3>2. CASE e[2] <= lastSequence
            BY <1>1, <1>5, <3>1, <3>2
        <3>3. CASE e[2] > lastSequence
            BY <1>8, <1>9, <1>10, <2>1, <3>1, <3>3, <1>5
        <3>4. QED
            BY <1>5, <3>1, <3>2, <3>3
    <2>2. (\A e \in mem : e[2] <= lastSequence') /\ \A e \in ImmEntries : e[2] <= lastSequence'
        BY <2>1, FileTypes DEF DataInv, SeqInv, TypeOK
    <2>3. \A n \in DOMAIN logs : n >= version.log => \A e \in Readable(n) : e[2] <= lastSequence'
        <3> TAKE n \in DOMAIN logs
        <3>1. Readable(n) \in SUBSET Entry
            BY ReadableIs DEF TypeOK
        <3>2. QED
            BY <1>5, <2>1, <3>1 DEF DataInv, SeqInv
    <2>4. phase' \notin {"recovered", "committed"} /\ \A e \in manifest.tables : e[2] <= manifest.seq
        BY <1>5 DEF Operating, DataInv, SeqInv
    <2>5. QED
        BY <1>1, <1>5, <1>16, <2>2, <2>3, <2>4 DEF SeqInv
<1>18. UniqueInv'
    <2>1. \A e : Present(e)' => Present(e)
        BY <1>1, <1>5, <1>16 DEF Present
    <2>2. QED
        BY <2>1, UniqueKept DEF DataInv
\* the batches of the group are no longer in the queue
<1>19. \A i \in 1..Len(writers)' : \A u \in Group(t) :
            /\ \E j \in 1..Len(writers) : th'[writers'[i]].batch = th[writers[j]].batch
            /\ th[u].batch # None => th'[writers'[i]].batch # th[u].batch
    <2> TAKE i \in 1..Len(writers)'
    <2> TAKE u \in Group(t)
    <2>1. PICK j \in 1..Len(writers) : writers'[i] = writers[j] /\ writers'[i] \notin Group(t)
        BY <1>3
    <2>2. writers[j] \in Thread
        BY CallerTypes DEF TypeOK
    <2>3. th'[writers'[i]].batch = th[writers[j]].batch
        BY <1>2, <2>1, <2>2 DEF SameWriter
    <2>4. th[u].batch # None => th[writers[j]].batch # th[u].batch
        BY <1>4, <2>1, <2>2 DEF CallerInv, BatchInv
    <2>5. QED
        BY <2>3, <2>4
<1>20. IdInv'
    <2> SUFFICES ASSUME NEW e \in mem \union ImmEntries
                 PROVE  /\ e[1] <= used.write
                        /\ \A i \in 1..Len(writers)' : th'[writers'[i]].batch # e[1]
        BY <1>1, <1>16 DEF IdInv
    <2>1. e[1] <= used.write /\ \A i \in 1..Len(writers) : th[writers[i]].batch = e[1] => Reporting(e)
        BY DEF DataInv, IdInv
    <2>2. ASSUME NEW i \in 1..Len(writers)', th'[writers'[i]].batch = e[1]
          PROVE  FALSE
        <3>1. Reporting(e)
            BY <1>2, <1>19, <2>1, <2>2
        <3>2. PICK k \in 1..th[t].group : th[writers[k]].batch = e[1]
            BY <1>8, <1>10, <3>1
        <3>3. writers[k] \in Group(t) /\ e \in Entry
            BY <1>8, <1>10, <3>1, <3>2 DEF Group
        <3>4. e[1] # None
            BY <3>3, FileTypes, NoneAssumption DEF TypeOK, NoneAssumption
        <3>5. QED
            BY <1>19, <2>2, <3>2, <3>3, <3>4
    <2>3. QED
        BY <2>1, <2>2
<1>21. AckedInv'
    <2> SUFFICES ASSUME NEW i \in acked'
                 PROVE  i <= used.write /\ \A j \in 1..Len(writers)' : th'[writers'[j]].batch # i
        BY <1>1 DEF AckedInv
    <2>1. CASE i \in acked
        BY <1>2, <1>19, <2>1 DEF DataInv, AckedInv
    <2>2. CASE i \notin acked
        <3>1. PICK u \in Group(t) : i = th[u].batch /\ i # None
            BY <1>1, <2>2
        <3>2. QED
            BY <1>6, <1>19, <3>1
    <2>3. QED
        BY <2>1, <2>2
<1>22. ASSUME NEW i \in synced', i \notin synced
       PROVE  th[t].ok /\ \E u \in Group(t) : i = th[u].batch /\ th[u].sync /\ i # None
    <2>1. th[t].ok /\ i \in {th[u].batch : u \in {u \in Group(t) : th[u].sync}}
        BY <1>1, <1>22
    <2>2. PICK u \in Group(t) : i = th[u].batch /\ th[u].sync
        BY <2>1
    <2>3. QED
        BY <1>7, <2>1, <2>2
<1>23. BackedInv'
    <2>1. \A e : Recovered(e)' = Recovered(e) /\ RecoveredSynced(e)' = RecoveredSynced(e)
        BY <1>1, <1>16 DEF Recovered, RecoveredSynced, ToRecover
    <2>2. ASSUME NEW e \in mem \union ImmEntries, e[1] \notin spoiled, e[1] \in synced', e[1] \notin synced
          PROVE  e \in mem /\ e \in Durable(logfile) /\ e \notin ImmEntries
        <3>1. PICK u \in Group(t) : th[t].ok /\ e[1] = th[u].batch /\ th[u].sync /\ e[1] # None
            BY <1>22, <2>2
        <3>2. PICK j \in 1..Len(writers) : writers[j] = u
            BY <1>2, <1>4, CallerTypes DEF TypeOK
        <3>3. Reporting(e)
            BY <3>1, <3>2 DEF DataInv, IdInv
        <3>4. e \in Entries(t) /\ lastSequence < e[2] /\ e \in Entry
            BY <1>8, <1>10, <3>3
        <3>5. e \in mem /\ e \in Durable(logfile)
            BY <1>11, <2>2, <3>1, <3>4
        <3>6. e \notin ImmEntries
            BY <1>5, <3>4, FileTypes DEF DataInv, SeqInv, TypeOK
        <3>7. QED
            BY <3>5, <3>6
    <2>3. \A e \in mem : e[1] \notin spoiled =>
             e \in Readable(logfile) /\ (e[1] \in synced' => e \in Durable(logfile))
        BY <2>2 DEF DataInv, BackedInv
    <2>4. \A e \in ImmEntries : e[1] \notin spoiled =>
             Recovered(e) /\ (e[1] \in synced' => RecoveredSynced(e))
        BY <2>2 DEF DataInv, BackedInv
    <2>5. Readable(logfile)' = Readable(logfile) /\ Durable(logfile)' = Durable(logfile)
        BY <1>1 DEF Readable, Durable
    <2>6. QED
        BY <1>1, <1>16, <2>1, <2>3, <2>4, <2>5 DEF BackedInv
<1>24. WorkInv'
    <2>1. \A u \in Thread : ~HasLogged(th'[u])
        BY <1>3 DEF HasLogged, HeadPc
    <2>2. QED
        BY <2>1 DEF WorkInv
<1>25. SurviveInv'
    <2>1. Visible' = Visible
        BY <1>1 DEF Visible
    <2>2. ASSUME NEW i \in acked', i \notin acked
          PROVE  i \in Ids(Visible)
        <3>1. PICK u \in Group(t) : th[t].ok /\ i = th[u].batch /\ i # None
            BY <1>1, <2>2
        <3>2. PICK e \in mem : e[1] = i
            BY <1>11, <3>1
        <3>3. QED
            BY <3>2 DEF Ids, Visible
    <2>3. ASSUME NEW i \in synced', i \notin synced
          PROVE  i \in Ids(Visible)
        <3>1. PICK u \in Group(t) : th[t].ok /\ i = th[u].batch /\ i # None
            BY <1>22, <2>3
        <3>2. PICK e \in mem : e[1] = i
            BY <1>11, <3>1
        <3>3. QED
            BY <3>2 DEF Ids, Visible
    <2>4. (IF lostPower THEN synced ELSE acked) \ spoiled \subseteq Ids(Visible)
        BY <1>5 DEF DataInv, SurviveInv, AckedSurvive
    <2>5. (IF lostPower THEN synced' ELSE acked') \ spoiled \subseteq Ids(Visible)
        BY <2>2, <2>3, <2>4
    <2>6. Ids(Visible)' = Ids(Visible)
        BY <2>1 DEF Ids
    <2>7. QED
        BY <1>1, <1>5, <2>5, <2>6 DEF SurviveInv, AckedSurvive
<1>26. QED
    BY <1>3, <1>13, <1>14, <1>15, <1>17, <1>18, <1>20, <1>21, <1>23, <1>24, <1>25 DEF DataInv

-----------------------------------------------------------------------------
(* The steps of the background thread that change files *)

\* What the caller at work has logged is there after a step that leaves it and its log alone.
LEMMA LoggedKept ==
    ASSUME WorkInv, WorkGoes, mem' = mem, spoiled' = spoiled,
           Readable(logfile)' = Readable(logfile), Durable(logfile)' = Durable(logfile)
    PROVE  WorkInv'
<1> SUFFICES ASSUME NEW t \in Thread, HasLogged(th'[t]), NEW e \in Entries(t)'
             PROVE  /\ e[1] \notin spoiled => e \in Readable(logfile)
                    /\ th'[t].pc # "sync" /\ th'[t].sync /\ e[1] \notin spoiled => e \in Durable(logfile)
                    /\ th'[t].pc = "finish" => e \in mem
    BY DEF WorkInv
<1>1. HasLogged(th[t]) /\ th[t].pc = th'[t].pc /\ th[t].sync = th'[t].sync /\ e \in Entries(t)
    BY DEF WorkGoes
<1>2. QED
    BY <1>1 DEF WorkInv

\* The manifest moves on to what is in imm_, or to a version without the inputs.
LEMMA ManifestMoves ==
    ASSUME TypeOK, BgInv, FileInv, SeqInv, bg.pc = "apply"
    PROVE  LET m == OnDisk(manifest, bg.edit)
           IN  /\ Operating /\ bg.edit \in EditState
               /\ m \in [log : Nat, tables : SUBSET Entry, level0 : Int, seq : Nat, next : Nat]
               /\ m.log = bg.edit.log /\ m.seq = bg.edit.seq /\ m.next = bg.edit.next
               /\ m.tables = manifest.tables \union bg.edit.add
               /\ m.log < m.next /\ version.log <= m.log /\ m.log <= logfile
               /\ m.seq <= lastSequence /\ \A e \in m.tables : e[2] <= m.seq
               /\ bg.edit.add \subseteq ImmEntries
               /\ m.log <= manifest.log \/ ImmEntries \subseteq m.tables
<1> DEFINE m == OnDisk(manifest, bg.edit)
<1>1. Operating
    BY WorkIsOpen DEF TypeOK
<1>2. bg.edit \in EditState
    BY DEF TypeOK, FileTypeOK, BgState
<1>3. /\ bg.edit.log \in Nat /\ bg.edit.seq \in Nat /\ bg.edit.next \in Nat
      /\ bg.edit.add \in SUBSET Entry /\ bg.edit.level0 \in Int
    BY <1>2 DEF EditState
<1>4. /\ manifest.level0 \in Int /\ manifest.log \in Nat /\ manifest.tables \in SUBSET Entry
      /\ manifest.seq \in Nat /\ version.log \in Nat /\ logfile \in Nat
    BY DEF TypeOK, FileTypeOK
<1>5. /\ m.log = bg.edit.log /\ m.seq = bg.edit.seq /\ m.next = bg.edit.next
      /\ m.tables = manifest.tables \union bg.edit.add /\ m.level0 = manifest.level0 + bg.edit.level0
      /\ m \in [log : Nat, tables : SUBSET Entry, level0 : Int, seq : Nat, next : Nat]
    BY <1>3, <1>4 DEF OnDisk, Saved, Applied
<1>6. version.log <= manifest.log /\ manifest.log <= logfile
    BY <1>1 DEF FileInv
<1>7. bg.edit.log = logfile \/ bg.edit.log = version.log
    BY DEF BgInv
<1>8. m.log < m.next /\ version.log <= m.log /\ m.log <= logfile /\ m.seq <= lastSequence
    BY <1>4, <1>5, <1>6, <1>7 DEF BgInv
<1>9. \A e \in m.tables : e[2] <= m.seq
    <2> TAKE e \in m.tables
    <2>1. e \in Entry /\ e[2] \in Nat
        BY <1>3, <1>4, <1>5, FileTypes DEF TypeOK
    <2>2. CASE e \in manifest.tables
        BY <1>3, <1>4, <1>5, <2>1, <2>2 DEF SeqInv, BgInv
    <2>3. CASE e \in bg.edit.add
        BY <1>5, <2>3 DEF BgInv
    <2>4. QED
        BY <1>5, <2>2, <2>3
<1>10. bg.edit.add \subseteq ImmEntries
    BY DEF BgInv, ImmEntries
<1>11. m.log <= manifest.log \/ ImmEntries \subseteq m.tables
    BY <1>4, <1>5, <1>6 DEF BgInv, ImmEntries
<1>12. QED
    BY <1>1, <1>2, <1>5, <1>8, <1>9, <1>10, <1>11

\* Whether the record is there or not, nothing is lost and nothing comes up again.
LEMMA WriteManifestStep ==
    ASSUME TypeOK, CallerInv, BgInv, FileInv, OpeningInv, DataInv, WriteManifest
    PROVE  FileTypeOK' /\ BgInv' /\ FileInv' /\ OpeningInv' /\ DataInv'
<1> DEFINE m == OnDisk(manifest, bg.edit)
<1>1. CallerKept /\ used.write <= used'.write /\ used'.write \in Nat
    <2>1. ~ReadsNull
        BY DEF WriteManifest, ReadsNull, AtBg
    <2>2. used' = used \/ Use("fail", MaxFail)
        BY DEF WriteManifest
    <2>3. QED
        BY <2>1, <2>2, BgKept, UseCounts, CallerTypes DEF BgStep, TypeOK
<1>2. /\ mem' = mem /\ imm' = imm /\ logs' = logs /\ logfile' = logfile /\ nextFile' = nextFile
      /\ lastSequence' = lastSequence /\ version' = version /\ bgError' = bgError /\ phase' = phase
      /\ acked' = acked /\ synced' = synced /\ spoiled' = spoiled /\ lostPower' = lostPower
      /\ bg.pc = "apply" /\ bg'.pc = "applied" /\ bg'.memtable = bg.memtable /\ bg'.edit = bg.edit
      /\ bg' \in BgState /\ (bg'.ok => manifest' = m)
      /\ manifest' = m \/ manifest' = manifest
    <2>1. bg \in BgState
        BY DEF TypeOK, FileTypeOK
    <2>2. \E ok \in BOOLEAN : bg' = [bg EXCEPT !.pc = "applied", !.ok = ok] /\ (ok => manifest' = m)
        BY DEF WriteManifest
    <2>3. bg'.pc = "applied" /\ bg'.memtable = bg.memtable /\ bg'.edit = bg.edit
          /\ bg' \in BgState /\ (bg'.ok => manifest' = m)
        BY <2>1, <2>2 DEF BgState
    <2>4. QED
        BY <2>3 DEF WriteManifest, BgUnchanged
<1>3. /\ Operating /\ m \in [log : Nat, tables : SUBSET Entry, level0 : Int, seq : Nat, next : Nat]
      /\ m.log = bg.edit.log /\ m.tables = manifest.tables \union bg.edit.add
      /\ m.log < m.next /\ version.log <= m.log /\ m.log <= logfile
      /\ m.seq <= lastSequence /\ (\A e \in m.tables : e[2] <= m.seq)
      /\ bg.edit.add \subseteq ImmEntries
      /\ m.log <= manifest.log \/ ImmEntries \subseteq m.tables
    BY <1>2, ManifestMoves DEF DataInv
<1> HIDE DEF m
<1>4. Operating'
    BY <1>2, <1>3 DEF Operating
<1>5. /\ manifest' \in [log : Nat, tables : SUBSET Entry, level0 : Int, seq : Nat, next : Nat]
      /\ manifest'.log < manifest'.next /\ version.log <= manifest'.log /\ manifest'.log <= logfile
      /\ manifest'.seq <= lastSequence /\ (\A e \in manifest'.tables : e[2] <= manifest'.seq)
      /\ manifest.tables \subseteq manifest'.tables
      /\ \A e \in manifest'.tables : e \in manifest.tables \/ e \in ImmEntries
      /\ manifest'.log <= manifest.log \/ ImmEntries \subseteq manifest'.tables
    <2>1. CASE manifest' = m
        BY <1>3, <2>1
    <2>2. CASE manifest' = manifest
        <3>1. /\ manifest \in [log : Nat, tables : SUBSET Entry, level0 : Int, seq : Nat, next : Nat]
              /\ manifest.log <= manifest.log
            BY DEF TypeOK, FileTypeOK
        <3>2. QED
            BY <1>3, <2>2, <3>1 DEF FileInv, DataInv, SeqInv
    <2>3. QED
        BY <1>2, <2>1, <2>2
<1>6. FileTypeOK'
    BY <1>2, <1>5 DEF TypeOK, FileTypeOK, MemTypeOK
<1>7. BgInv'
    <2>1. bg'.ok => manifest'.log = bg.edit.log /\ bg.edit.add \subseteq manifest'.tables
        BY <1>2, <1>3
    <2>2. bg.memtable => imm # None
        BY DEF BgInv
    <2>3. QED
        BY <1>2, <2>1, <2>2 DEF BgInv
<1>8. FileInv' /\ OpeningInv'
    <2>1. FileInv'
        BY <1>2, <1>3, <1>4, <1>5 DEF FileInv
    <2>2. QED
        BY <1>4, <2>1 DEF OpeningInv, Operating
<1>9. ImmEntries' = ImmEntries /\ \A n : Readable(n)' = Readable(n) /\ Durable(n)' = Durable(n)
    BY <1>2 DEF ImmEntries, Readable, Durable
<1>10. SeqInv'
    <2>1. phase' \notin {"recovered", "committed"}
        BY <1>4 DEF Operating
    <2>2. \A e \in mem : e[2] <= lastSequence \/ Reporting(e)'
        BY <1>1 DEF DataInv, SeqInv, CallerKept, WorkGoes
    <2>3. \A n \in DOMAIN logs : n >= version.log => \A e \in Readable(n) : e[2] <= lastSequence \/ Logged(e)'
        BY <1>1, <1>3 DEF DataInv, SeqInv, CallerKept, WorkGoes
    <2>4. \A e \in ImmEntries : e[2] <= lastSequence
        BY DEF DataInv, SeqInv
    <2>5. QED
        BY <1>2, <1>4, <1>5, <1>9, <2>1, <2>2, <2>3, <2>4 DEF SeqInv
<1>11. UniqueInv'
    <2>1. \A e : Present(e)' => Present(e)
        BY <1>2, <1>3, <1>4, <1>5, <1>9 DEF Present
    <2>2. QED
        BY <2>1, UniqueKept DEF DataInv
<1>12. IdInv' /\ AckedInv'
    BY <1>1, <1>2, <1>9, IdKept, AckedKept DEF DataInv, CallerKept, WorkGoes
<1>13. BackedInv'
    <2>1. ASSUME NEW e \in ImmEntries
          PROVE  /\ Recovered(e) => Recovered(e)'
                 /\ RecoveredSynced(e) => RecoveredSynced(e)'
        <3>1. CASE e \in manifest'.tables
            BY <3>1 DEF Recovered, RecoveredSynced
        <3>2. CASE manifest'.log <= manifest.log
            <4>1. \A n \in ToRecover : n \in ToRecover'
                <5> TAKE n \in ToRecover
                <5>1. n \in DOMAIN logs /\ n >= manifest.log /\ n \in Nat
                    BY DEF ToRecover, TypeOK, FileTypeOK
                <5>2. manifest'.log \in Nat /\ manifest.log \in Nat
                    BY <1>5, FileTypes DEF TypeOK
                <5>3. QED
                    BY <1>2, <3>2, <5>1, <5>2 DEF ToRecover
            <4>2. QED
                BY <1>5, <1>9, <4>1 DEF Recovered, RecoveredSynced
        <3>3. QED
            BY <1>5, <3>1, <3>2
    <2>2. Readable(logfile)' = Readable(logfile) /\ Durable(logfile)' = Durable(logfile)
        BY <1>2 DEF Readable, Durable
    <2>3. QED
        BY <1>2, <1>9, <2>1, <2>2 DEF DataInv, BackedInv
<1>14. WorkInv'
    <2>1. Readable(logfile)' = Readable(logfile) /\ Durable(logfile)' = Durable(logfile)
        BY <1>2 DEF Readable, Durable
    <2>2. QED
        BY <1>1, <1>2, <2>1, LoggedKept DEF DataInv, CallerKept
<1>15. SurviveInv'
    <2>1. \A e : e \in Visible => e \in Visible'
        BY <1>2 DEF Visible
    <2>2. QED
        BY <1>2, <1>3, <1>4, <2>1, SurviveKept DEF DataInv
<1>16. QED
    BY <1>6, <1>7, <1>8, <1>10, <1>11, <1>12, <1>13, <1>14, <1>15 DEF DataInv

\* What is left of the logs is as it was.
LEMMA LogsDropped ==
    ASSUME FileTypeOK, NEW k \in Nat,
           logs' = logs \/ logs' = [n \in {n \in DOMAIN logs : n >= k} |-> logs[n]]
    PROVE  /\ \A n \in DOMAIN logs' : n \in DOMAIN logs
           /\ \A n \in DOMAIN logs : n >= k => n \in DOMAIN logs'
           /\ logs' \in [DOMAIN logs' -> LogState]
           /\ \A n \in DOMAIN logs' : /\ logs'[n].synced <= Len(logs'[n].recs)
                                      /\ logs'[n] = logs[n]
                                      /\ Readable(n)' = Readable(n) /\ Durable(n)' = Durable(n)
<1>1. /\ \A n \in DOMAIN logs' : n \in DOMAIN logs /\ logs'[n] = logs[n]
      /\ \A n \in DOMAIN logs : n >= k => n \in DOMAIN logs'
      /\ logs' = [n \in DOMAIN logs' |-> logs'[n]]
    <2>1. logs = [n \in DOMAIN logs |-> logs[n]]
        BY DEF FileTypeOK
    <2>2. QED
        BY <2>1
<1>2. \A n \in DOMAIN logs : logs[n] \in LogState /\ logs[n].synced <= Len(logs[n].recs)
    BY DEF FileTypeOK
<1>3. \A n \in DOMAIN logs' : logs'[n] \in LogState /\ logs'[n].synced <= Len(logs'[n].recs)
    BY <1>1, <1>2
<1>4. logs' \in [DOMAIN logs' -> LogState]
    BY <1>1, <1>3
<1>5. \A n \in DOMAIN logs' : Readable(n)' = Readable(n) /\ Durable(n)' = Durable(n)
    BY <1>1 DEF Readable, Durable
<1>6. QED
    BY <1>1, <1>3, <1>4, <1>5

\* A version that the manifest covers is installed, and logs it does not need are deleted.
LEMMA InstallKeeps ==
    ASSUME TypeOK, CallerInv, FileInv, DataInv, CallerKept, Operating,
           used.write <= used'.write, used'.write \in Nat,
           mem' = mem, logfile' = logfile, nextFile' = nextFile, lastSequence' = lastSequence,
           manifest' = manifest, phase' = phase, acked' = acked, synced' = synced,
           spoiled' = spoiled, lostPower' = lostPower,
           bgError' \in BOOLEAN, bg' \in BgState,
           imm' = imm \/ (imm' = None /\ ImmEntries \subseteq version'.tables),
           version' \in [log : Nat, tables : SUBSET Entry, level0 : Int],
           version.tables \subseteq version'.tables, version'.tables \subseteq manifest.tables,
           version.log <= version'.log, version'.log <= manifest.log,
           logs' = logs \/ logs' = [n \in {n \in DOMAIN logs : n >= version'.log} |-> logs[n]]
    PROVE  FileTypeOK' /\ FileInv' /\ OpeningInv' /\ DataInv'
<1>1. Operating' /\ phase \in {"open", "closing"}
    BY DEF Operating
<1>2. /\ version.log \in Nat /\ version'.log \in Nat /\ manifest.log \in Nat /\ logfile \in Nat
      /\ manifest.log <= logfile /\ logfile \in DOMAIN logs
      /\ DOMAIN logs \subseteq 0..logfile
    BY <1>1, FileTypes DEF FileInv, TypeOK, FileTypeOK
<1>3. PICK k \in Nat : k = version'.log
    BY <1>2
<1>4. /\ \A n \in DOMAIN logs' : n \in DOMAIN logs
      /\ \A n \in DOMAIN logs : n >= k => n \in DOMAIN logs'
      /\ logs' \in [DOMAIN logs' -> LogState]
      /\ \A n \in DOMAIN logs' : /\ logs'[n].synced <= Len(logs'[n].recs)
                                 /\ Readable(n)' = Readable(n) /\ Durable(n)' = Durable(n)
    BY <1>3, LogsDropped DEF TypeOK
<1>5. PICK l \in DOMAIN logs' : l = logfile
    BY <1>2, <1>3, <1>4
<1>6. Readable(logfile)' = Readable(logfile) /\ Durable(logfile)' = Durable(logfile)
    BY <1>4, <1>5
<1>7. \A e : e \in ImmEntries' => imm' = imm /\ e \in ImmEntries
    BY DEF ImmEntries
<1>8. FileTypeOK'
    <2>1. MemTypeOK'
        BY DEF TypeOK, FileTypeOK, MemTypeOK
    <2>2. DOMAIN logs' \subseteq 0..logfile
        BY <1>2, <1>4
    <2>3. QED
        BY <1>4, <2>1, <2>2 DEF TypeOK, FileTypeOK
<1>9. FileInv' /\ OpeningInv'
    <2>1. FileInv'
        BY <1>1, <1>2, <1>5 DEF FileInv
    <2>2. QED
        BY <1>1, <2>1 DEF OpeningInv
<1>10. SeqInv'
    <2>1. \A e \in mem : e[2] <= lastSequence \/ Reporting(e)'
        BY DEF DataInv, SeqInv, CallerKept, WorkGoes
    <2>2. \A n \in DOMAIN logs' : n >= version'.log =>
             \A e \in Readable(n)' : e[2] <= lastSequence \/ Logged(e)'
        <3> TAKE n \in DOMAIN logs'
        <3> HAVE n >= version'.log
        <3>1. n \in DOMAIN logs /\ n \in Nat /\ n >= version.log
            BY <1>2, <1>4
        <3>2. QED
            BY <1>4, <3>1 DEF DataInv, SeqInv, CallerKept, WorkGoes
    <2>3. \A e \in ImmEntries' : e[2] <= lastSequence
        BY <1>7 DEF DataInv, SeqInv
    <2>4. \A e \in manifest.tables : e[2] <= manifest.seq
        BY DEF DataInv, SeqInv
    <2>5. QED
        BY <1>1, <2>1, <2>2, <2>3, <2>4 DEF SeqInv
<1>11. UniqueInv'
    <2>1. ASSUME NEW n \in DOMAIN logs', n >= version'.log
          PROVE  n \in DOMAIN logs /\ n >= version.log /\ Readable(n)' = Readable(n)
        <3>1. n \in DOMAIN logs /\ n \in Nat
            BY <1>2, <1>4
        <3>2. QED
            BY <1>2, <1>4, <2>1, <3>1
    <2>2. \A e : Present(e)' => Present(e)
        BY <1>1, <1>7, <2>1 DEF Present
    <2>3. QED
        BY <2>2, UniqueKept DEF DataInv
<1>12. IdInv' /\ AckedInv'
    <2>1. \A e : e \in (mem \union ImmEntries)' => e \in mem \union ImmEntries
        BY <1>7
    <2>2. QED
        BY <2>1, IdKept, AckedKept DEF DataInv, CallerKept, WorkGoes
<1>13. BackedInv'
    <2>1. ASSUME NEW n \in ToRecover
          PROVE  n \in ToRecover' /\ Readable(n)' = Readable(n) /\ Durable(n)' = Durable(n)
        <3>1. n \in DOMAIN logs /\ n >= manifest.log /\ n \in Nat
            BY <1>2 DEF ToRecover
        <3>2. n >= k
            BY <1>2, <1>3, <3>1
        <3>3. QED
            BY <1>4, <3>1, <3>2 DEF ToRecover
    <2>2. \A e : (Recovered(e) => Recovered(e)') /\ (RecoveredSynced(e) => RecoveredSynced(e)')
        BY <2>1 DEF Recovered, RecoveredSynced
    <2>3. QED
        BY <1>6, <1>7, <2>2 DEF DataInv, BackedInv
<1>14. WorkInv'
    BY <1>6, LoggedKept DEF DataInv, CallerKept
<1>15. SurviveInv'
    <2>1. \A e : e \in Visible => e \in Visible'
        BY DEF Visible, ImmEntries
    <2>2. QED
        BY <1>1, <2>1, SurviveKept DEF DataInv
<1>16. QED
    BY <1>8, <1>9, <1>10, <1>11, <1>12, <1>13, <1>14, <1>15 DEF DataInv

\* A background call that is over leaves nothing in its hands.
LEMMA BgRests ==
    ASSUME NEW error, NEW immNow, NEW manualNow, NEW level0
    PROVE  LET b == Schedule(Unscheduled, error, immNow, manualNow, level0)
           IN  b \in BgState /\ ~b.memtable /\ b.pc \in {"none", "start"}
<1>1. Unscheduled \in BgState /\ Unscheduled.pc = "none" /\ ~Unscheduled.memtable
    BY DEF Unscheduled, BgState, NoEdit, EditState, Entry
<1>2. [Unscheduled EXCEPT !.pc = "start"] \in BgState
      /\ ~[Unscheduled EXCEPT !.pc = "start"].memtable /\ [Unscheduled EXCEPT !.pc = "start"].pc = "start"
    BY <1>1 DEF BgState
<1>3. LET b == Schedule(Unscheduled, error, immNow, manualNow, level0)
      IN  b = Unscheduled \/ b = [Unscheduled EXCEPT !.pc = "start"]
    BY ScheduleIs
<1>4. QED
    BY <1>1, <1>2, <1>3

\* The memtable is in a table, and its log is not needed any more.
LEMMA InstallMemTableStep ==
    ASSUME TypeOK, CallerInv, BgInv, FileInv, DataInv, InstallMemTable
    PROVE  FileTypeOK' /\ BgInv' /\ FileInv' /\ OpeningInv' /\ DataInv'
<1>1. /\ mem' = mem /\ logfile' = logfile /\ nextFile' = nextFile /\ lastSequence' = lastSequence
      /\ manifest' = manifest /\ phase' = phase /\ acked' = acked /\ synced' = synced
      /\ spoiled' = spoiled /\ lostPower' = lostPower /\ used' = used
      /\ bg.pc = "applied" /\ bg.memtable
    BY DEF InstallMemTable, BgUnchanged, AtBg
<1>2. CallerKept /\ used.write <= used'.write /\ used'.write \in Nat
    <2>1. ~ReadsNull
        BY DEF InstallMemTable, ReadsNull, AtBg
    <2>2. QED
        BY <1>1, <2>1, BgKept, CallerTypes DEF BgStep, TypeOK
<1>3. Operating /\ imm # None /\ bg.edit.add = imm /\ bg.edit.log = logfile
    BY <1>1, WorkIsOpen DEF BgInv, TypeOK
<1>4. /\ version.level0 \in Int /\ bg.edit.level0 \in Int /\ logfile \in Nat /\ imm \in SUBSET Entry
      /\ version.tables \in SUBSET Entry /\ bg \in BgState /\ bgError \in BOOLEAN
      /\ version.log \in Nat /\ manifest.log \in Nat
      /\ version \in [log : Nat, tables : SUBSET Entry, level0 : Int]
    BY <1>3, FileTypes DEF TypeOK, FileTypeOK, BgState, EditState
<1>5. bg' \in BgState /\ BgInv'
    <2>1. bg'.pc \in {"work", "none", "start"} /\ ~bg'.memtable /\ bg' \in BgState
        <3>1. CASE bg' = [bg EXCEPT !.pc = "work", !.memtable = FALSE, !.nested = FALSE, !.ok = TRUE]
            BY <1>4, <3>1 DEF BgState
        <3>2. CASE bg' = Schedule(Unscheduled, bgError', imm', manual, version'.level0)
            BY <3>2, BgRests
        <3>3. QED
            BY <3>1, <3>2 DEF InstallMemTable, MemTableDone, Ends
    <2>2. QED
        BY <2>1 DEF BgInv
<1>6. CASE bg.ok
    <2>1. version' = Applied(version, bg.edit) /\ imm' = None /\ logs' = LogsKept(version', bgError)
          /\ bgError' = bgError
        BY <1>6 DEF InstallMemTable
    <2>2. /\ version'.log = logfile /\ version'.tables = version.tables \union imm
          /\ version' \in [log : Nat, tables : SUBSET Entry, level0 : Int]
        BY <1>3, <1>4, <2>1 DEF Applied
    <2>3. manifest.log = logfile /\ imm \subseteq manifest.tables
          /\ version.tables \subseteq manifest.tables /\ version.log <= manifest.log
        BY <1>1, <1>3, <1>6 DEF BgInv, FileInv
    <2>4. logs' = logs \/ logs' = [n \in {n \in DOMAIN logs : n >= version'.log} |-> logs[n]]
        BY <2>1 DEF LogsKept
    <2>5. ImmEntries \subseteq version'.tables
        BY <1>3, <2>2 DEF ImmEntries
    <2>6. version'.log <= manifest.log /\ version.log <= version'.log
          /\ version'.tables \subseteq manifest.tables /\ version.tables \subseteq version'.tables
        BY <1>4, <2>2, <2>3
    <2>7. bgError' \in BOOLEAN
        BY <1>4, <2>1
    <2>8. QED
        BY <1>1, <1>2, <1>3, <1>5, <2>1, <2>2, <2>4, <2>5, <2>6, <2>7, InstallKeeps
<1>7. CASE ~bg.ok
    <2>1. version' = version /\ imm' = imm /\ logs' = logs /\ bgError' = TRUE
        BY <1>7 DEF InstallMemTable
    <2>2. version.tables \subseteq manifest.tables /\ version.log <= manifest.log /\ version.log <= version.log
        BY <1>3, <1>4 DEF FileInv
    <2>3. QED
        BY <1>1, <1>2, <1>3, <1>4, <1>5, <2>1, <2>2, InstallKeeps
<1>8. QED
    BY <1>5, <1>6, <1>7

\* A compaction changes no entry and needs no other log.
LEMMA InstallCompactionStep ==
    ASSUME TypeOK, CallerInv, BgInv, FileInv, DataInv, InstallCompaction
    PROVE  FileTypeOK' /\ BgInv' /\ FileInv' /\ OpeningInv' /\ DataInv'
<1>1. /\ mem' = mem /\ imm' = imm /\ logfile' = logfile /\ nextFile' = nextFile
      /\ lastSequence' = lastSequence
      /\ manifest' = manifest /\ phase' = phase /\ acked' = acked /\ synced' = synced
      /\ spoiled' = spoiled /\ lostPower' = lostPower /\ used' = used
      /\ bg.pc = "applied" /\ ~bg.memtable
    BY DEF InstallCompaction, BgUnchanged, AtBg
<1>2. CallerKept /\ used.write <= used'.write /\ used'.write \in Nat
    <2>1. ~ReadsNull
        BY DEF InstallCompaction, ReadsNull, AtBg
    <2>2. QED
        BY <1>1, <2>1, BgKept, CallerTypes DEF BgStep, TypeOK
<1>3. Operating /\ bg.edit.add = {} /\ bg.edit.log = version.log
    BY <1>1, WorkIsOpen DEF BgInv, TypeOK
<1>4. /\ version.level0 \in Int /\ bg.edit.level0 \in Int
      /\ version.tables \in SUBSET Entry /\ bg \in BgState /\ bgError \in BOOLEAN
      /\ version.log \in Nat /\ manifest.log \in Nat /\ bg.ok \in BOOLEAN
      /\ version \in [log : Nat, tables : SUBSET Entry, level0 : Int]
    BY FileTypes DEF TypeOK, FileTypeOK, BgState, EditState
<1>5. bg' \in BgState /\ BgInv'
    <2>1. PICK mn : bg' = Schedule(Unscheduled, bgError', imm, mn, version'.level0)
        BY DEF InstallCompaction, CompactionDone, Ends
    <2>2. bg'.pc \in {"none", "start"} /\ ~bg'.memtable /\ bg' \in BgState
        BY <2>1, BgRests
    <2>3. QED
        BY <2>2 DEF BgInv
<1>6. /\ version'.log = version.log /\ version'.tables = version.tables
      /\ version' \in [log : Nat, tables : SUBSET Entry, level0 : Int]
    <2>1. version' = Applied(version, bg.edit) \/ version' = version
        BY DEF InstallCompaction
    <2>2. QED
        BY <1>3, <1>4, <2>1 DEF Applied
<1>7. logs' = logs \/ logs' = [n \in {n \in DOMAIN logs : n >= version'.log} |-> logs[n]]
    BY DEF InstallCompaction, LogsKept
<1>8. version.tables \subseteq manifest.tables /\ version.log <= manifest.log /\ version.log <= version.log
    BY <1>3, <1>4 DEF FileInv
<1>9. bgError' \in BOOLEAN
    BY <1>4 DEF InstallCompaction
<1>10. QED
    BY <1>1, <1>2, <1>3, <1>5, <1>6, <1>7, <1>8, <1>9, InstallKeeps

-----------------------------------------------------------------------------
(* Steps without data *)

\* Such a step of a caller or of the background thread.
LEMMA QuietStep ==
    ASSUME TypeOK, CallerInv, BgInv, FileInv, DataInv,
           (\E t \in Thread : QuietCaller(t)) \/ QuietBg
    PROVE  TypeOK' /\ CallerInv' /\ BgInv' /\ FileInv' /\ OpeningInv' /\ DataInv'
<1>1. used.write <= used'.write
    <2>1. \/ used' = used \/ Use("write", MaxWrite) \/ Use("compact", MaxCompact) \/ Use("fail", MaxFail)
        <3>1. ASSUME NEW t \in Thread, QuietCaller(t)
              PROVE  \/ used' = used \/ Use("write", MaxWrite) \/ Use("compact", MaxCompact)
                     \/ Use("fail", MaxFail)
            BY <3>1 DEF QuietCaller, Write, CompactRange, Close, Queued, RoomError, RoomDelay, RoomEnough,
                   RoomWait, RoomNoFile, SyncFails, WaitImm, ManualCompaction, Destroyed, CallerUnchanged
        <3>2. ASSUME QuietBg
              PROVE  used' = used \/ Use("fail", MaxFail)
            BY <3>2 DEF QuietBg, BackgroundCallOff, StartCompactMemTable, NothingToDo, StartCompaction,
                   BuildTable, LogMemTable, WorkOnMemTable, WorkEnds, StartUnchanged
        <3>3. QED
            BY <3>1, <3>2
    <2>2. used.write <= used.write
        BY CallerTypes DEF TypeOK
    <2>3. QED
        BY <2>1, <2>2, UseCounts DEF TypeOK
<1>2. /\ CallerKept /\ DataSame /\ Operating /\ Operating'
      /\ FileTypeOK' /\ BgInv' /\ FileInv' /\ OpeningInv'
    <2>1. CASE \E t \in Thread : QuietCaller(t)
        BY <2>1, QuietCallerIs, QuietCallerFiles DEF StaysOpen
    <2>2. CASE QuietBg
        <3>1. BgStep /\ ~ReadsNull
            <4>1. BgStep
                BY <2>2 DEF QuietBg, BgStep
            <4>2. ReadsNull => mem' = mem /\ phase' = "down"
                BY <2>2, QuietBgFiles DEF ReadsNull, ProcessEnds, DataSame, DataInv
            <4>3. phase' # "down"
                BY <2>2, QuietBgFiles DEF StaysOpen, DataInv
            <4>4. QED
                BY <4>1, <4>2, <4>3
        <3>2. QED
            BY <2>2, <3>1, BgKept, QuietBgFiles DEF StaysOpen, DataInv
    <2>3. QED
        BY <2>1, <2>2
<1>3. TypeOK' /\ CallerInv' /\ used'.write \in Nat
    BY <1>2, CallerTypes DEF CallerKept, TypeOK, CallerTypeOK
<1>4. DataInv'
    BY <1>1, <1>2, <1>3, DataKept DEF CallerKept
<1>5. QED
    BY <1>2, <1>3, <1>4

-----------------------------------------------------------------------------
(* The end of the process *)

\* The sequence numbers in the logs do not go on for ever.
LEMMA SeqBounded ==
    ASSUME TypeOK, CallerInv, FileInv, SeqInv
    PROVE  \E b \in Nat : \A n \in ToRecover : \A e \in Readable(n) : e[2] <= b
<1>1. CASE ~Operating
    BY <1>1 DEF SeqInv
<1>2. CASE Operating
    <2>1. \A n \in ToRecover : n \in DOMAIN logs /\ n >= version.log
        <3> TAKE n \in ToRecover
        <3>1. n \in DOMAIN logs /\ n >= manifest.log /\ n \in Nat
            BY DEF ToRecover, TypeOK, FileTypeOK
        <3>2. version.log <= manifest.log /\ version.log \in Nat /\ manifest.log \in Nat
            BY <1>2, FileTypes DEF FileInv, TypeOK
        <3>3. QED
            BY <3>1, <3>2
    <2>2. \A n \in ToRecover : Readable(n) \in SUBSET Entry
        BY <2>1, ReadableIs DEF TypeOK
    <2>3. CASE \E t \in Thread : th[t].pc \in LogPc /\ th[t].count > 0
        <3>1. PICK t \in Thread : th[t].pc \in LogPc /\ th[t].count > 0
            BY <2>3
        <3>2. Grouped(t)
            BY <3>1 DEF CallerInv, GroupInv, LogPc, WorkPc
        <3>3. lastSequence \in Nat /\ th[t].count \in Nat /\ lastSequence + th[t].count \in Nat
            BY FileTypes, CallerTypes DEF TypeOK
        <3>4. \A e : Logged(e) => e[2] <= lastSequence + th[t].count
            <4> TAKE e
            <4> HAVE Logged(e)
            <4>1. PICK u \in Thread : th[u].pc \in LogPc /\ e \in Entries(u)
                BY DEF Logged, Pending, LogPc
            <4>2. u = t
                BY <3>1, <4>1, OneHead DEF CallerInv, LogPc, HeadPc
            <4>3. QED
                BY <3>2, <4>1, <4>2, NoneAssumption, EntriesAre
        <3>5. ASSUME NEW n \in ToRecover, NEW e \in Readable(n)
              PROVE  e[2] <= lastSequence + th[t].count
            <4>1. e[2] \in Nat
                BY <2>2, <3>5, FileTypes DEF TypeOK
            <4>2. e[2] <= lastSequence \/ Logged(e)
                BY <1>2, <2>1, <3>5 DEF SeqInv
            <4>3. QED
                BY <3>3, <3>4, <4>1, <4>2
        <3>6. QED
            BY <3>3, <3>5
    <2>4. CASE ~\E t \in Thread : th[t].pc \in LogPc /\ th[t].count > 0
        <3>1. \A e : ~Logged(e)
            BY <2>4 DEF Logged, Pending, LogPc
        <3>2. \A n \in ToRecover : \A e \in Readable(n) : e[2] <= lastSequence
            BY <1>2, <2>1, <3>1 DEF SeqInv
        <3>3. QED
            BY <3>2, FileTypes DEF TypeOK
    <2>5. QED
        BY <2>3, <2>4
<1>3. QED
    BY <1>1, <1>2

\* Whatever was acknowledged is in what recovery will read, however the process ends.
LEMMA EndStep ==
    ASSUME TypeOK, CallerInv, FileInv, DataInv, ProcessEnds,
           used' \in [write : Nat, compact : Nat, fail : Nat, crash : Nat], used'.write = used.write,
           lostPower' \in BOOLEAN, lostPower => lostPower',
           DOMAIN logs' = DOMAIN logs, logs' \in [DOMAIN logs -> LogState],
           \A n \in DOMAIN logs : /\ logs'[n].synced <= Len(logs'[n].recs)
                                  /\ \A e : e \in Readable(n)' => e \in Readable(n)
                                  /\ \A e : e \in Durable(n)' <=> e \in Durable(n)
                                  /\ ~lostPower' => \A e : e \in Readable(n) => e \in Readable(n)'
    PROVE  TypeOK' /\ CallerInv' /\ BgInv' /\ FileInv' /\ OpeningInv' /\ DataInv'
<1>1. /\ mutex' = None /\ writers' = <<>> /\ mem' = {} /\ imm' = None
      /\ th' = [t \in Thread |-> Idle] /\ bgError' = FALSE /\ bg' = Unscheduled /\ manual' = None
      /\ phase' = "down" /\ logfile' = logfile /\ nextFile' = nextFile
      /\ lastSequence' = lastSequence /\ version' = version /\ manifest' = manifest
      /\ acked' = acked /\ synced' = synced /\ spoiled' = spoiled
    BY DEF ProcessEnds, fileState
<1>2. CallerInv' /\ CallerTypeOK'
    <2>1. CallerInv' /\ th' \in [Thread -> ThreadState] /\ writers' \in Seq(Thread)
        BY NoneAssumption, EndKeeps
    <2>2. QED
        BY <1>1, <2>1 DEF CallerTypeOK
<1>3. FileTypeOK'
    <2>1. Unscheduled \in BgState /\ MemTypeOK'
        BY <1>1 DEF Unscheduled, BgState, NoEdit, EditState, Entry, MemTypeOK
    <2>2. QED
        BY <1>1, <2>1 DEF TypeOK, FileTypeOK
<1>4. ~Operating' /\ ImmEntries' = {}
    BY <1>1 DEF Operating, ImmEntries
<1>5. BgInv' /\ FileInv' /\ OpeningInv'
    <2>1. BgInv'
        BY <1>1 DEF BgInv, Unscheduled
    <2>2. FileInv'
        BY <1>1, <1>4 DEF FileInv
    <2>3. OpeningInv'
        BY <1>1 DEF OpeningInv
    <2>4. QED
        BY <2>1, <2>2, <2>3
<1>6. \A n : n \in ToRecover' <=> n \in ToRecover
    BY <1>1 DEF ToRecover
<1>7. \A n \in ToRecover : n \in DOMAIN logs
    BY DEF ToRecover
<1>8. SeqInv'
    <2>1. PICK b \in Nat : \A n \in ToRecover : \A e \in Readable(n) : e[2] <= b
        BY SeqBounded DEF DataInv
    <2>2. \A n \in ToRecover' : \A e \in Readable(n)' : e[2] <= b
        BY <1>6, <1>7, <2>1
    <2>3. \A e \in manifest.tables : e[2] <= manifest.seq
        BY DEF DataInv, SeqInv
    <2>4. QED
        BY <1>1, <1>4, <2>2, <2>3 DEF SeqInv
<1>9. UniqueInv'
    <2>1. ASSUME NEW e, Present(e)'
          PROVE  Present(e)
        <3>1. e \in manifest.tables \/ \E n \in DOMAIN logs : n >= manifest.log /\ e \in Readable(n)
            BY <1>1, <1>4, <2>1 DEF Present
        <3>2. CASE Operating
            <4>1. version.log <= manifest.log /\ version.log \in Nat /\ manifest.log \in Nat
                BY <3>2, FileTypes DEF FileInv, TypeOK
            <4>2. \A n \in DOMAIN logs : n >= manifest.log => n >= version.log
                BY <4>1 DEF TypeOK, FileTypeOK
            <4>3. QED
                BY <3>1, <3>2, <4>2 DEF Present
        <3>3. QED
            BY <3>1, <3>2 DEF Present
    <2>2. QED
        BY <2>1, UniqueKept DEF DataInv
<1>10. IdInv' /\ AckedInv' /\ BackedInv'
    <2>1. Len(writers') = 0 /\ \A i \in 1..0 : FALSE
        BY <1>1
    <2>2. QED
        BY <1>1, <1>4, <2>1 DEF IdInv, BackedInv, AckedInv, DataInv
<1>11. WorkInv'
    BY <1>1 DEF WorkInv, HasLogged, Idle
<1>12. /\ \A e : RecoveredSynced(e) => RecoveredSynced(e)'
       /\ ~lostPower' => \A e : Recovered(e) => Recovered(e)'
    BY <1>1, <1>6, <1>7 DEF Recovered, RecoveredSynced
<1>13. \A e \in Visible : e \in Entry
    BY FileTypes DEF Visible, TypeOK
<1>14. ASSUME Operating, NEW e \in Visible, e[1] \notin spoiled
       PROVE  Recovered(e) /\ (e[1] \in synced => RecoveredSynced(e))
    <2>1. e \in mem \/ e \in version.tables \/ e \in ImmEntries
        BY DEF Visible, ImmEntries
    <2>2. logfile \in ToRecover /\ version.tables \subseteq manifest.tables
        BY <1>14, FileTypes DEF ToRecover, FileInv, Operating, TypeOK
    <2>3. QED
        BY <1>14, <2>1, <2>2 DEF DataInv, BackedInv, Recovered, RecoveredSynced
<1>15. ASSUME NEW i \in acked \ spoiled, ~lostPower'
       PROVE  \E e \in Entry : e[1] = i /\ Recovered(e)
    <2>1. CASE Operating
        <3>1. i \in Ids(Visible)
            BY <1>15, <2>1 DEF DataInv, SurviveInv, AckedSurvive
        <3>2. PICK e \in Visible : e[1] = i
            BY <3>1 DEF Ids
        <3>3. QED
            BY <1>13, <1>14, <1>15, <2>1, <3>2
    <2>2. CASE ~Operating
        BY <1>15, <2>2 DEF DataInv, SurviveInv
    <2>3. QED
        BY <2>1, <2>2
<1>16. ASSUME NEW i \in synced \ spoiled
       PROVE  \E e \in Entry : e[1] = i /\ RecoveredSynced(e)
    <2>1. CASE Operating
        <3>1. i \in Ids(Visible)
            BY <1>16, <2>1 DEF DataInv, SurviveInv, AckedSurvive, TypeOK, FileTypeOK
        <3>2. PICK e \in Visible : e[1] = i
            BY <3>1 DEF Ids
        <3>3. QED
            BY <1>13, <1>14, <1>16, <2>1, <3>2
    <2>2. CASE ~Operating
        BY <1>16, <2>2 DEF DataInv, SurviveInv
    <2>3. QED
        BY <2>1, <2>2
<1>17. SurviveInv'
    <2>1. ~lostPower' => \A i \in acked \ spoiled : \E e \in Entry : e[1] = i /\ Recovered(e)'
        BY <1>12, <1>15
    <2>2. \A i \in synced \ spoiled : \E e \in Entry : e[1] = i /\ RecoveredSynced(e)'
        BY <1>12, <1>16
    <2>3. QED
        BY <1>1, <1>4, <2>1, <2>2 DEF SurviveInv, AckedSurvive
<1>18. QED
    BY <1>2, <1>3, <1>5, <1>8, <1>9, <1>10, <1>11, <1>17 DEF DataInv, TypeOK

\* Logs that are cut behind what was synced: what is read is less, what was synced the same.
LEMMA LogsCut ==
    ASSUME FileTypeOK, NEW cut, \A n \in DOMAIN logs : cut[n] \in logs[n].synced..Len(logs[n].recs),
           logs' = [n \in DOMAIN logs |-> [logs[n] EXCEPT !.recs = SubSeq(@, 1, cut[n])]]
    PROVE  /\ DOMAIN logs' = DOMAIN logs /\ logs' \in [DOMAIN logs -> LogState]
           /\ \A n \in DOMAIN logs : /\ logs'[n].synced <= Len(logs'[n].recs)
                                     /\ \A e : e \in Readable(n)' => e \in Readable(n)
                                     /\ \A e : e \in Durable(n)' <=> e \in Durable(n)
<1>1. ASSUME NEW n \in DOMAIN logs
      PROVE  /\ logs'[n] \in LogState /\ logs'[n].synced <= Len(logs'[n].recs)
             /\ \A e : e \in Readable(n)' => e \in Readable(n)
             /\ \A e : e \in Durable(n)' <=> e \in Durable(n)
    <2> DEFINE r == logs[n].recs
               q == SubSeq(r, 1, cut[n])
    <2>1. /\ r \in Seq(SUBSET Entry) /\ logs[n].synced \in 0..Len(r) /\ logs[n] \in LogState
          /\ Readable(n) = ReadTo(r, Len(r))
        BY <1>1, ReadableIs
    <2>2. cut[n] \in 0..Len(r) /\ logs[n].synced \in 0..cut[n]
        BY <1>1, <2>1
    <2>3. logs'[n] = [logs[n] EXCEPT !.recs = q]
        BY <1>1
    <2> HIDE DEF r
    <2>4. q \in Seq(SUBSET Entry) /\ Len(q) = cut[n]
        BY <2>1, <2>2
    <2>5. \A e : /\ e \in ReadTo(q, cut[n]) => e \in ReadTo(r, Len(r))
                 /\ e \in ReadTo(q, logs[n].synced) <=> e \in ReadTo(r, logs[n].synced)
        BY <2>1, <2>2, ReadCut
    <2> HIDE DEF q
    <2>6. logs'[n].recs = q /\ logs'[n].synced = logs[n].synced /\ logs'[n] \in LogState
        BY <2>1, <2>3, <2>4 DEF LogState
    <2>7. \A e : e \in Durable(n)' <=> e \in Durable(n)
        BY <2>5, <2>6 DEF Durable, r
    <2>8. DOMAIN q = 1..Len(q)
        BY <2>4
    <2>9. \A e : e \in Readable(n)' <=> e \in ReadTo(q, Len(q))
        <3>1. \A e : e \in Readable(n)' <=> \E i \in DOMAIN q : e \in q[i] /\ \A j \in 1..i : q[j] # {}
            BY <2>6 DEF Readable
        <3>2. QED
            BY <2>8, <3>1 DEF ReadTo
    <2>10. \A e : e \in Readable(n)' => e \in Readable(n)
        BY <2>1, <2>4, <2>5, <2>9
    <2>11. QED
        BY <2>2, <2>4, <2>6, <2>7, <2>10
<1>2. DOMAIN logs' = DOMAIN logs /\ logs' = [n \in DOMAIN logs |-> logs'[n]]
    OBVIOUS
<1>3. logs' \in [DOMAIN logs -> LogState]
    BY <1>1, <1>2
<1>4. QED
    BY <1>1, <1>2, <1>3

\* A crash of the process or of the machine, a NULL pointer, or the destructor.
LEMMA EndSteps ==
    ASSUME TypeOK, CallerInv, FileInv, DataInv,
           \/ ProcessCrash \/ MachineCrash \/ ReadsNull
           \/ \E t \in Thread : Destroyed(t) /\ bg.pc = "none"
    PROVE  TypeOK' /\ CallerInv' /\ BgInv' /\ FileInv' /\ OpeningInv' /\ DataInv'
<1>1. ProcessEnds
    BY DEF ProcessCrash, MachineCrash, ReadsNull, Destroyed
<1>2. /\ used' \in [write : Nat, compact : Nat, fail : Nat, crash : Nat]
      /\ used'.write = used.write
    <2>1. used' = used \/ Use("crash", MaxCrash)
        BY DEF ProcessCrash, MachineCrash, ReadsNull, Destroyed
    <2>2. QED
        BY <2>1, UseCounts DEF TypeOK, CallerTypeOK
<1>3. lostPower \in BOOLEAN /\ logs \in [DOMAIN logs -> LogState]
      /\ \A n \in DOMAIN logs : logs[n].synced <= Len(logs[n].recs)
    BY DEF TypeOK, FileTypeOK
<1>4. CASE logs' = logs /\ lostPower' = lostPower
    <2>1. \A n : Readable(n)' = Readable(n) /\ Durable(n)' = Durable(n)
        BY <1>4 DEF Readable, Durable
    <2>2. QED
        BY <1>1, <1>2, <1>3, <1>4, <2>1, EndStep
<1>5. CASE MachineCrash
    <2>1. PICK cut : /\ \A n \in DOMAIN logs : cut[n] \in logs[n].synced..Len(logs[n].recs)
                     /\ logs' = [n \in DOMAIN logs |-> [logs[n] EXCEPT !.recs = SubSeq(@, 1, cut[n])]]
        BY <1>5 DEF MachineCrash
    <2>2. lostPower' = TRUE
        BY <1>5 DEF MachineCrash
    <2>3. /\ DOMAIN logs' = DOMAIN logs /\ logs' \in [DOMAIN logs -> LogState]
          /\ \A n \in DOMAIN logs : /\ logs'[n].synced <= Len(logs'[n].recs)
                                    /\ \A e : e \in Readable(n)' => e \in Readable(n)
                                    /\ \A e : e \in Durable(n)' <=> e \in Durable(n)
        BY <2>1, LogsCut DEF TypeOK
    <2>4. QED
        BY <1>1, <1>2, <2>2, <2>3, EndStep
<1>6. QED
    BY <1>4, <1>5 DEF ProcessCrash, ReadsNull, Destroyed

-----------------------------------------------------------------------------
(* DB::Open *)

\* The number of the new log is beyond every one in use, and the numbers found are bounded.
LEMMA NextNumberIs ==
    ASSUME TypeOK, FileInv
    PROVE  /\ NextNumber \in Nat /\ manifest.next <= NextNumber /\ manifest.log < NextNumber
           /\ \A n \in DOMAIN logs : n < NextNumber
<1> DEFINE N == {manifest.next} \union {n + 1 : n \in ToRecover}
           b == manifest.next + logfile + 1
<1>1. manifest.next \in Nat /\ manifest.log \in Nat /\ logfile \in Nat /\ manifest.log < manifest.next
      /\ DOMAIN logs \subseteq 0..logfile
    BY FileTypes DEF TypeOK, FileTypeOK, FileInv
<1>2. \A n \in ToRecover : n \in 0..logfile
    BY <1>1 DEF ToRecover
<1>3. b \in Nat /\ N \in SUBSET (0..b) /\ N # {}
    BY <1>1, <1>2
<1>4. MaxOf(N) \in N /\ \A y \in N : y <= MaxOf(N)
    BY <1>3, MaxOfBounded
<1>5. NextNumber \in Nat /\ manifest.next <= NextNumber
    BY <1>3, <1>4 DEF NextNumber
<1>6. ASSUME NEW n \in DOMAIN logs
      PROVE  n < NextNumber
    <2>1. n \in Nat
        BY <1>1
    <2>2. CASE n >= manifest.log
        <3>1. n \in ToRecover
            BY <2>2 DEF ToRecover
        <3>2. n + 1 \in N
            BY <3>1
        <3>3. n + 1 <= NextNumber
            BY <1>4, <3>2 DEF NextNumber
        <3>4. QED
            BY <1>5, <2>1, <3>3
    <2>3. CASE n < manifest.log
        BY <1>1, <1>5, <2>1, <2>3
    <2>4. QED
        BY <1>1, <2>1, <2>2, <2>3
<1>7. QED
    BY <1>1, <1>5, <1>6

\* Recovery finds everything that is in the logs the manifest does not cover.
LEMMA RecoverStep ==
    ASSUME TypeOK, CallerInv, BgInv, FileInv, DataInv, Recover
    PROVE  TypeOK' /\ CallerInv' /\ BgInv' /\ FileInv' /\ OpeningInv' /\ DataInv'
<1> DEFINE found == UNION {Readable(n) : n \in ToRecover}
           files == Cardinality({n \in ToRecover : Readable(n) # {}})
<1>1. /\ phase = "down" /\ phase' = "recovered" /\ logs' = WithLog(NextNumber)
      /\ logfile' = NextNumber /\ nextFile' = NextNumber + 1
      /\ version' = [log |-> NextNumber, tables |-> manifest.tables \union found,
                     level0 |-> manifest.level0 + files]
      /\ lastSequence' = MaxOf({manifest.seq} \union Seqs(found))
      /\ mutex' = mutex /\ th' = th /\ writers' = writers /\ mem' = mem /\ imm' = imm
      /\ manifest' = manifest /\ bgError' = bgError /\ bg' = bg /\ manual' = manual
      /\ acked' = acked /\ synced' = synced /\ spoiled' = spoiled /\ lostPower' = lostPower
      /\ used' = used
    BY DEF Recover, history
<1>2. ~Operating /\ ~Operating' /\ mem = {} /\ imm = None /\ writers = <<>> /\ bg = Unscheduled
      /\ manual = None /\ th = [t \in Thread |-> Idle]
    BY <1>1 DEF Operating, FileInv
<1>3. /\ NextNumber \in Nat /\ manifest.log < NextNumber /\ \A n \in DOMAIN logs : n < NextNumber
    BY NextNumberIs
<1>4. PICK k \in Nat : k = NextNumber /\ k \notin DOMAIN logs
    BY <1>3
<1>5. /\ DOMAIN logs' = DOMAIN logs \union {k} /\ logs'[k] = EmptyLog
      /\ logs' \in [DOMAIN logs' -> LogState]
      /\ \A m \in DOMAIN logs' : logs'[m].synced <= Len(logs'[m].recs)
      /\ \A m \in DOMAIN logs : Readable(m)' = Readable(m) /\ Durable(m)' = Durable(m)
      /\ \A e : e \notin Readable(k)'
    BY <1>1, <1>4, LogAdded DEF TypeOK
<1>6. /\ ToRecover \in SUBSET DOMAIN logs /\ DOMAIN logs \subseteq 0..logfile /\ logfile \in Nat
      /\ manifest.log \in Nat /\ manifest.seq \in Nat /\ manifest.tables \in SUBSET Entry
      /\ manifest.level0 \in Int
    BY FileTypes DEF ToRecover, TypeOK, FileTypeOK
<1>7. found \in SUBSET Entry
    BY <1>6, ReadableIs DEF TypeOK
<1>8. files \in Nat
    <2>1. {n \in ToRecover : Readable(n) # {}} \in SUBSET (0..logfile)
        BY <1>6
    <2>2. IsFiniteSet(0..logfile)
        BY <1>6, FS_Interval
    <2>3. QED
        BY <2>1, <2>2, FS_Subset, FS_CardinalityType
<1>9. \A e \in found : \E n \in ToRecover : e \in Readable(n)
    OBVIOUS
<1>10. \A n \in ToRecover : \A e \in Readable(n) : e \in found
    OBVIOUS
<1> HIDE DEF found, files
<1>11. /\ lastSequence' \in Nat /\ manifest.seq <= lastSequence'
       /\ \A e \in found : e[2] <= lastSequence'
    <2> DEFINE S == {manifest.seq} \union Seqs(found)
    <2>1. PICK b \in Nat : \A n \in ToRecover : \A e \in Readable(n) : e[2] <= b
        BY SeqBounded DEF DataInv
    <2>2. \A e \in found : e[2] \in Nat /\ e[2] <= b
        BY <1>7, <1>9, <2>1, FileTypes DEF TypeOK
    <2>3. manifest.seq + b \in Nat /\ S \in SUBSET (0..(manifest.seq + b)) /\ S # {}
        BY <1>6, <2>2 DEF Seqs
    <2>4. MaxOf(S) \in S /\ \A y \in S : y <= MaxOf(S)
        BY <2>3, MaxOfBounded
    <2>5. QED
        BY <1>1, <2>3, <2>4 DEF Seqs
<1>12. /\ version'.log = NextNumber /\ version'.tables = manifest.tables \union found
       /\ version' \in [log : Nat, tables : SUBSET Entry, level0 : Int]
    BY <1>1, <1>3, <1>6, <1>7, <1>8
<1>13. TypeOK'
    <2>1. DOMAIN logs' \subseteq 0..logfile' /\ logfile' \in Nat /\ nextFile' \in Nat
        BY <1>1, <1>3, <1>4, <1>5, <1>6
    <2>2. FileTypeOK'
        BY <1>1, <1>5, <1>11, <1>12, <2>1 DEF TypeOK, FileTypeOK, MemTypeOK
    <2>3. CallerTypeOK'
        BY <1>1 DEF TypeOK, CallerTypeOK
    <2>4. QED
        BY <2>2, <2>3 DEF TypeOK
<1>14. CallerInv' /\ BgInv'
    <2>1. CallerInv'
        <3>1. QueueInv'
            BY <1>1 DEF CallerInv, QueueInv
        <3>2. GroupInv' /\ BatchInv'
            BY <1>1, <1>2 DEF CallerInv, GroupInv, BatchInv, Idle, WorkPc
        <3>3. QED
            BY <3>1, <3>2 DEF CallerInv
    <2>2. BgInv'
        BY <1>1, <1>2 DEF BgInv, Unscheduled
    <2>3. QED
        BY <2>1, <2>2
<1>15. \A n : n \in ToRecover' <=> n \in ToRecover \/ n = k
    BY <1>1, <1>3, <1>4, <1>5, <1>6 DEF ToRecover
<1>16. \A e : /\ Recovered(e)' <=> Recovered(e)
              /\ RecoveredSynced(e) => RecoveredSynced(e)'
    BY <1>1, <1>5, <1>6, <1>15 DEF Recovered, RecoveredSynced
<1>17. FileInv' /\ OpeningInv'
    <2>1. FileInv'
        BY <1>1, <1>2, <1>3, <1>4, <1>5 DEF FileInv
    <2>2. \A e \in Entry : e \in version'.tables <=> Recovered(e)'
        BY <1>9, <1>10, <1>12, <1>16 DEF Recovered
    <2>3. OpeningInv'
        BY <1>1, <1>3, <1>4, <1>5, <1>11, <1>12, <2>2 DEF OpeningInv
    <2>4. QED
        BY <2>1, <2>3
<1>18. ImmEntries' = {} /\ mem' = {}
    BY <1>1, <1>2 DEF ImmEntries
<1>19. SeqInv'
    <2>1. PICK b \in Nat : \A n \in ToRecover : \A e \in Readable(n) : e[2] <= b
        BY SeqBounded DEF DataInv
    <2>2. \A n \in ToRecover' : \A e \in Readable(n)' : e[2] <= b
        BY <1>5, <1>6, <1>15, <2>1
    <2>3. \A e \in manifest.tables : e[2] <= manifest.seq
        BY DEF DataInv, SeqInv
    <2>4. \A e \in version'.tables : e[2] <= lastSequence'
        <3> TAKE e \in version'.tables
        <3>1. CASE e \in manifest.tables
            <4>1. e[2] <= manifest.seq /\ e[2] \in Nat
                BY <1>6, <2>3, <3>1, FileTypes DEF TypeOK
            <4>2. QED
                BY <1>6, <1>11, <4>1
        <3>2. CASE e \in found
            BY <1>11, <3>2
        <3>3. QED
            BY <1>12, <3>1, <3>2
    <2>5. QED
        BY <1>1, <1>2, <1>18, <2>2, <2>3, <2>4 DEF SeqInv
<1>20. UniqueInv'
    <2>1. ASSUME NEW e, Present(e)'
          PROVE  Present(e)
        <3>1. e \in manifest.tables \/ \E n \in DOMAIN logs' : n >= manifest.log /\ e \in Readable(n)'
            BY <1>1, <1>2, <1>18, <2>1 DEF Present
        <3>2. QED
            BY <1>2, <1>5, <3>1 DEF Present
    <2>2. QED
        BY <2>1, UniqueKept DEF DataInv
<1>21. IdInv' /\ AckedInv' /\ BackedInv' /\ WorkInv'
    <2>1. AckedInv'
        BY <1>1 DEF DataInv, AckedInv
    <2>2. IdInv' /\ BackedInv'
        BY <1>18 DEF IdInv, BackedInv
    <2>3. WorkInv'
        BY <1>1, <1>2 DEF WorkInv, HasLogged, Idle
    <2>4. QED
        BY <2>1, <2>2, <2>3
<1>22. SurviveInv'
    <2>1. AckedSurvive'
        BY <1>2 DEF AckedSurvive
    <2>2. QED
        BY <1>1, <1>2, <1>16, <2>1 DEF DataInv, SurviveInv
<1>23. QED
    BY <1>13, <1>14, <1>17, <1>19, <1>20, <1>21, <1>22 DEF DataInv

\* The new manifest has what was recovered; no older log is needed from here on.
LEMMA SetCurrentStep ==
    ASSUME TypeOK, CallerInv, BgInv, FileInv, OpeningInv, DataInv, SetCurrent
    PROVE  TypeOK' /\ CallerInv' /\ BgInv' /\ FileInv' /\ OpeningInv' /\ DataInv'
<1>1. /\ phase = "recovered" /\ phase' = "committed"
      /\ manifest' = Saved(version, lastSequence, nextFile)
      /\ logs' = logs /\ logfile' = logfile /\ nextFile' = nextFile
      /\ lastSequence' = lastSequence /\ version' = version
      /\ mutex' = mutex /\ th' = th /\ writers' = writers /\ mem' = mem /\ imm' = imm
      /\ bgError' = bgError /\ bg' = bg /\ manual' = manual
      /\ acked' = acked /\ synced' = synced /\ spoiled' = spoiled /\ lostPower' = lostPower
      /\ used' = used
    BY DEF SetCurrent, logState, history
<1>2. ~Operating /\ ~Operating' /\ mem = {} /\ imm = None /\ writers = <<>> /\ bg = Unscheduled
      /\ manual = None /\ th = [t \in Thread |-> Idle] /\ logfile \in DOMAIN logs /\ logfile < nextFile
    BY <1>1 DEF Operating, FileInv
<1>3. /\ version.log = logfile /\ manifest.log < logfile
      /\ \A e \in Entry : e \in version.tables <=> Recovered(e)
      /\ logs[logfile] = EmptyLog
    BY <1>1 DEF OpeningInv
<1>4. /\ version.log \in Nat /\ version.tables \in SUBSET Entry /\ version.level0 \in Int
      /\ lastSequence \in Nat /\ nextFile \in Nat /\ logfile \in Nat /\ DOMAIN logs \subseteq 0..logfile
    BY FileTypes DEF TypeOK, FileTypeOK
<1>5. /\ manifest'.log = logfile /\ manifest'.tables = version.tables
      /\ manifest'.seq = lastSequence /\ manifest'.next = nextFile
      /\ manifest' \in [log : Nat, tables : SUBSET Entry, level0 : Int, seq : Nat, next : Nat]
    BY <1>1, <1>3, <1>4 DEF Saved
<1>6. TypeOK' /\ CallerInv' /\ BgInv'
    <2>1. TypeOK'
        BY <1>1, <1>5 DEF TypeOK, CallerTypeOK, FileTypeOK, MemTypeOK
    <2>2. CallerInv'
        <3>1. QueueInv'
            BY <1>1 DEF CallerInv, QueueInv
        <3>2. GroupInv' /\ BatchInv'
            BY <1>1, <1>2 DEF CallerInv, GroupInv, BatchInv, Idle, WorkPc
        <3>3. QED
            BY <3>1, <3>2 DEF CallerInv
    <2>3. BgInv'
        BY <1>1, <1>2 DEF BgInv, Unscheduled
    <2>4. QED
        BY <2>1, <2>2, <2>3
<1>7. FileInv' /\ OpeningInv'
    <2>1. FileInv'
        BY <1>1, <1>2, <1>5 DEF FileInv
    <2>2. OpeningInv'
        BY <1>1, <1>3, <1>5 DEF OpeningInv
    <2>3. QED
        BY <2>1, <2>2
<1>8. \A n \in DOMAIN logs : n >= manifest'.log => Readable(n)' = {}
    <2>1. \A n \in DOMAIN logs : n >= manifest'.log => n = logfile
        BY <1>4, <1>5
    <2>2. PICK l \in DOMAIN logs : l = logfile
        BY <1>2
    <2>3. EmptyLog.recs = <<>>
        BY DEF EmptyLog
    <2>4. Readable(l)' = {}
        BY <1>1, <1>3, <2>2, <2>3 DEF Readable
    <2>5. QED
        BY <2>1, <2>2, <2>4
<1>9. ImmEntries' = {} /\ mem' = {}
    BY <1>1, <1>2 DEF ImmEntries
<1>10. SeqInv'
    <2>1. \A e \in version.tables : e[2] <= lastSequence
        BY <1>1 DEF DataInv, SeqInv
    <2>2. \A n \in ToRecover' : \A e \in Readable(n)' : e[2] <= 0
        BY <1>1, <1>8 DEF ToRecover
    <2>3. QED
        BY <1>1, <1>2, <1>5, <1>9, <2>1, <2>2 DEF SeqInv
<1>11. UniqueInv'
    <2>1. ASSUME NEW e \in Entry, Present(e)'
          PROVE  Present(e)
        <3>1. e \in version.tables
            BY <1>1, <1>2, <1>5, <1>8, <1>9, <2>1 DEF Present
        <3>2. Recovered(e)
            BY <1>3, <3>1
        <3>3. QED
            BY <1>2, <3>2 DEF Recovered, Present, ToRecover
    <2>2. QED
        BY <2>1 DEF DataInv, UniqueInv
<1>12. IdInv' /\ AckedInv' /\ BackedInv' /\ WorkInv'
    <2>1. AckedInv'
        BY <1>1 DEF DataInv, AckedInv
    <2>2. IdInv' /\ BackedInv'
        BY <1>9 DEF IdInv, BackedInv
    <2>3. WorkInv'
        BY <1>1, <1>2 DEF WorkInv, HasLogged, Idle
    <2>4. QED
        BY <2>1, <2>2, <2>3
<1>13. SurviveInv'
    <2>1. \A n \in ToRecover : Durable(n) \subseteq Readable(n)
        BY ReadableIs DEF ToRecover, TypeOK
    <2>2. \A e \in Entry : Recovered(e) => Recovered(e)' /\ RecoveredSynced(e)'
        BY <1>3, <1>5 DEF Recovered, RecoveredSynced
    <2>3. \A e \in Entry : RecoveredSynced(e) => Recovered(e)
        BY <2>1 DEF Recovered, RecoveredSynced
    <2>4. AckedSurvive'
        BY <1>2 DEF AckedSurvive
    <2>5. QED
        BY <1>1, <1>2, <2>2, <2>3, <2>4 DEF DataInv, SurviveInv
<1>14. QED
    BY <1>6, <1>7, <1>10, <1>11, <1>12, <1>13 DEF DataInv

\* The database is open: what was recovered is in tables, and the new log is empty.
LEMMA OpenedStep ==
    ASSUME TypeOK, CallerInv, BgInv, FileInv, OpeningInv, DataInv, Opened
    PROVE  TypeOK' /\ CallerInv' /\ BgInv' /\ FileInv' /\ OpeningInv' /\ DataInv'
<1>1. /\ phase = "committed" /\ phase' = "open" /\ logs' = LogsKept(version, FALSE)
      /\ bg' = Schedule(bg, FALSE, None, None, version.level0)
      /\ manifest' = manifest /\ logfile' = logfile /\ nextFile' = nextFile
      /\ lastSequence' = lastSequence /\ version' = version
      /\ mutex' = mutex /\ th' = th /\ writers' = writers /\ mem' = mem /\ imm' = imm
      /\ bgError' = bgError /\ manual' = manual
      /\ acked' = acked /\ synced' = synced /\ spoiled' = spoiled /\ lostPower' = lostPower
      /\ used' = used
    BY DEF Opened, fileState, history
<1>2. ~Operating /\ Operating' /\ mem = {} /\ imm = None /\ writers = <<>> /\ bg = Unscheduled
      /\ manual = None /\ th = [t \in Thread |-> Idle] /\ logfile \in DOMAIN logs /\ logfile < nextFile
      /\ manifest.log < manifest.next
    BY <1>1 DEF Operating, FileInv
<1>3. /\ version.log = logfile /\ manifest.log = logfile /\ version.tables = manifest.tables
      /\ manifest.seq = lastSequence /\ logs[logfile] = EmptyLog
    BY <1>1 DEF OpeningInv
<1>4. /\ version.log \in Nat /\ version.tables \in SUBSET Entry
      /\ lastSequence \in Nat /\ logfile \in Nat /\ DOMAIN logs \subseteq 0..logfile
    BY FileTypes DEF TypeOK, FileTypeOK
<1>5. PICK k \in Nat : k = version.log
    BY <1>4
<1>6. /\ \A n \in DOMAIN logs' : n \in DOMAIN logs
      /\ \A n \in DOMAIN logs : n >= k => n \in DOMAIN logs'
      /\ logs' \in [DOMAIN logs' -> LogState]
      /\ \A n \in DOMAIN logs' : /\ logs'[n].synced <= Len(logs'[n].recs)
                                 /\ Readable(n)' = Readable(n) /\ Durable(n)' = Durable(n)
    BY <1>1, <1>5, LogsDropped DEF LogsKept, TypeOK
<1>7. \A n \in DOMAIN logs : n >= logfile => Readable(n) = {}
    <2>1. \A n \in DOMAIN logs : n >= logfile => n = logfile
        BY <1>4
    <2>2. PICK l \in DOMAIN logs : l = logfile
        BY <1>2
    <2>3. EmptyLog.recs = <<>>
        BY DEF EmptyLog
    <2>4. Readable(l) = {}
        BY <1>3, <2>2, <2>3 DEF Readable
    <2>5. QED
        BY <2>1, <2>2, <2>4
<1>8. bg' \in BgState /\ BgInv'
    <2>1. bg'.pc \in {"none", "start"} /\ ~bg'.memtable /\ bg' \in BgState
        BY <1>1, <1>2, BgRests
    <2>2. QED
        BY <2>1 DEF BgInv
<1>9. TypeOK' /\ CallerInv'
    <2>1. DOMAIN logs' \subseteq 0..logfile
        BY <1>4, <1>6
    <2>2. TypeOK'
        BY <1>1, <1>6, <1>8, <2>1 DEF TypeOK, CallerTypeOK, FileTypeOK, MemTypeOK
    <2>3. QueueInv'
        BY <1>1 DEF CallerInv, QueueInv
    <2>4. GroupInv' /\ BatchInv'
        BY <1>1, <1>2 DEF CallerInv, GroupInv, BatchInv, Idle, WorkPc
    <2>5. QED
        BY <2>2, <2>3, <2>4 DEF CallerInv
<1>10. FileInv' /\ OpeningInv'
    <2>1. logfile \in DOMAIN logs' /\ logfile <= logfile /\ lastSequence <= lastSequence
        BY <1>2, <1>3, <1>4, <1>5, <1>6
    <2>2. FileInv'
        BY <1>1, <1>2, <1>3, <2>1 DEF FileInv
    <2>3. OpeningInv'
        BY <1>1 DEF OpeningInv
    <2>4. QED
        BY <2>2, <2>3
<1>11. ImmEntries' = {} /\ mem' = {}
    BY <1>1, <1>2 DEF ImmEntries
<1>12. SeqInv'
    <2>1. \A e \in manifest.tables : e[2] <= manifest.seq
        BY DEF DataInv, SeqInv
    <2>2. \A n \in DOMAIN logs' : n >= version.log => Readable(n)' = {}
        BY <1>3, <1>6, <1>7
    <2>3. QED
        BY <1>1, <1>2, <1>11, <2>1, <2>2 DEF SeqInv
<1>13. UniqueInv'
    <2>1. ASSUME NEW e, Present(e)'
          PROVE  Present(e)
        <3>1. e \in manifest.tables
            BY <1>1, <1>2, <1>3, <1>6, <1>7, <1>11, <2>1 DEF Present
        <3>2. QED
            BY <3>1 DEF Present
    <2>2. QED
        BY <2>1, UniqueKept DEF DataInv
<1>14. IdInv' /\ AckedInv' /\ BackedInv' /\ WorkInv'
    <2>1. AckedInv'
        BY <1>1 DEF DataInv, AckedInv
    <2>2. IdInv' /\ BackedInv'
        BY <1>11 DEF IdInv, BackedInv
    <2>3. WorkInv'
        BY <1>1, <1>2 DEF WorkInv, HasLogged, Idle
    <2>4. QED
        BY <2>1, <2>2, <2>3
<1>15. SurviveInv'
    <2>1. \A n \in ToRecover : n \in DOMAIN logs /\ Readable(n) = {} /\ Durable(n) = {}
        BY <1>3, <1>7, ReadableIs DEF ToRecover, TypeOK
    <2>2. \A e \in Entry : Recovered(e) \/ RecoveredSynced(e) => e \in version.tables
        BY <1>3, <2>1 DEF Recovered, RecoveredSynced
    <2>3. version.tables \subseteq Visible'
        BY <1>1 DEF Visible
    <2>4. \A i : (\E e \in Entry : e[1] = i /\ (Recovered(e) \/ RecoveredSynced(e))) => i \in Ids(Visible')
        BY <2>2, <2>3 DEF Ids
    <2>5. (IF lostPower THEN synced ELSE acked) \ spoiled \subseteq Ids(Visible')
        BY <1>2, <2>4 DEF DataInv, SurviveInv
    <2>6. QED
        BY <1>1, <1>2, <2>5 DEF SurviveInv, AckedSurvive, Ids
<1>16. QED
    BY <1>8, <1>9, <1>10, <1>12, <1>13, <1>14, <1>15 DEF DataInv

-----------------------------------------------------------------------------
(* The invariant *)

\* A new database has it.
LEMMA InitIInv ==
    ASSUME Init
    PROVE  IInv
<1>1. /\ mutex = None /\ th = [t \in Thread |-> Idle] /\ writers = <<>> /\ mem = {} /\ imm = None
      /\ logs = [n \in {1} |-> EmptyLog] /\ logfile = 1 /\ nextFile = 2 /\ lastSequence = 0
      /\ version = [log |-> 1, tables |-> {}, level0 |-> 0]
      /\ manifest = [log |-> 1, tables |-> {}, level0 |-> 0, seq |-> 0, next |-> 2]
      /\ bgError = FALSE /\ bg = Unscheduled /\ manual = None /\ phase = "open"
      /\ acked = {} /\ synced = {} /\ spoiled = {} /\ lostPower = FALSE
      /\ used = [write |-> 0, compact |-> 0, fail |-> 0, crash |-> 0]
    BY DEF Init
<1>2. Operating /\ ImmEntries = {}
    BY <1>1 DEF Operating, ImmEntries
<1>3. Idle \in ThreadState /\ Outside(Idle) /\ Idle.pc = "idle"
    BY ReturnedOutside DEF Idle
<1>4. TypeOK
    <2>1. CallerTypeOK
        BY <1>1, <1>3 DEF CallerTypeOK
    <2>2. Unscheduled \in BgState /\ MemTypeOK
        BY <1>1 DEF Unscheduled, BgState, NoEdit, EditState, Entry, MemTypeOK
    <2>3. EmptyLog \in LogState /\ EmptyLog.synced <= Len(EmptyLog.recs)
        BY DEF EmptyLog, LogState
    <2>4. DOMAIN logs \subseteq 0..logfile /\ logs \in [DOMAIN logs -> LogState]
          /\ \A n \in DOMAIN logs : logs[n].synced <= Len(logs[n].recs)
        BY <1>1, <2>3
    <2>5. /\ version \in [log : Nat, tables : SUBSET Entry, level0 : Int]
          /\ manifest \in [log : Nat, tables : SUBSET Entry, level0 : Int, seq : Nat, next : Nat]
        BY <1>1
    <2>6. acked \in SUBSET Nat /\ synced \in SUBSET acked /\ spoiled \in SUBSET Nat
        BY <1>1
    <2>7. logfile \in Nat /\ nextFile \in Nat /\ lastSequence \in Nat /\ lostPower \in BOOLEAN
          /\ bgError \in BOOLEAN /\ phase \in {"open", "closing", "down", "recovered", "committed"}
        BY <1>1
    <2>8. MemTypeOK /\ bg \in BgState
        BY <1>1, <2>2
    <2>9. FileTypeOK
        BY <2>4, <2>5, <2>6, <2>7, <2>8 DEF FileTypeOK
    <2>10. QED
        BY <2>1, <2>9 DEF TypeOK
<1>5. CallerInv
    <2>1. \A t \in Thread : th[t] = Idle
        BY <1>1
    <2>2. QueueInv
        BY <1>1, <1>3, <2>1 DEF QueueInv, InQueue, Outside, QueuePc, HeadPc
    <2>3. GroupInv /\ BatchInv
        BY <1>3, <2>1 DEF GroupInv, BatchInv, Outside, WorkPc
    <2>4. QED
        BY <2>2, <2>3 DEF CallerInv
<1>6. BgInv /\ FileInv /\ OpeningInv
    BY <1>1, <1>2 DEF BgInv, FileInv, OpeningInv, Unscheduled
<1>7. \A n \in DOMAIN logs : Readable(n) = {}
    <2>1. \A n \in DOMAIN logs : logs[n].recs = <<>>
        BY <1>1 DEF EmptyLog
    <2>2. QED
        BY <2>1 DEF Readable
<1>8. DataInv
    <2>1. SeqInv /\ UniqueInv
        BY <1>1, <1>2, <1>7 DEF SeqInv, UniqueInv, Present
    <2>2. IdInv /\ AckedInv /\ BackedInv
        BY <1>1, <1>2 DEF IdInv, AckedInv, BackedInv
    <2>3. WorkInv
        BY <1>1, <1>3 DEF WorkInv, HasLogged
    <2>4. SurviveInv
        BY <1>1, <1>2 DEF SurviveInv, AckedSurvive
    <2>5. QED
        BY <2>1, <2>2, <2>3, <2>4 DEF DataInv
<1>9. QED
    BY <1>4, <1>5, <1>6, <1>8 DEF IInv

\* A step that changes nothing keeps all of it.
LEMMA StutterIInv ==
    ASSUME IInv, UNCHANGED vars
    PROVE  IInv'
<1>1. DataSame /\ CallerTypeOK' /\ FileTypeOK'
    BY DEF vars, DataSame, IInv, TypeOK, CallerTypeOK, FileTypeOK, MemTypeOK
<1>2. /\ th' = th /\ writers' = writers /\ manual' = manual /\ used' = used /\ phase' = phase
      /\ bg' = bg /\ bgError' = bgError /\ lastSequence' = lastSequence
    BY DEF vars
<1>3. CallerInv'
    <2>1. QueueInv'
        BY <1>2 DEF IInv, CallerInv, QueueInv
    <2>2. GroupInv' /\ BatchInv'
        <3>1. \A t \in Thread : Grouped(t)' <=> Grouped(t)
            BY <1>2 DEF Grouped, Batches
        <3>2. GroupInv'
            BY <1>2, <3>1 DEF IInv, CallerInv, GroupInv
        <3>3. BatchInv'
            BY <1>2 DEF IInv, CallerInv, BatchInv
        <3>4. QED
            BY <3>2, <3>3
    <2>3. QED
        BY <2>1, <2>2 DEF CallerInv
<1>4. (BgInv /\ FileInv /\ OpeningInv)'
    <2>1. BgInv'
        BY <1>1, <1>2 DEF IInv, BgInv, DataSame
    <2>2. Operating' = Operating
        BY <1>2 DEF Operating
    <2>3. FileInv'
        BY <1>1, <1>2, <2>2 DEF IInv, FileInv, DataSame
    <2>4. \A e : Recovered(e)' <=> Recovered(e)
        BY <1>1 DEF Recovered, ToRecover, Readable, DataSame
    <2>5. OpeningInv'
        BY <1>1, <1>2, <2>4 DEF IInv, OpeningInv, DataSame
    <2>6. QED
        BY <2>1, <2>3, <2>5
<1>5. \A n : Readable(n)' = Readable(n) /\ Durable(n)' = Durable(n)
    BY <1>1 DEF DataSame, Readable, Durable
<1>6. \A t : Entries(t)' = Entries(t)
    BY <1>2 DEF Entries, Batches
<1>7. \A e : (Logged(e)' <=> Logged(e)) /\ (Reporting(e)' <=> Reporting(e))
    BY <1>2, <1>6 DEF Logged, Reporting, Pending
<1>8. DataInv'
    BY <1>1, <1>2, <1>5, <1>6, <1>7
    DEF IInv, DataInv, SeqInv, UniqueInv, IdInv, AckedInv, BackedInv, WorkInv, SurviveInv, DataSame,
        Present, ImmEntries, Operating, Recovered, RecoveredSynced, ToRecover, AckedSurvive, Visible, Ids
<1>9. QED
    BY <1>1, <1>3, <1>4, <1>8 DEF IInv, TypeOK

\* Every step of a caller keeps it.
LEMMA CallerStepIInv ==
    ASSUME NoneIsNoTable, IInv, NEW t \in Thread, CallerStep(t)
    PROVE  IInv'
<1>1. TypeOK /\ CallerInv /\ BgInv /\ FileInv /\ OpeningInv /\ DataInv
    BY DEF IInv
<1>2. CASE QuietCaller(t)
    BY <1>1, <1>2, QuietStep DEF IInv
<1>3. CASE RoomSwitch(t)
    <2>1. CallerKept
        BY <1>1, <1>3, NoneAssumption, RoomKept
    <2>2. QED
        BY <1>1, <1>3, <2>1, RoomSwitchStep DEF IInv, CallerKept, TypeOK
<1>4. CASE WorkStep(t)
    <2>1. CallerTypeOK' /\ CallerInv'
        BY <1>1, <1>4, WorkKeeps DEF WorkStep
    <2>2. FileTypeOK' /\ BgInv' /\ FileInv' /\ OpeningInv' /\ DataInv'
        BY <1>1, <1>4, AddRecordStep, AddRecordFailsStep, SyncStep, InsertStep DEF WorkStep
    <2>3. QED
        BY <2>1, <2>2 DEF IInv, TypeOK
<1>5. CASE Finish(t)
    BY <1>1, <1>5, FinishStep DEF IInv
<1>6. CASE Destroyed(t) /\ bg.pc = "none"
    BY <1>1, <1>6, EndSteps DEF IInv
<1>7. QED
    BY <1>2, <1>3, <1>4, <1>5, <1>6 DEF CallerStep, QuietCaller, WorkStep

\* Every step of the background thread keeps it.
LEMMA BgStepIInv ==
    ASSUME IInv, BgStep
    PROVE  IInv'
<1>1. TypeOK /\ CallerInv /\ BgInv /\ FileInv /\ OpeningInv /\ DataInv
    BY DEF IInv
<1>2. CASE QuietBg
    BY <1>1, <1>2, QuietStep DEF IInv
<1>3. CASE WriteManifest \/ InstallMemTable \/ InstallCompaction
    <2>1. FileTypeOK' /\ BgInv' /\ FileInv' /\ OpeningInv' /\ DataInv'
        BY <1>1, <1>3, WriteManifestStep, InstallMemTableStep, InstallCompactionStep
    <2>2. Operating' /\ ~ReadsNull
        <3>1. bg.pc # "none" /\ phase' = phase
            BY <1>3 DEF WriteManifest, InstallMemTable, InstallCompaction, AtBg
        <3>2. Operating'
            BY <1>1, <3>1, WorkIsOpen DEF Operating, TypeOK
        <3>3. QED
            BY <3>2 DEF ReadsNull, ProcessEnds, Operating
    <2>3. CallerKept
        BY <1>1, <2>2, BgKept
    <2>4. QED
        BY <2>1, <2>3 DEF IInv, CallerKept, TypeOK
<1>4. CASE ReadsNull
    BY <1>1, <1>4, EndSteps DEF IInv
<1>5. QED
    BY <1>2, <1>3, <1>4 DEF BgStep, QuietBg

\* Every step keeps it.
LEMMA NextIInv ==
    ASSUME NoneIsNoTable, IInv, [Next]_vars
    PROVE  IInv'
<1>1. TypeOK /\ CallerInv /\ BgInv /\ FileInv /\ OpeningInv /\ DataInv
    BY DEF IInv
<1>2. ASSUME NEW t \in Thread, (\E s \in BOOLEAN : Write(t, s)) \/ CompactRange(t) \/ Close(t)
      PROVE  IInv'
    <2>1. QuietCaller(t)
        BY <1>2 DEF QuietCaller
    <2>2. QED
        BY <1>1, <2>1, QuietStep DEF IInv
<1>3. CASE OpenStep
    BY <1>1, <1>3, RecoverStep, SetCurrentStep, OpenedStep DEF OpenStep, IInv
<1>4. CASE ProcessCrash \/ MachineCrash
    BY <1>1, <1>4, EndSteps DEF IInv
<1>5. CASE UNCHANGED vars
    BY <1>5, StutterIInv
<1>6. QED
    BY <1>2, <1>3, <1>4, <1>5, CallerStepIInv, BgStepIInv DEF Next

\* The invariant says that what was acknowledged survives ...
LEMMA IInvSurvive ==
    ASSUME IInv
    PROVE  AckedSurvive
BY DEF IInv, DataInv, SurviveInv

\* ... and that sequence numbers are unique.
LEMMA IInvUnique ==
    ASSUME IInv
    PROVE  SequencesAreUnique
<1> SUFFICES ASSUME Operating
             PROVE  /\ \A e, f \in Visible : e[2] = f[2] => e = f
                    /\ \A e \in Visible : e[2] > lastSequence =>
                           \E t \in Thread : th[t].pc = "finish" /\ e \in Entries(t)
    BY DEF SequencesAreUnique
<1>1. /\ version.tables \subseteq manifest.tables /\ manifest.seq <= lastSequence
      /\ SeqInv /\ UniqueInv /\ FileTypeOK
    BY DEF IInv, FileInv, DataInv, TypeOK
<1>2. \A e \in Visible : e \in mem \/ e \in version.tables \/ e \in ImmEntries
    BY DEF Visible, ImmEntries
<1>3. \A e \in Visible : e \in Entry /\ Present(e)
    BY <1>1, <1>2, FileTypes DEF Present
<1>4. \A e, f \in Visible : e[2] = f[2] => e = f
    BY <1>1, <1>3 DEF UniqueInv
<1>5. ASSUME NEW e \in Visible, e[2] > lastSequence
      PROVE  Reporting(e)
    <2>1. e[2] \in Nat /\ lastSequence \in Nat /\ manifest.seq \in Nat
        BY <1>1, <1>3, FileTypes
    <2>2. e \notin version.tables /\ e \notin ImmEntries
        BY <1>1, <1>5, <2>1 DEF SeqInv
    <2>3. QED
        BY <1>1, <1>2, <1>5, <2>1, <2>2 DEF SeqInv
<1>6. QED
    BY <1>4, <1>5 DEF Reporting, Pending

-----------------------------------------------------------------------------
\* The inductive invariant holds in every state of every run of the database, for any number
\* of callers, any thresholds, and any number of writes, errors, crashes and reopenings.
THEOREM InvariantHolds ==
    ASSUME NoneIsNoTable
    PROVE  Spec => []IInv
<1>1. Init => IInv
    BY InitIInv
<1>2. IInv /\ [Next]_vars => IInv'
    BY NextIInv
<1>3. QED
    BY <1>1, <1>2, PTL DEF Spec

\* DBImpl's callers, queue, files and background thread keep their types.
THEOREM TypesHold ==
    ASSUME NoneIsNoTable
    PROVE  Spec => []TypeOK
<1>1. IInv => TypeOK
    BY DEF IInv
<1>2. QED
    BY <1>1, InvariantHolds, PTL

\* What Write acknowledged is there while the database is open: all of it after a crash of the
\* process, what asked for sync after a crash of the machine, whatever compaction, errors of
\* the log, tables or manifest, and recovery came between.
THEOREM AckedSurviveHolds ==
    ASSUME NoneIsNoTable
    PROVE  Spec => []AckedSurvive
<1>1. IInv => AckedSurvive
    BY IInvSurvive
<1>2. QED
    BY <1>1, InvariantHolds, PTL

\* No sequence number is given twice, those of failed batches included, and a reader's
\* snapshot covers all but the batches that are being reported.
THEOREM SequencesAreUniqueHolds ==
    ASSUME NoneIsNoTable
    PROVE  Spec => []SequencesAreUnique
<1>1. IInv => SequencesAreUnique
    BY IInvUnique
<1>2. QED
    BY <1>1, InvariantHolds, PTL
=============================================================================
