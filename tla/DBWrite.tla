------------------------------ MODULE DBWrite ------------------------------
(***************************************************************************)
(* The write path of LevelDB (db/db_impl.cc): callers of Write queue up,   *)
(* the one at the head logs and inserts the batches of a group for all,    *)
(* releasing the mutex meanwhile; a full memtable becomes imm_ and gets a  *)
(* new log; one background thread writes imm_ to a table and compacts;     *)
(* recovery reads the logs the manifest does not cover.                    *)
(*                                                                         *)
(* Each action is what a thread does between two releases of mutex_, or    *)
(* one call made with it released.  A batch is one entry <<id, sequence>>; *)
(* the entries in table files are a set and the level-0 files a number     *)
(* (VersionFiles models them); file numbers are counted for logs only.     *)
(* The synced part of a file survives a crash of the machine, the rest     *)
(* down to some point; a created file stays in its directory.              *)
(***************************************************************************)
EXTENDS Integers, Sequences, FiniteSets

CONSTANTS
    Thread, None,
    WriteBufferSize,          \* entries a memtable may hold and still has room
    MaxGroup,                 \* batches a group may hold (its limit in bytes)
    L0_CompactionTrigger, L0_SlowdownWritesTrigger, L0_StopWritesTrigger,
    MaxWrite, MaxCompact, MaxFail, MaxCrash     \* bounds on calls, errors and ends

ASSUME NoneAssumption == None \notin Thread /\ None \notin Nat

VARIABLES
    mutex,           \* holder of mutex_, or None
    th,              \* th[t]: where the caller is, its Writer and its locals
    writers,         \* writers_
    mem, imm,        \* the memtables, as sets of entries; imm is None for NULL
    logs,            \* logs[n]: the file of log n, its records and how many are synced
    logfile,         \* logfile_number_
    nextFile,        \* next_file_number_
    lastSequence,    \* last_sequence_ of the VersionSet
    version,         \* the current version: LogNumber, entries in tables, level-0 files
    manifest,        \* the same on disk, with the last sequence and next file number
    bgError,         \* ~bg_error_.ok()
    bg,              \* the background thread; pc "none": not scheduled
    manual,          \* manual_compaction_: the caller it belongs to, or None
    phase            \* "open", "closing", "down", and two steps of opening

\* History: ids acknowledged, those that asked for sync, those written after an append
\* to the same log had failed, whether a machine crash came, and what is left
\* of the bounds.
VARIABLES acked, synced, spoiled, lostPower, used

logState == <<logs, logfile, nextFile>>
fileState == <<version, manifest>>
history == <<acked, synced, spoiled, lostPower>>
vars == <<mutex, th, writers, mem, imm, logs, logfile, nextFile, lastSequence, version,
          manifest, bgError, bg, manual, phase, acked, synced, spoiled, lostPower,
          used>>

\* pc: where the caller is; on: runnable, or waiting on its cv or on bg_cv_.
Idle == [pc |-> "idle", on |-> "run", batch |-> None, sync |-> FALSE, done |-> FALSE,
         ok |-> TRUE, force |-> FALSE, delay |-> FALSE, group |-> 1, count |-> 0,
         syncError |-> FALSE]

NoEdit == [add |-> {}, log |-> 0, level0 |-> 0, seq |-> 0, next |-> 0]
Unscheduled == [pc |-> "none", memtable |-> FALSE, nested |-> FALSE, isManual |-> FALSE,
                inputs |-> 0, ok |-> TRUE, edit |-> NoEdit]

MaxOf(S) == CHOOSE x \in S : \A y \in S : y <= x
EmptyLog == [recs |-> <<>>, synced |-> 0]
WithLog(n) == [m \in DOMAIN logs \union {n} |-> IF m = n THEN EmptyLog ELSE logs[m]]

Seqs(entries) == {e[2] : e \in entries}
Ids(entries) == {e[1] : e \in entries}

Init ==
    /\ mutex = None
    /\ th = [t \in Thread |-> Idle]
    /\ writers = <<>>
    /\ mem = {} /\ imm = None
    /\ logs = [n \in {1} |-> EmptyLog] /\ logfile = 1 /\ nextFile = 2
    /\ lastSequence = 0
    /\ version = [log |-> 1, tables |-> {}, level0 |-> 0]
    /\ manifest = [log |-> 1, tables |-> {}, level0 |-> 0, seq |-> 0, next |-> 2]
    /\ bgError = FALSE /\ bg = Unscheduled /\ manual = None
    /\ phase = "open"
    /\ acked = {} /\ synced = {} /\ spoiled = {} /\ lostPower = FALSE
    /\ used = [write |-> 0, compact |-> 0, fail |-> 0, crash |-> 0]

Use(what, max) == used[what] < max /\ used' = [used EXCEPT ![what] = @ + 1]

Locks(t) == mutex \in {None, t}
At(t, pc) == th[t].pc = pc /\ th[t].on = "run"

\* bg_cv_.SignalAll()
SignalAll(f) == [t \in Thread |-> IF f[t].on = "bgcv" THEN [f[t] EXCEPT !.on = "run"] ELSE f[t]]
WaitBg(t) == th' = [th EXCEPT ![t].on = "bgcv"]

\* MaybeScheduleCompaction.
Schedule(b, error, immNow, manualNow, level0) ==
    IF \/ b.pc # "none" \/ phase = "closing" \/ error
       \/ immNow = None /\ manualNow = None /\ level0 < L0_CompactionTrigger
    THEN b ELSE [b EXCEPT !.pc = "start"]

-----------------------------------------------------------------------------
(* Write *)

\* A caller enters, with a batch or with the NULL batch of TEST_CompactMemTable.
Enter(t, writer) ==
    /\ phase = "open" /\ mutex = None /\ At(t, "idle")
    /\ th' = [th EXCEPT ![t] = writer]
    /\ writers' = Append(writers, t)
    /\ mutex' = t
    /\ UNCHANGED <<mem, imm, logState, lastSequence, fileState, bgError, bg, manual, phase, history>>

Write(t, sync) ==
    /\ Use("write", MaxWrite)
    /\ Enter(t, [Idle EXCEPT !.pc = "queue", !.batch = used.write + 1, !.sync = sync, !.delay = TRUE])

CompactRange(t) ==
    /\ Use("compact", MaxCompact)
    /\ Enter(t, [Idle EXCEPT !.pc = "queue", !.force = TRUE])

\* TEST_CompactMemTable looks at imm_ only if the write went well; CompactRange goes on
\* to TEST_CompactRange in either case.
Returned(w) == IF w.batch # None THEN Idle
               ELSE [Idle EXCEPT !.pc = IF w.ok THEN "imm" ELSE "manual"]

\* while (!w.done && &w != writers_.front()) w.cv.Wait()
Queued(t) ==
    /\ At(t, "queue") /\ Locks(t)
    /\ \/ /\ th[t].done
          /\ th' = [th EXCEPT ![t] = Returned(th[t])]
          /\ mutex' = None
       \/ /\ ~th[t].done /\ Head(writers) = t
          /\ th' = [th EXCEPT ![t].pc = "room"]
          /\ mutex' = t
       \/ /\ ~th[t].done /\ Head(writers) # t
          /\ th' = [th EXCEPT ![t].on = "cv"]
          /\ mutex' = None
    /\ UNCHANGED <<writers, mem, imm, logState, lastSequence, fileState, bgError, bg, manual, phase, history, used>>

\* BuildBatchGroup: how many writers from the head are taken along.
Batches(n) == {i \in 1..n : th[writers[i]].batch # None}
\* (mutant of Joins: a sync write rides with a leader that does not sync)
JoinsAny(n) == Cardinality(Batches(n)) <= MaxGroup

Joins(n) == /\ th[writers[n]].sync => th[writers[1]].sync
            /\ Cardinality(Batches(n)) <= MaxGroup
GroupSize == MaxOf({n \in 1..Len(writers) : \A i \in 2..n : Joins(i)})

Group(t) == {writers[i] : i \in 1..th[t].group}
\* WriteBatchInternal::SetSequence: the batches in queue order, from last_sequence + 1.
Entries(t) ==
    {<<th[writers[i]].batch, lastSequence + Cardinality(Batches(i))>> : i \in Batches(th[t].group)}

(* MakeRoomForWrite, one turn of its loop. *)
InRoom(t) == At(t, "room") /\ Locks(t)
Full(t) == th[t].force \/ Cardinality(mem) > WriteBufferSize
Slow(t) == th[t].delay /\ version.level0 >= L0_SlowdownWritesTrigger
MustWait == imm # None \/ version.level0 >= L0_StopWritesTrigger
RoomUnchanged == UNCHANGED <<writers, lastSequence, fileState, bgError, manual, phase, history>>

RoomError(t) ==
    /\ InRoom(t) /\ bgError
    /\ th' = [th EXCEPT ![t].pc = "finish", ![t].ok = FALSE]
    /\ mutex' = t
    /\ RoomUnchanged /\ UNCHANGED <<mem, imm, logState, bg, used>>

\* The mutex is released for a millisecond.
RoomDelay(t) ==
    /\ InRoom(t) /\ ~bgError /\ Slow(t)
    /\ th' = [th EXCEPT ![t].delay = FALSE]
    /\ mutex' = None
    /\ RoomUnchanged /\ UNCHANGED <<mem, imm, logState, bg, used>>

RoomEnough(t) ==
    /\ InRoom(t) /\ ~bgError /\ ~Slow(t) /\ ~Full(t)
    /\ IF th[t].batch = None
       THEN /\ th' = [th EXCEPT ![t].pc = "finish"]
            /\ mutex' = t
       ELSE /\ th' = [th EXCEPT ![t].pc = "append", ![t].group = GroupSize,
                                ![t].count = Cardinality(Batches(GroupSize))]
            /\ mutex' = None
    /\ RoomUnchanged /\ UNCHANGED <<mem, imm, logState, bg, used>>

RoomWait(t) ==
    /\ InRoom(t) /\ ~bgError /\ ~Slow(t) /\ Full(t) /\ MustWait
    /\ WaitBg(t)
    /\ mutex' = None
    /\ RoomUnchanged /\ UNCHANGED <<mem, imm, logState, bg, used>>

\* (mutant of RoomSwitch: nobody is told that there is a memtable to compact)
RoomSwitchUnscheduled(t) ==
    /\ InRoom(t) /\ ~bgError /\ ~Slow(t) /\ Full(t) /\ ~MustWait
    /\ logs' = WithLog(nextFile)
    /\ logfile' = nextFile /\ nextFile' = nextFile + 1
    /\ imm' = mem /\ mem' = {}
    /\ th' = [th EXCEPT ![t].force = FALSE]
    /\ mutex' = t
    /\ RoomUnchanged /\ UNCHANGED <<bg, used>>

\* A new memtable and a new log; the old log file is closed, not synced.
RoomSwitch(t) ==
    /\ InRoom(t) /\ ~bgError /\ ~Slow(t) /\ Full(t) /\ ~MustWait
    /\ logs' = WithLog(nextFile)
    /\ logfile' = nextFile /\ nextFile' = nextFile + 1
    /\ imm' = mem /\ mem' = {}
    /\ th' = [th EXCEPT ![t].force = FALSE]
    /\ bg' = Schedule(bg, bgError, imm', manual, version.level0)
    /\ mutex' = t
    /\ RoomUnchanged /\ UNCHANGED used

\* The new log cannot be created: its number is given back (ReuseFileNumber).
RoomNoFile(t) ==
    /\ InRoom(t) /\ ~bgError /\ ~Slow(t) /\ Full(t) /\ ~MustWait
    /\ Use("fail", MaxFail)
    /\ th' = [th EXCEPT ![t].pc = "finish", ![t].ok = FALSE]
    /\ mutex' = t
    /\ RoomUnchanged /\ UNCHANGED <<mem, imm, logState, bg>>

(* The head of the queue, the mutex released.  A record cut short is {}: what follows
   it in the log cannot be read. *)
Spoils(n) == \E i \in DOMAIN logs[n].recs : logs[n].recs[i] = {}
LogUnchanged ==
    UNCHANGED <<mutex, writers, imm, logfile, nextFile, lastSequence, fileState, bgError, bg,
                manual, phase, acked, synced, lostPower>>

AddRecord(t) ==
    /\ At(t, "append")
    /\ logs' = [logs EXCEPT ![logfile].recs = Append(@, Entries(t))]
    /\ th' = [th EXCEPT ![t].pc = IF th[t].sync THEN "sync" ELSE "insert"]
    /\ spoiled' = IF Spoils(logfile) THEN spoiled \union Ids(Entries(t)) ELSE spoiled
    /\ LogUnchanged /\ UNCHANGED <<mem, used>>

\* The error comes before, within or after the record.
AddRecordFails(t) ==
    /\ At(t, "append")
    /\ Use("fail", MaxFail)
    /\ logs' \in {logs} \union
            {[logs EXCEPT ![logfile].recs = Append(@, r)] : r \in {{}, Entries(t)}}
    /\ th' = [th EXCEPT ![t].pc = "finish", ![t].ok = FALSE]
    /\ LogUnchanged /\ UNCHANGED <<mem, spoiled>>

Sync(t) ==
    /\ At(t, "sync")
    /\ logs' = [logs EXCEPT ![logfile].synced = Len(logs[logfile].recs)]
    /\ th' = [th EXCEPT ![t].pc = "insert"]
    /\ LogUnchanged /\ UNCHANGED <<mem, spoiled, used>>

SyncFails(t) ==
    /\ At(t, "sync")
    /\ Use("fail", MaxFail)
    /\ th' = [th EXCEPT ![t].pc = "finish", ![t].ok = FALSE, ![t].syncError = TRUE]
    /\ LogUnchanged /\ UNCHANGED <<mem, logs, spoiled>>

\* The entries are beyond last_sequence_, so no reader sees some of them only.
InsertInto(t) ==
    /\ At(t, "insert")
    /\ mem' = mem \union Entries(t)
    /\ th' = [th EXCEPT ![t].pc = "finish"]
    /\ LogUnchanged /\ UNCHANGED <<logs, spoiled, used>>

\* (mutant of Wakes: the writer that is now the head sleeps on)
WakesGroup(t, f) ==
    [u \in Thread |->
        IF u = t THEN Returned(f[t])
        ELSE IF u \in Group(t) THEN [f[u] EXCEPT !.done = TRUE, !.ok = f[t].ok, !.on = "run"]
        ELSE f[u]]

\* The group gets the result of its head; the writer behind it is signalled.
Wakes(t, f) ==
    [u \in Thread |->
        IF u = t THEN Returned(f[t])
        ELSE IF u \in Group(t) THEN [f[u] EXCEPT !.done = TRUE, !.ok = f[t].ok, !.on = "run"]
        ELSE IF /\ Len(writers) > f[t].group /\ u = writers[f[t].group + 1]
                /\ f[u].on = "cv"
        THEN [f[u] EXCEPT !.on = "run"]
        ELSE f[u]]

\* (mutant of SequenceAfter: a failed write takes no sequence number)
SequenceAfterOk(t) == lastSequence + IF th[t].ok THEN th[t].count ELSE 0

SequenceAfter(t) == lastSequence + th[t].count

\* SetLastSequence is reached whatever the result of the log was.
Finish(t) ==
    /\ At(t, "finish") /\ Locks(t)
    /\ bgError' = (bgError \/ th[t].syncError)
    /\ th' = Wakes(t, IF th[t].syncError /\ ~bgError THEN SignalAll(th) ELSE th)
    /\ lastSequence' = SequenceAfter(t)
    /\ writers' = SubSeq(writers, th[t].group + 1, Len(writers))
    /\ mutex' = None
    /\ acked' = acked \union IF th[t].ok THEN {th[u].batch : u \in Group(t)} \ {None} ELSE {}
    /\ synced' = synced \union
           IF th[t].ok THEN {th[u].batch : u \in {u \in Group(t) : th[u].sync}} ELSE {}
    /\ UNCHANGED <<mem, imm, logState, fileState, bg, manual, phase, spoiled, lostPower, used>>

-----------------------------------------------------------------------------
(* CompactRange, after the NULL write, and the destructor *)

CallerUnchanged ==
    UNCHANGED <<writers, mem, imm, logState, lastSequence, fileState, bgError, history, used>>

\* while (imm_ != NULL && bg_error_.ok()) bg_cv_.Wait()
WaitImm(t) ==
    /\ At(t, "imm") /\ mutex = None
    /\ IF imm # None /\ ~bgError THEN WaitBg(t) ELSE th' = [th EXCEPT ![t].pc = "manual"]
    /\ CallerUnchanged /\ UNCHANGED <<mutex, bg, manual, phase>>

\* The loop of TEST_CompactRange; it waits for its own compaction or another's.
ManualLoops(t) == ~th[t].done /\ phase = "open" /\ ~bgError

ManualCompaction(t) ==
    /\ At(t, "manual") /\ mutex = None
    /\ IF ManualLoops(t)
       THEN /\ manual' = IF manual = None THEN t ELSE manual
            /\ bg' = IF manual = None THEN Schedule(bg, bgError, imm, t, version.level0) ELSE bg
            /\ WaitBg(t)
       ELSE /\ manual' = IF manual = t THEN None ELSE manual
            /\ th' = [th EXCEPT ![t] = Idle]
            /\ UNCHANGED bg
    /\ CallerUnchanged /\ UNCHANGED <<mutex, phase>>

\* delete db, which no other call may overlap.
Close(t) ==
    /\ phase = "open" /\ mutex = None /\ \A u \in Thread : At(u, "idle")
    /\ used.crash < MaxCrash
    /\ phase' = "closing"
    /\ th' = [th EXCEPT ![t].pc = "close"]
    /\ CallerUnchanged /\ UNCHANGED <<mutex, bg, manual>>

-----------------------------------------------------------------------------
(* The background thread *)

BgUnchanged ==
    UNCHANGED <<mutex, writers, mem, logfile, nextFile, lastSequence, acked, synced, spoiled, lostPower>>

\* The end of BackgroundCall: schedules itself again if need be, and wakes everyone.
Ends(f, error, immNow, manualNow, v) ==
    /\ bg' = Schedule(Unscheduled, error, immNow, manualNow, v.level0)
    /\ th' = SignalAll(f)

AtBg(pc) == bg.pc = pc /\ mutex = None
CallsOff == phase = "closing" \/ bgError
StartUnchanged == BgUnchanged /\ UNCHANGED <<imm, logs, fileState, bgError, phase, used>>

BackgroundCallOff ==
    /\ AtBg("start") /\ CallsOff
    /\ Ends(th, bgError, imm, manual, version)
    /\ StartUnchanged /\ UNCHANGED manual

StartCompactMemTable ==
    /\ AtBg("start") /\ ~CallsOff /\ imm # None
    /\ bg' = [bg EXCEPT !.pc = "build", !.memtable = TRUE]
    /\ StartUnchanged /\ UNCHANGED <<th, manual>>

\* A manual compaction that finds no file is done.
NothingToDo ==
    /\ AtBg("start") /\ ~CallsOff /\ imm = None
    /\ version.level0 = 0 \/ (manual = None /\ version.level0 < L0_CompactionTrigger)
    /\ Ends(IF manual = None THEN th ELSE [th EXCEPT ![manual].done = TRUE],
            bgError, imm, None, version)
    /\ manual' = None
    /\ StartUnchanged

\* LogAndApply: what it will write is fixed here, then the mutex is released.
Edit(add, log, level0) ==
    [add |-> add, log |-> log, level0 |-> level0, seq |-> lastSequence, next |-> nextFile]

Inputs == version.level0

\* DoCompactionWork, or the move of a single file straight to LogAndApply.
StartCompaction ==
    /\ AtBg("start") /\ ~CallsOff /\ imm = None
    /\ Inputs > 0 /\ (manual # None \/ Inputs >= L0_CompactionTrigger)
    /\ \/ bg' = [bg EXCEPT !.pc = "work", !.isManual = (manual # None), !.inputs = Inputs]
       \/ /\ manual = None /\ Inputs = 1
          /\ bg' = [bg EXCEPT !.pc = "apply", !.edit = Edit({}, version.log, -1)]
    /\ StartUnchanged /\ UNCHANGED <<th, manual>>

\* WriteLevel0Table, the mutex released.
BuildTable ==
    /\ bg.pc = "build"
    /\ \/ bg' = [bg EXCEPT !.pc = "built", !.ok = TRUE] /\ UNCHANGED used
       \/ bg' = [bg EXCEPT !.pc = "built", !.ok = FALSE] /\ Use("fail", MaxFail)
    /\ UNCHANGED <<th, imm, logs, fileState, bgError, manual, phase>> /\ BgUnchanged

\* What follows CompactMemTable: the compaction it interrupted, or the end of the call.
MemTableDone(error, immNow, v) ==
    IF bg.nested
    THEN /\ bg' = [bg EXCEPT !.pc = "work", !.memtable = FALSE, !.nested = FALSE, !.ok = TRUE]
         /\ th' = SignalAll(th)
    ELSE Ends(th, error, immNow, manual, v)

\* An empty memtable makes no file; the log of the present memtable becomes the oldest needed.
MemTableEdit == Edit(imm, logfile, IF imm = {} THEN 0 ELSE 1)

LogMemTable ==
    /\ AtBg("built")
    /\ IF bg.ok /\ phase # "closing"
       THEN /\ bg' = [bg EXCEPT !.pc = "apply", !.edit = MemTableEdit]
            /\ UNCHANGED <<th, bgError>>
       ELSE /\ bgError' = TRUE
            /\ MemTableDone(TRUE, imm, version)
    /\ UNCHANGED <<imm, logs, fileState, manual, phase, used>> /\ BgUnchanged

\* The loop of DoCompactionWork, the mutex released, finds an immutable memtable ...
WorkOnMemTable ==
    /\ AtBg("work") /\ imm # None /\ phase # "closing"
    /\ bg' = [bg EXCEPT !.pc = "build", !.memtable = TRUE, !.nested = TRUE]
    /\ StartUnchanged /\ UNCHANGED <<th, manual>>

\* CleanupCompaction and the end of BackgroundCompaction, which looks into
\* manual_compaction_ whether or not its caller has withdrawn it.
CompactionDone(ok, error, v) ==
    LET f == IF bg.isManual /\ ~ok THEN [th EXCEPT ![manual].done = TRUE] ELSE th
        m == IF bg.isManual THEN None ELSE manual
    IN  manual' = m /\ Ends(f, error, imm, m, v)

Withdrawn == bg.isManual /\ manual = None

\* ... or has merged its inputs, failed, or been told to stop.
WorkEnds ==
    /\ AtBg("work")
    /\ \/ /\ phase # "closing"
          /\ bg' = [bg EXCEPT !.pc = "apply", !.edit = Edit({}, version.log, -bg.inputs)]
          /\ UNCHANGED <<th, manual, bgError, used>>
       \/ /\ ~Withdrawn
          /\ \/ phase = "closing" /\ UNCHANGED used
             \/ Use("fail", MaxFail)
          /\ bgError' = TRUE
          /\ CompactionDone(FALSE, TRUE, version)
    /\ UNCHANGED <<imm, logs, fileState, phase>> /\ BgUnchanged

Applied(m, e) == [log |-> e.log, tables |-> m.tables \union e.add, level0 |-> m.level0 + e.level0]
Saved(v, seq, next) ==
    [log |-> v.log, tables |-> v.tables, level0 |-> v.level0, seq |-> seq, next |-> next]
OnDisk(m, e) == Saved(Applied(m, e), e.seq, e.next)

\* The record is written and synced; after an error it may be there all the same.
WriteManifest ==
    /\ bg.pc = "apply"
    /\ \/ /\ manifest' = OnDisk(manifest, bg.edit)
          /\ bg' = [bg EXCEPT !.pc = "applied", !.ok = TRUE]
          /\ UNCHANGED used
       \/ /\ manifest' \in {manifest, OnDisk(manifest, bg.edit)}
          /\ bg' = [bg EXCEPT !.pc = "applied", !.ok = FALSE]
          /\ Use("fail", MaxFail)
    /\ UNCHANGED <<th, imm, logs, version, bgError, manual, phase>> /\ BgUnchanged

\* DeleteObsoleteFiles, as far as logs go.
LogsKept(v, error) ==
    IF error THEN logs ELSE [n \in {n \in DOMAIN logs : n >= v.log} |-> logs[n]]

InstallMemTable ==
    /\ AtBg("applied") /\ bg.memtable
    /\ IF bg.ok
       THEN /\ version' = Applied(version, bg.edit)
            /\ imm' = None
            /\ logs' = LogsKept(version', bgError)
            /\ UNCHANGED bgError
       ELSE /\ bgError' = TRUE
            /\ UNCHANGED <<version, imm, logs>>
    /\ MemTableDone(bgError', imm', version')
    /\ UNCHANGED <<manifest, manual, phase, used>> /\ BgUnchanged

InstallCompaction ==
    /\ AtBg("applied") /\ ~bg.memtable /\ ~Withdrawn
    /\ version' = IF bg.ok THEN Applied(version, bg.edit) ELSE version
    /\ bgError' = (bgError \/ ~bg.ok)
    /\ logs' = LogsKept(version', bgError')
    /\ CompactionDone(bg.ok, bgError', version')
    /\ UNCHANGED <<imm, manifest, phase, used>> /\ BgUnchanged

-----------------------------------------------------------------------------
(* The end of the process, and DB::Open *)

\* (logs keep what the operating system had of them)
ProcessEnds ==
    /\ mutex' = None /\ writers' = <<>> /\ mem' = {} /\ imm' = None
    /\ th' = [t \in Thread |-> Idle]
    /\ bgError' = FALSE /\ bg' = Unscheduled /\ manual' = None
    /\ phase' = "down"
    /\ UNCHANGED <<logfile, nextFile, lastSequence, fileState, acked, synced, spoiled>>

ProcessCrash ==
    /\ phase # "down" /\ Use("crash", MaxCrash)
    /\ ProcessEnds
    /\ UNCHANGED <<logs, lostPower>>

\* Every log is cut somewhere behind what was synced.
MachineCrash ==
    /\ phase # "down" /\ Use("crash", MaxCrash)
    /\ \E cut \in [DOMAIN logs -> 0..MaxWrite + MaxFail] :
        /\ \A n \in DOMAIN logs : cut[n] \in logs[n].synced..Len(logs[n].recs)
        /\ logs' = [n \in DOMAIN logs |-> [logs[n] EXCEPT !.recs = SubSeq(@, 1, cut[n])]]
    /\ lostPower' = TRUE
    /\ ProcessEnds

\* m->done through a NULL manual_compaction_.
ReadsNull ==
    /\ Withdrawn
    /\ \/ AtBg("applied") /\ ~bg.memtable
       \/ AtBg("work") /\ phase = "closing"
    /\ ProcessEnds
    /\ UNCHANGED <<logs, lostPower, used>>

\* while (bg_compaction_scheduled_) bg_cv_.Wait()
Destroyed(t) ==
    /\ At(t, "close") /\ mutex = None
    /\ IF bg.pc # "none"
       THEN /\ WaitBg(t)
            /\ CallerUnchanged /\ UNCHANGED <<mutex, bg, manual, phase>>
       ELSE /\ Use("crash", MaxCrash)
            /\ ProcessEnds
            /\ UNCHANGED <<logs, lostPower>>

\* Records of a log up to one that cannot be read.
Readable(n) ==
    LET r == logs[n].recs
    IN  UNION {r[i] : i \in {i \in DOMAIN r : \A j \in 1..i : r[j] # {}}}

ToRecover == {n \in DOMAIN logs : n >= manifest.log}
NextNumber == MaxOf({manifest.next} \union {n + 1 : n \in ToRecover})

\* Recover: each log becomes a level-0 table; the new log file is created, and nothing
\* refers to either yet.
Recover ==
    /\ phase = "down"
    /\ LET found == UNION {Readable(n) : n \in ToRecover}
       IN  /\ version' = [log |-> NextNumber, tables |-> manifest.tables \union found,
                level0 |-> manifest.level0 + Cardinality({n \in ToRecover : Readable(n) # {}})]
           /\ lastSequence' = MaxOf({manifest.seq} \union Seqs(found))
    /\ logs' = WithLog(NextNumber)
    /\ logfile' = NextNumber /\ nextFile' = NextNumber + 1
    /\ phase' = "recovered"
    /\ UNCHANGED <<mutex, th, writers, mem, imm, manifest, bgError, bg, manual, history, used>>

\* LogAndApply: a new manifest, synced, and CURRENT renamed to it.
SetCurrent ==
    /\ phase = "recovered"
    /\ manifest' = Saved(version, lastSequence, nextFile)
    /\ phase' = "committed"
    /\ UNCHANGED <<mutex, th, writers, mem, imm, logState, lastSequence, version, bgError, bg, manual, history, used>>

Opened ==
    /\ phase = "committed"
    /\ logs' = LogsKept(version, FALSE)
    /\ bg' = Schedule(bg, FALSE, None, None, version.level0)
    /\ phase' = "open"
    /\ UNCHANGED <<mutex, th, writers, mem, imm, logfile, nextFile, lastSequence, fileState, bgError, manual, history, used>>

-----------------------------------------------------------------------------
CallerStep(t) ==
    \/ Queued(t) \/ RoomError(t) \/ RoomDelay(t) \/ RoomEnough(t) \/ RoomWait(t) \/ RoomSwitch(t)
    \/ RoomNoFile(t) \/ AddRecord(t) \/ AddRecordFails(t) \/ Sync(t) \/ SyncFails(t)
    \/ InsertInto(t) \/ Finish(t) \/ WaitImm(t) \/ ManualCompaction(t) \/ Destroyed(t)

BgStep ==
    \/ BackgroundCallOff \/ StartCompactMemTable \/ NothingToDo \/ StartCompaction \/ BuildTable
    \/ LogMemTable \/ WorkOnMemTable \/ WorkEnds \/ WriteManifest \/ InstallMemTable
    \/ InstallCompaction \/ ReadsNull

OpenStep == Recover \/ SetCurrent \/ Opened

Next ==
    \/ \E t \in Thread, sync \in BOOLEAN : Write(t, sync)
    \/ \E t \in Thread : CompactRange(t) \/ Close(t) \/ CallerStep(t)
    \/ BgStep \/ OpenStep \/ ProcessCrash \/ MachineCrash

\* A thread that can go on does, and so does opening; nobody has to call or to crash.  The
\* loop over the inputs of a compaction ends, however often it stops for a memtable.
Fairness ==
    /\ \A t \in Thread : WF_vars(CallerStep(t))
    /\ WF_vars(BgStep) /\ SF_vars(WorkEnds)
    /\ WF_vars(OpenStep)

Spec == Init /\ [][Next]_vars
FairSpec == Spec /\ Fairness

-----------------------------------------------------------------------------
Visible == mem \union version.tables \union IF imm = None THEN {} ELSE imm
Operating == phase \in {"open", "closing"}

\* What a caller was told is written is there, through every compaction, error, crash
\* and recovery: all of it if only the process ended, what asked for sync if the machine
\* lost its memory.  (Not what was appended to a log behind a record cut short: the
\* reader stops at it.)
AckedSurvive ==
    Operating => (IF lostPower THEN synced ELSE acked) \ spoiled \subseteq Ids(Visible)

\* No two batches ever have one sequence number, a failed one that is in the log after
\* all included, and none is beyond the one readers take as their snapshot unless its
\* writer is still at work.
SequencesAreUnique ==
    Operating =>
        /\ \A e, f \in Visible : e[2] = f[2] => e = f
        /\ \A e \in Visible : e[2] > lastSequence =>
               \E t \in Thread : th[t].pc = "finish" /\ e \in Entries(t)

\* Every call returns, whoever it waits for: no wakeup is lost, whatever fails.
CallsReturn == \A t \in Thread : (th[t].pc # "idle") ~> (th[t].pc = "idle")

\* A memtable that is full reaches the tables, unless an error stopped the background.
MemTablesAreWritten == (imm # None) ~> (imm = None \/ bgError)

\* The promise that "the last few updates" may be lost: what is left has no hole.
NoHoleAfterCrash ==
    Operating => \A i \in acked, j \in Ids(Visible) : i < j => i \in Ids(Visible)
=============================================================================
