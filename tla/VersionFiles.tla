---------------------------- MODULE VersionFiles ----------------------------
(***************************************************************************)
(* The tables of LevelDB (db/version_set.cc and the background half of     *)
(* db/db_impl.cc): which tables there are at which level, how a memtable   *)
(* finds its level, what a compaction takes and drops, which version a     *)
(* reader holds on to, when a table may be deleted and what the manifest   *)
(* says when the process ends.                                             *)
(*                                                                         *)
(* DBWrite models how entries get into the log and the memtable: here a    *)
(* write is one step, and logs holds what the logs the manifest still      *)
(* needs have in them.  An entry is a key, a sequence number and whether   *)
(* it deletes; its size is one, so sizes are numbers of entries.  The      *)
(* compact_pointer_ that takes the files of a level in turn is any choice, *)
(* and so is when a file has used up its allowed_seeks.                    *)
(***************************************************************************)
EXTENDS Integers, SequencesExt

CONSTANTS
    Key, None,
    NumLevels, MaxMemCompactLevel, L0_CompactionTrigger,
    MaxEntriesForLevel,            \* [level -> entries it should hold]
    MaxGrandParentOverlap, ExpandedCompactionLimit,
    Limits          \* what to bound: writes, readers and snapshots at a time, entries in an
                    \* output file, errors and ends of the process

ASSUME LevelAssumption == NumLevels \in Nat \ {0} /\ MaxMemCompactLevel \in Nat
\* Keys have a length that fits in 32 bits, so there are finitely many, in an order.
ASSUME KeyAssumption == Key \subseteq Int /\ IsFiniteSet(Key)
\* An output is closed after an entry, not before the first one.
ASSUME LimitsAssumption == \A l \in Limits : l.entries \in Nat \ {0}

VARIABLES
    limits,          \* chosen at the start
    written,         \* every entry ever written
    mem, imm,        \* the memtables; imm is None for NULL
    logs,            \* the entries of each log the manifest needs, the present one last
    disk,            \* disk[n]: the entries of table file n
    nextFile,        \* next_file_number_
    current,         \* the current version: [level -> its files]
    manifest,        \* the version on disk, with its next file number
    compact,         \* CompactionState and its Compaction, or None
    flush,           \* the table of imm under way, or None
    bgError,         \* ~bg_error_.ok()
    readers,         \* iterators and Gets under way
    snapshots,       \* snapshots_
    phase,           \* "open", "down", "recovered"
    used

vars == <<limits, written, mem, imm, logs, disk, nextFile, current, manifest, compact, flush,
          bgError, readers, snapshots, phase, used>>
memory == <<limits, written, mem, logs>>
users == <<readers, snapshots>>

Level == 0..NumLevels - 1
NoFiles == [l \in Level |-> {}]
lastSequence == Cardinality(written)

Init ==
    /\ limits \in Limits
    /\ written = {} /\ mem = {} /\ imm = None
    /\ logs = <<{}>> /\ disk = <<>> /\ nextFile = 1
    /\ current = NoFiles /\ manifest = [files |-> NoFiles, next |-> 1]
    /\ compact = None /\ flush = None /\ bgError = FALSE
    /\ readers = {} /\ snapshots = {}
    /\ phase = "open"
    /\ used = [fail |-> 0, crash |-> 0]

Use(what) == used[what] < limits[what] /\ used' = [used EXCEPT ![what] = @ + 1]

-----------------------------------------------------------------------------
(* Entries and tables *)

\* InternalKeyComparator: keys ascending, the newest entry of a key first.
Before(d, e) == d.key < e.key \/ (d.key = e.key /\ d.seq > e.seq)
Smallest(entries) == CHOOSE d \in entries : \A e \in entries \ {d} : Before(d, e)
Greatest(entries) == CHOOSE d \in entries : \A e \in entries \ {d} : Before(e, d)

\* The newest entry of k not newer than s; {} if there is none.
Newest(entries, k, s) ==
    LET upTo == {e \in entries : e.key = k /\ e.seq <= s}
    IN  IF upTo = {} THEN {} ELSE {Smallest(upTo)}

Meta(n, entries) == [number |-> n, smallest |-> Smallest(entries), largest |-> Greatest(entries)]
\* The table files with more of them; one of a number taken before is replaced.
WithFiles(tables) ==
    [n \in DOMAIN disk \union DOMAIN tables |-> IF n \in DOMAIN tables THEN tables[n] ELSE disk[n]]
Entries(f) == IF f.number \in DOMAIN disk THEN disk[f.number] ELSE {}
Size(fs) == FoldSet(LAMBDA f, n : n + Cardinality(Entries(f)), 0, fs)
Numbers(v) == {f.number : f \in UNION {v[l] : l \in Level}}
Covers(f, k) == f.smallest.key <= k /\ k <= f.largest.key
Overlaps(f, lo, hi) == f.smallest.key <= hi /\ lo <= f.largest.key
Within(f, lo, hi) == lo <= f.smallest.key /\ f.largest.key <= hi

\* FindFile: the first file of a level with an entry at or behind the one asked for.
FindFile(fs, target) ==
    LET reach == {f \in fs : ~Before(f.largest, target)}
    IN  {f \in reach : \A g \in reach \ {f} :
             Before(f.largest, g.largest) \/ (f.largest = g.largest /\ f.number < g.number)}

OverlapInLevel(v, l, lo, hi) == \E f \in v[l] : Overlaps(f, lo, hi)

\* GetOverlappingInputs: at level 0 a file that reaches further widens the range.
Widened(v, l, lo, hi) ==
    IF l > 0 THEN <<lo, hi>>
    ELSE LET closed == {r \in Key \X Key :
                          /\ r[1] <= lo /\ hi <= r[2]
                          /\ \A f \in v[0] : Overlaps(f, r[1], r[2]) => Within(f, r[1], r[2])}
         IN  <<Max({r[1] : r \in closed}), Min({r[2] : r \in closed})>>
GetOverlappingInputs(v, l, lo, hi) ==
    LET r == Widened(v, l, lo, hi) IN {f \in v[l] : Overlaps(f, r[1], r[2])}

Lowest(fs) == Min({f.smallest.key : f \in fs})
Highest(fs) == Max({f.largest.key : f \in fs})

-----------------------------------------------------------------------------
(* Reading *)

\* The files Version::Get may look into, and their order.
Searched(v, k, s) ==
    {<<0, f>> : f \in {f \in v[0] : Covers(f, k)}} \union
    UNION {{<<l, f>> : f \in {f \in FindFile(v[l], [key |-> k, seq |-> s]) : Covers(f, k)}} :
               l \in Level \ {0}}
Sooner(a, b) == a[1] < b[1] \/ (a[1] = 0 /\ b[1] = 0 /\ a[2].number > b[2].number)

VersionGet(v, k, s) ==
    LET hits == {a \in Searched(v, k, s) : Newest(Entries(a[2]), k, s) # {}}
    IN  IF hits = {} THEN {}
        ELSE Newest(Entries((CHOOSE a \in hits : \A b \in hits \ {a} : Sooner(a, b))[2]), k, s)

Live(found) == {e \in found : ~e.del}

Get(r, k) ==
    LET inMem == Newest(r.mem, k, r.seq)
        inImm == Newest(r.imm, k, r.seq)
    IN  Live(IF inMem # {} THEN inMem ELSE IF inImm # {} THEN inImm ELSE VersionGet(r.version, k, r.seq))

\* An iterator for each file of level 0, one over the files of each other level.
AddIterators(v) == UNION {Entries(f) : f \in UNION {v[l] : l \in Level}}

\* A merging iterator over memtables and tables, as DBIter reads it.
Iterated(r, k) == Live(Newest(r.mem \union r.imm \union AddIterators(r.version), k, r.seq))

\* What a call at sequence number s takes hold of.
View(s) == [seq |-> s, mem |-> mem, imm |-> IF imm = None THEN {} ELSE imm, version |-> current]

-----------------------------------------------------------------------------
(* The callers *)

FilesUnchanged == UNCHANGED <<disk, nextFile, current, manifest, compact, flush, bgError, phase, used>>

Write(k, del) ==
    /\ phase = "open" /\ ~bgError /\ lastSequence < limits.writes
    /\ LET e == [key |-> k, seq |-> lastSequence + 1, del |-> del]
       IN  /\ written' = written \union {e}
           /\ mem' = mem \union {e}
           /\ logs' = [logs EXCEPT ![Len(logs)] = @ \union {e}]
    /\ UNCHANGED <<limits, imm, users>> /\ FilesUnchanged

\* MakeRoomForWrite with a full memtable.
SwitchMemTable ==
    /\ phase = "open" /\ imm = None /\ mem # {} /\ ~bgError
    /\ imm' = mem /\ mem' = {}
    /\ logs' = Append(logs, {})
    /\ UNCHANGED <<limits, written, users>> /\ FilesUnchanged

\* NewIterator, or the first half of Get; both at a snapshot or at the last sequence.
StartRead ==
    /\ phase = "open" /\ Cardinality(readers) < limits.readers
    /\ \E s \in snapshots \union {lastSequence} : readers' = readers \union {View(s)}
    /\ UNCHANGED <<memory, imm, snapshots>> /\ FilesUnchanged

EndRead ==
    /\ \E r \in readers : readers' = readers \ {r}
    /\ UNCHANGED <<memory, imm, snapshots>> /\ FilesUnchanged

GetSnapshot ==
    /\ phase = "open" /\ Cardinality(snapshots) < limits.snapshots
    /\ snapshots' = snapshots \union {lastSequence}
    /\ UNCHANGED <<memory, imm, readers>> /\ FilesUnchanged

ReleaseSnapshot ==
    /\ \E s \in snapshots : snapshots' = snapshots \ {s}
    /\ UNCHANGED <<memory, imm, readers>> /\ FilesUnchanged

-----------------------------------------------------------------------------
(* LogAndApply and what follows it *)

\* Builder: the files of a version, less those an edit deletes, with those it adds.
Applied(v, edit) ==
    [l \in Level |-> {f \in v[l] : <<l, f.number>> \notin edit.deleted} \union edit.added[l]]

\* The record, written and synced with the mutex released.  One that sets the log number
\* needs the present log only.
Logged(edit) ==
    /\ manifest' = [files |-> Applied(manifest.files, edit), next |-> nextFile]
    /\ logs' = IF edit.log THEN <<logs[Len(logs)]>> ELSE logs

\* After an error the record may be there all the same.
LogFails(edit) ==
    /\ Use("fail")
    /\ Logged(edit) \/ UNCHANGED <<manifest, logs>>
    /\ bgError' = TRUE

Versions(v, c, rs) == {v} \union {r.version : r \in rs} \union IF c = None THEN {} ELSE {c.version}
PendingOutputs(c) == IF c = None THEN {} ELSE {f.number : f \in c.outputs}

\* (mutant of DeleteObsoleteFiles: tables are deleted after an error too)
DeleteObsoleteFilesAlways(v, c, error) ==
    LET live == PendingOutputs(c) \union UNION {Numbers(w) : w \in Versions(v, c, readers)}
    IN  [n \in DOMAIN disk \cap live |-> disk[n]]

\* DeleteObsoleteFiles, as far as tables go: what is left when v is the current version.
DeleteObsoleteFiles(v, c, error) ==
    LET live == PendingOutputs(c) \union UNION {Numbers(w) : w \in Versions(v, c, readers)}
    IN  IF error THEN disk ELSE [n \in DOMAIN disk \cap live |-> disk[n]]

-----------------------------------------------------------------------------
(* The memtable *)

\* (mutant of PickLevelForMemTableOutput: only level 0 is asked for an overlap)
PickLevelBlind(v, lo, hi) ==
    IF OverlapInLevel(v, 0, lo, hi) THEN 0 ELSE MaxMemCompactLevel

PickLevelForMemTableOutput(v, lo, hi) ==
    LET free(l) == /\ ~OverlapInLevel(v, l, lo, hi)
                   /\ l + 1 < NumLevels =>
                        Size(GetOverlappingInputs(v, l + 1, lo, hi)) <= MaxGrandParentOverlap
    IN  IF OverlapInLevel(v, 0, lo, hi) THEN 0
        ELSE Max({l \in 0..MaxMemCompactLevel : \A m \in 1..l : free(m)})

MemTableEdit(n) ==
    LET f == Meta(n, imm)
        l == PickLevelForMemTableOutput(current, f.smallest.key, f.largest.key)
    IN  [deleted |-> {}, added |-> [NoFiles EXCEPT ![l] = {f}], log |-> TRUE]

Working == compact # None /\ compact.pc = "work" /\ flush = None
CanStart == phase = "open" /\ ~bgError /\ compact = None /\ flush = None

\* WriteLevel0Table, from a call of its own or between two keys of a compaction, which
\* goes on whatever becomes of it and comes back to a memtable that is still there.
WriteLevel0Table ==
    /\ imm # None /\ (CanStart \/ Working)
    /\ \/ /\ disk' = WithFiles([n \in {nextFile} |-> imm])
          /\ flush' = [pc |-> "log", edit |-> MemTableEdit(nextFile)]
          /\ UNCHANGED <<bgError, used>>
       \/ /\ bgError' = TRUE
          /\ Use("fail")
          /\ UNCHANGED <<disk, flush>>
    /\ nextFile' = nextFile + 1
    /\ UNCHANGED <<memory, imm, current, manifest, compact, users, phase>>

LogMemTable ==
    /\ flush # None /\ flush.pc = "log"
    /\ \/ /\ Logged(flush.edit)
          /\ flush' = [flush EXCEPT !.pc = "install"]
          /\ UNCHANGED <<bgError, used>>
       \/ LogFails(flush.edit) /\ flush' = None
    /\ UNCHANGED <<limits, written, mem, imm, disk, nextFile, current, compact, users, phase>>

InstallMemTable ==
    /\ flush # None /\ flush.pc = "install"
    /\ current' = Applied(current, flush.edit)
    /\ imm' = None
    /\ flush' = None
    /\ disk' = DeleteObsoleteFiles(current', compact, bgError)
    /\ UNCHANGED <<memory, nextFile, manifest, compact, bgError, users, phase, used>>

-----------------------------------------------------------------------------
(* Compactions *)

\* Finalize: the score of a level, over a common denominator.
Denominator == L0_CompactionTrigger * FoldSet(LAMBDA l, n : n * MaxEntriesForLevel[l], 1, 1..NumLevels - 2)
Score(v, l) ==
    IF l = 0 THEN Cardinality(v[0]) * (Denominator \div L0_CompactionTrigger)
    ELSE Size(v[l]) * (Denominator \div MaxEntriesForLevel[l])
BestLevel(v) ==
    {l \in 0..NumLevels - 2 :
        \A m \in 0..NumLevels - 2 : Score(v, m) < Score(v, l) \/ (Score(v, m) = Score(v, l) /\ l <= m)}
NeedsSize(v) == \E l \in BestLevel(v) : Score(v, l) >= Denominator

\* Get and RecordReadSample charge the first file of a search that goes on to a second.
Charged(v) ==
    UNION {LET S == Searched(v, k, s)
           IN  {a \in S : /\ Cardinality(S) > 1
                          /\ \A b \in S \ {a} : Sooner(a, b)} : k \in Key, s \in 0..lastSequence}

\* PickCompaction: the level and the file it starts from.
Picked(v) ==
    IF NeedsSize(v) THEN UNION {{<<l, f>> : f \in v[l]} : l \in BestLevel(v)} ELSE Charged(v)

Inputs0(v, l, f) ==
    IF l = 0 THEN GetOverlappingInputs(v, 0, f.smallest.key, f.largest.key) ELSE {f}

\* SetupOtherInputs: the files of the next level, and as many more of this one as take no
\* more files there.
SetupOtherInputs(v, l, in0) ==
    LET in1 == GetOverlappingInputs(v, l + 1, Lowest(in0), Highest(in0))
        more0 == GetOverlappingInputs(v, l, Lowest(in0 \union in1), Highest(in0 \union in1))
        more1 == GetOverlappingInputs(v, l + 1, Lowest(more0), Highest(more0))
        grow == /\ in1 # {} /\ Cardinality(more0) > Cardinality(in0)
                /\ Size(in1) + Size(more0) < ExpandedCompactionLimit
                /\ Cardinality(more1) = Cardinality(in1)
    IN  IF grow THEN <<more0, more1>> ELSE <<in0, in1>>

GrandParents(v, l, in) ==
    IF l + 2 < NumLevels THEN GetOverlappingInputs(v, l + 2, Lowest(in), Highest(in)) ELSE {}

\* Nothing deeper than the output level has the key in its range.
IsBaseLevelForKey(v, l, k) == \A m \in l + 2..NumLevels - 1 : \A f \in v[m] : ~Covers(f, k)

\* (mutant of Dropped: a deletion is dropped although deeper levels have the key)
DroppedAnywhere(v, l, in, smallestSnapshot, e) ==
    \/ \E d \in in : d.key = e.key /\ d.seq > e.seq /\ d.seq <= smallestSnapshot
    \/ e.del /\ e.seq <= smallestSnapshot

\* The rules by which DoCompactionWork drops an entry of its inputs.
Dropped(v, l, in, smallestSnapshot, e) ==
    \/ \E d \in in : d.key = e.key /\ d.seq > e.seq /\ d.seq <= smallestSnapshot
    \/ e.del /\ e.seq <= smallestSnapshot /\ IsBaseLevelForKey(v, l, e.key)

\* ShouldStopBefore: the entries before which an output is closed, each time those before
\* it have passed too much of the files two levels below.
Stops(in, grand) ==
    LET passed(e) == {g \in grand : Before(g.largest, e)}
        step(a, e) ==
            IF Size(passed(e) \ a.passed) > MaxGrandParentOverlap
            THEN [passed |-> passed(e), stops |-> a.stops \union {e}] ELSE a
    IN  FoldLeft(step, [passed |-> passed(Smallest(in)), stops |-> {}], SetToSortSeq(in, Before)).stops

SmallestSnapshot == IF snapshots = {} THEN lastSequence ELSE Min(snapshots)

NumbersAt(l, fs) == {<<l, f.number>> : f \in fs}

\* The merged entries of both levels.
MakeInputIterator(in) == UNION {Entries(f) : f \in in[1] \union in[2]}

BackgroundCompaction ==
    /\ CanStart /\ imm = None
    /\ \E p \in Picked(current) :
        LET l == p[1]
            in == SetupOtherInputs(current, l, Inputs0(current, l, p[2]))
            grand == GrandParents(current, l, in[1] \union in[2])
            entries == MakeInputIterator(in)
            move == /\ Cardinality(in[1]) = 1 /\ in[2] = {}
                    /\ Size(grand) <= MaxGrandParentOverlap
        IN  compact' =
              [pc |-> IF move THEN "log" ELSE "work", version |-> current, level |-> l,
               deleted |-> NumbersAt(l, in[1]) \union NumbersAt(l + 1, in[2]),
               rest |-> IF move THEN {} ELSE
                          {e \in entries : ~Dropped(current, l, entries, SmallestSnapshot, e)},
               outputs |-> {},
               moved |-> IF move THEN in[1] ELSE {},
               stops |-> IF move THEN {} ELSE Stops(entries, grand)]
    /\ UNCHANGED <<memory, imm, disk, nextFile, current, manifest, flush, bgError, users, phase, used>>

\* The next output: as much of the rest as one holds, and none beyond a stop.
Output ==
    LET upTo(e) == {d \in compact.rest : ~Before(e, d)}
        fits(e) == /\ Cardinality(upTo(e)) <= limits.entries
                   /\ ~ \E t \in compact.stops : Before(Smallest(compact.rest), t) /\ ~Before(e, t)
    IN  upTo(Greatest({e \in compact.rest : fits(e)}))

\* DoCompactionWork writes an output, synced before it is closed, or fails.
WriteOutput ==
    /\ Working /\ compact.rest # {}
    /\ \/ /\ disk' = WithFiles([n \in {nextFile} |-> Output])
          /\ compact' = [compact EXCEPT !.rest = @ \ Output,
                                        !.outputs = @ \union {Meta(nextFile, Output)}]
          /\ UNCHANGED <<bgError, used>>
       \/ /\ bgError' = TRUE /\ compact' = None
          /\ Use("fail")
          /\ UNCHANGED disk
    /\ nextFile' = nextFile + 1
    /\ UNCHANGED <<memory, imm, current, manifest, flush, users, phase>>

CompactionEdit ==
    [deleted |-> compact.deleted,
     added |-> [NoFiles EXCEPT ![compact.level + 1] = compact.outputs \union compact.moved],
     log |-> FALSE]

\* InstallCompactionResults, or the move of a file.
LogCompaction ==
    /\ flush = None /\ compact # None /\ compact.rest = {} /\ compact.pc \in {"work", "log"}
    /\ \/ /\ Logged(CompactionEdit)
          /\ compact' = [compact EXCEPT !.pc = "install"]
          /\ UNCHANGED <<disk, bgError, used>>
       \/ /\ LogFails(CompactionEdit)
          /\ compact' = None
          /\ disk' = DeleteObsoleteFiles(current, None, TRUE)
    /\ UNCHANGED <<limits, written, mem, imm, nextFile, current, flush, users, phase>>

\* The inputs are released before the obsolete files are deleted.
InstallCompaction ==
    /\ compact # None /\ compact.pc = "install"
    /\ current' = Applied(current, CompactionEdit)
    /\ compact' = None
    /\ disk' = IF compact.moved = {} THEN DeleteObsoleteFiles(current', None, bgError) ELSE disk
    /\ UNCHANGED <<memory, imm, nextFile, manifest, flush, bgError, users, phase, used>>

-----------------------------------------------------------------------------
(* The end of the process, and DB::Open *)

Crash ==
    /\ phase # "down" /\ Use("crash")
    /\ phase' = "down"
    /\ mem' = {} /\ imm' = None /\ compact' = None /\ flush' = None /\ bgError' = FALSE
    /\ readers' = {} /\ snapshots' = {} /\ current' = NoFiles
    /\ UNCHANGED <<limits, written, logs, disk, nextFile, manifest>>

\* Each log becomes a table of level 0; numbers start where the manifest says.
Recover ==
    /\ phase = "down"
    /\ LET full == {i \in 1..Len(logs) : logs[i] # {}}
           number(i) == manifest.next + Cardinality({j \in full : j <= i})
           tables == [n \in {number(i) : i \in full} |-> logs[CHOOSE i \in full : number(i) = n]]
       IN  /\ disk' = WithFiles(tables)
           /\ current' = [manifest.files EXCEPT ![0] = @ \union {Meta(n, tables[n]) : n \in DOMAIN tables}]
           /\ nextFile' = manifest.next + Cardinality(full) + 1
    /\ phase' = "recovered"
    /\ UNCHANGED <<memory, imm, manifest, compact, flush, bgError, users, used>>

\* The new manifest and CURRENT; then DeleteObsoleteFiles.
Opened ==
    /\ phase = "recovered"
    /\ manifest' = [files |-> current, next |-> nextFile]
    /\ logs' = <<{}>>
    /\ disk' = DeleteObsoleteFiles(current, None, FALSE)
    /\ phase' = "open"
    /\ UNCHANGED <<limits, written, mem, imm, nextFile, current, compact, flush, bgError, users, used>>

-----------------------------------------------------------------------------
Next ==
    \/ \E k \in Key, del \in BOOLEAN : Write(k, del)
    \/ SwitchMemTable \/ StartRead \/ EndRead \/ GetSnapshot \/ ReleaseSnapshot
    \/ WriteLevel0Table \/ LogMemTable \/ InstallMemTable
    \/ BackgroundCompaction \/ WriteOutput \/ LogCompaction \/ InstallCompaction
    \/ Crash \/ Recover \/ Opened

Spec == Init /\ [][Next]_vars

-----------------------------------------------------------------------------
Truth(k, s) == Live(Newest(written, k, s))
Views == IF phase = "open" THEN readers \union {View(s) : s \in snapshots \union {lastSequence}} ELSE {}

\* Whoever reads, now or with a view taken long ago, by Get or with an iterator, finds
\* the newest entry up to its sequence number: compactions drop, move and delete nothing
\* that anyone can still ask for, and a restart loses nothing.
ReadsAreRight ==
    \A r \in Views, k \in Key : Get(r, k) = Truth(k, r.seq) /\ Iterated(r, k) = Truth(k, r.seq)

\* No table a version, a compaction or the manifest refers to is deleted or overwritten.
TablesArePresent ==
    \A v \in Versions(current, compact, readers) \union {manifest.files} :
        \A f \in UNION {v[l] : l \in Level} :
            /\ f.number \in DOMAIN disk
            /\ Meta(f.number, disk[f.number]) = f

Disjoint(f, g) == Before(f.largest, g.smallest) \/ Before(g.largest, f.smallest)
SameRange(f, g) == f.smallest = g.smallest /\ f.largest = g.largest

\* Files of a level but 0 do not overlap, in what a restart finds too; but a memtable
\* whose edit failed within a compaction is saved a second time and may be there twice.
LevelsAreSorted ==
    \A v \in {current, manifest.files} : \A l \in Level \ {0} : \A f, g \in v[l] :
        f # g => Disjoint(f, g) \/ SameRange(f, g)

\* "entries never hop across levels": what is found at one level is newer than what is below.
NewerIsAbove ==
    \A l, m \in Level : l < m => \A f \in current[l], g \in current[m] :
        \A d \in Entries(f), e \in Entries(g) : d.key = e.key => d.seq > e.seq
=============================================================================
