-------------------------- MODULE VersionFilesProofs -------------------------
(* No table that anyone still refers to is deleted or overwritten, and every *)
(* level but 0 stays sorted. *)
EXTENDS VersionFiles, FiniteSetTheorems, SequenceTheorems, WellFoundedInduction, TLAPS

\* NULL is no object: what stands for it is not a record with a program counter.
NoneIsNoRecord == "pc" \notin DOMAIN None

-----------------------------------------------------------------------------
(* The inductive invariant *)

FilesOf(v) == UNION {v[l] : l \in Level}
EditAdds(edit) == UNION {edit.added[l] : l \in Level}

\* The file is on disk, and is what its version says.
Right(f) == f.number \in DOMAIN disk /\ Meta(f.number, disk[f.number]) = f
Known(f) == Right(f) /\ f.number \in Nat /\ f.number < nextFile

\* The files the process holds on to: those of its versions, and those under way.
Held(f) ==
    \/ f \in FilesOf(current)
    \/ \E r \in readers : f \in FilesOf(r.version)
    \/ compact # None /\ (f \in FilesOf(compact.version) \/ f \in compact.outputs)
    \/ flush # None /\ f \in EditAdds(flush.edit)

Saved == FilesOf(manifest.files)

\* Values do not matter here, but what is a function and what a record.
FilesTypeOK ==
    /\ nextFile \in Nat /\ manifest.next \in Nat /\ manifest.next <= nextFile
    /\ \E S : logs \in Seq(S)
    /\ current = [l \in Level |-> current[l]]
    /\ manifest.files = [l \in Level |-> manifest.files[l]]
    /\ compact # None =>
          compact = [pc |-> compact.pc, version |-> compact.version, level |-> compact.level,
                     deleted |-> compact.deleted, rest |-> compact.rest, outputs |-> compact.outputs,
                     moved |-> compact.moved, stops |-> compact.stops]
    /\ flush # None => flush = [pc |-> flush.pc, edit |-> flush.edit]

\* While nothing is open, nothing is held.
AtRest == phase # "open" => compact = None /\ flush = None /\ readers = {}

\* A memtable is not saved while a compaction is.
OneEdit == flush # None /\ compact # None => compact.pc = "work"

MovedIsHeld == compact # None => compact.moved \subseteq FilesOf(compact.version)

\* Unless there was an error, the manifest is the current version, or the one to install.
Installing ==
    phase = "open" /\ ~bgError =>
        manifest.files =
            IF flush # None /\ flush.pc = "install" THEN Applied(current, flush.edit)
            ELSE IF compact # None /\ compact.pc = "install" THEN Applied(current, CompactionEdit)
            ELSE current

AllKnown ==
    /\ \A f : Held(f) => Known(f)
    /\ \A f \in Saved : Known(f) /\ f.number < manifest.next

FilesInv == FilesTypeOK /\ AtRest /\ OneEdit /\ MovedIsHeld /\ Installing /\ AllKnown

-----------------------------------------------------------------------------
(* What the operators give *)

\* A table has the number it was written under.
LEMMA MetaNumber ==
    ASSUME NEW n, NEW entries
    PROVE  Meta(n, entries).number = n
BY DEF Meta

\* A file of a version after an edit was there before, or is added by it.
LEMMA AppliedFiles ==
    ASSUME NEW v, NEW edit
    PROVE  /\ FilesOf(Applied(v, edit)) \subseteq FilesOf(v) \union EditAdds(edit)
           /\ Applied(v, edit) = [l \in Level |-> Applied(v, edit)[l]]
BY DEF Applied, FilesOf, EditAdds

\* An edit that adds at one level adds nothing else.
LEMMA AddedFiles ==
    ASSUME NEW edit, NEW l, NEW fs, edit.added = [NoFiles EXCEPT ![l] = fs]
    PROVE  EditAdds(edit) \subseteq fs
<1>1. \A m \in Level : [NoFiles EXCEPT ![l] = fs][m] \in {fs, {}}
    BY DEF NoFiles
<1>2. QED
    BY <1>1 DEF EditAdds

\* A file that is there stays as it is when files of other numbers are written.
LEMMA WithFilesRight ==
    ASSUME NEW tables, disk' = WithFiles(tables)
    PROVE  /\ \A f : Right(f) /\ f.number \notin DOMAIN tables => Right(f)'
           /\ \A n \in DOMAIN tables : Right(Meta(n, tables[n]))'
<1>1. \A f : Right(f) /\ f.number \notin DOMAIN tables => Right(f)'
    BY DEF Right, WithFiles, Meta
<1>2. ASSUME NEW n \in DOMAIN tables PROVE Right(Meta(n, tables[n]))'
    <2>1. Meta(n, tables[n]).number = n
        BY MetaNumber
    <2>2. n \in DOMAIN disk' /\ disk'[n] = tables[n]
        BY DEF WithFiles
    <2>3. QED
        BY <2>1, <2>2 DEF Right, Meta
<1>3. QED
    BY <1>1, <1>2

\* DeleteObsoleteFiles leaves the files of the versions it is given and the outputs.
LEMMA DeleteKeeps ==
    ASSUME NEW v, NEW c, NEW error, disk' = DeleteObsoleteFiles(v, c, error), NEW f, Right(f),
           \/ error
           \/ \E w \in Versions(v, c, readers) : f \in FilesOf(w)
           \/ c # None /\ f \in c.outputs
    PROVE  Right(f)'
<1>1. CASE error
    BY <1>1 DEF DeleteObsoleteFiles, Right, Meta
<1>2. CASE ~error
    <2> DEFINE live == PendingOutputs(c) \union UNION {Numbers(w) : w \in Versions(v, c, readers)}
    <2>1. disk' = [n \in DOMAIN disk \cap live |-> disk[n]]
        BY <1>2 DEF DeleteObsoleteFiles
    <2>2. f.number \in live
        <3>1. CASE \E w \in Versions(v, c, readers) : f \in FilesOf(w)
            BY <3>1 DEF Numbers, FilesOf
        <3>2. CASE c # None /\ f \in c.outputs
            BY <3>2 DEF PendingOutputs
        <3>3. QED
            BY <1>2, <3>1, <3>2
    <2> HIDE DEF live
    <2>3. f.number \in DOMAIN disk' /\ disk'[f.number] = disk[f.number]
        BY <2>1, <2>2 DEF Right
    <2>4. QED
        BY <2>3 DEF Right, Meta
<1>3. QED
    BY <1>1, <1>2

\* What PickCompaction takes is a file of the version, at a level there is.
LEMMA PickedIsThere ==
    ASSUME NEW v, NEW p \in Picked(v)
    PROVE  p[1] \in Level /\ p[2] \in v[p[1]]
<1>1. NumLevels \in Nat /\ 0 \in Level /\ \A l \in 0..NumLevels - 2 : l \in Level
    BY LevelAssumption DEF Level
<1>2. CASE NeedsSize(v)
    <2>1. PICK l \in BestLevel(v) : p \in {<<l, f>> : f \in v[l]}
        BY <1>2 DEF Picked
    <2>2. l \in Level
        BY <1>1 DEF BestLevel
    <2>3. QED
        BY <2>1, <2>2
<1>3. CASE ~NeedsSize(v)
    <2>1. PICK k \in Key, s \in 0..lastSequence : p \in Searched(v, k, s)
        BY <1>3 DEF Picked, Charged
    <2>2. CASE p \in {<<0, f>> : f \in {f \in v[0] : Covers(f, k)}}
        BY <1>1, <2>2
    <2>3. CASE \E l \in Level \ {0} :
                 p \in {<<l, f>> : f \in {f \in FindFile(v[l], [key |-> k, seq |-> s]) : Covers(f, k)}}
        <3>1. PICK l \in Level \ {0} :
                 p \in {<<l, f>> : f \in {f \in FindFile(v[l], [key |-> k, seq |-> s]) : Covers(f, k)}}
            BY <2>3
        <3>2. QED
            BY <3>1 DEF FindFile
    <2>4. QED
        BY <2>1, <2>2, <2>3 DEF Searched
<1>4. QED
    BY <1>2, <1>3

\* The inputs of a compaction at its own level are files of that level.
LEMMA InputsAreThere ==
    ASSUME NEW v, NEW l, NEW f \in v[l]
    PROVE  SetupOtherInputs(v, l, Inputs0(v, l, f))[1] \subseteq v[l]
<1>1. Inputs0(v, l, f) \subseteq v[l]
    BY DEF Inputs0, GetOverlappingInputs
<1>2. QED
    BY <1>1 DEF SetupOtherInputs, GetOverlappingInputs
-----------------------------------------------------------------------------
(* The steps *)

\* What a file is held by in the next state.
LEMMA HeldNext ==
    ASSUME NEW f, Held(f)'
    PROVE  \/ f \in FilesOf(current')
           \/ \E r \in readers' : f \in FilesOf(r.version)
           \/ compact' # None /\ (f \in FilesOf(compact'.version) \/ f \in compact'.outputs)
           \/ flush' # None /\ f \in EditAdds(flush'.edit)
BY DEF Held, FilesOf, EditAdds

\* Reads and writes, which change no file.
LEMMA QuietPreserves ==
    ASSUME FilesInv, FilesUnchanged, NEW S, logs' \in Seq(S),
           \A r \in readers' : r \in readers \/ r.version = current,
           phase # "open" => readers' = {}
    PROVE  FilesInv'
<1>1. /\ disk' = disk /\ nextFile' = nextFile /\ current' = current /\ manifest' = manifest
      /\ compact' = compact /\ flush' = flush /\ bgError' = bgError /\ phase' = phase
    BY DEF FilesUnchanged
<1>2. FilesTypeOK'
    BY <1>1 DEF FilesInv, FilesTypeOK
<1>3. AtRest' /\ OneEdit' /\ MovedIsHeld'
    BY <1>1 DEF FilesInv, AtRest, OneEdit, MovedIsHeld, FilesOf
<1>4. Installing'
    BY <1>1 DEF FilesInv, Installing, Applied, CompactionEdit
<1>5. \A f : Known(f) => Known(f)'
    BY <1>1 DEF Known, Right, Meta
<1>6. \A f : Held(f)' => Held(f)
    BY <1>1, HeldNext DEF Held
<1>7. AllKnown'
    BY <1>1, <1>5, <1>6 DEF FilesInv, AllKnown, Saved, FilesOf
<1>8. QED
    BY <1>2, <1>3, <1>4, <1>7 DEF FilesInv

\* A log that gets an entry is a log.
LEMMA LogsStay ==
    ASSUME FilesInv, NEW x
    PROVE  \E S : /\ logs \in Seq(S) /\ [logs EXCEPT ![Len(logs)] = x] \in Seq(S)
                  /\ Append(logs, x) \in Seq(S)
<1>1. PICK S : logs \in Seq(S)
    BY DEF FilesInv, FilesTypeOK
<1>2. logs \in Seq(S \union {x}) /\ x \in S \union {x}
    BY <1>1
<1>3. [logs EXCEPT ![Len(logs)] = x] \in Seq(S \union {x})
    <2>1. Len(logs) \in Nat /\ logs \in [1..Len(logs) -> S \union {x}]
        BY <1>2
    <2>2. [logs EXCEPT ![Len(logs)] = x] \in [1..Len(logs) -> S \union {x}]
        BY <2>1
    <2>3. QED
        BY <2>1, <2>2, SeqDef
<1>4. Append(logs, x) \in Seq(S \union {x})
    BY <1>2
<1>5. QED
    BY <1>2, <1>3, <1>4

\* The calls of users keep the invariant.
LEMMA CallsPreserve ==
    ASSUME FilesInv,
           \/ \E k \in Key, del \in BOOLEAN : Write(k, del)
           \/ SwitchMemTable \/ StartRead \/ EndRead \/ GetSnapshot \/ ReleaseSnapshot
    PROVE  FilesInv'
<1>1. CASE \E k \in Key, del \in BOOLEAN : Write(k, del)
    <2>1. PICK x : logs' = [logs EXCEPT ![Len(logs)] = x]
        BY <1>1 DEF Write
    <2>2. FilesUnchanged /\ readers' = readers /\ phase = "open"
        BY <1>1 DEF Write, users
    <2>3. QED
        BY <2>1, <2>2, LogsStay, QuietPreserves
<1>2. CASE SwitchMemTable
    BY <1>2, LogsStay, QuietPreserves DEF SwitchMemTable, users
<1>3. CASE StartRead
    <2>1. logs' = logs /\ FilesUnchanged /\ phase = "open"
        BY <1>3 DEF StartRead, memory
    <2>2. \A r \in readers' : r \in readers \/ r.version = current
        BY <1>3 DEF StartRead, View
    <2>3. QED
        BY <2>1, <2>2, LogsStay, QuietPreserves
<1>4. CASE EndRead \/ GetSnapshot \/ ReleaseSnapshot
    <2>1. logs' = logs /\ FilesUnchanged /\ readers' \subseteq readers
        BY <1>4 DEF EndRead, GetSnapshot, ReleaseSnapshot, memory
    <2>2. phase # "open" => readers' = {}
        BY <2>1 DEF FilesInv, AtRest
    <2>3. QED
        BY <2>1, <2>2, LogsStay, QuietPreserves
<1>5. QED
    BY <1>1, <1>2, <1>3, <1>4

\* The table of the memtable, or an error.
LEMMA WriteLevel0TablePreserves ==
    ASSUME FilesInv, WriteLevel0Table
    PROVE  FilesInv'
<1>1. /\ imm # None /\ (CanStart \/ Working) /\ nextFile' = nextFile + 1
      /\ UNCHANGED <<logs, current, manifest, compact, readers, phase>>
    BY DEF WriteLevel0Table, memory, users
<1>2. phase = "open" /\ flush = None /\ (compact # None => compact.pc = "work")
    BY <1>1 DEF CanStart, Working, FilesInv, AtRest
<1>3. \/ /\ disk' = WithFiles([n \in {nextFile} |-> imm])
         /\ flush' = [pc |-> "log", edit |-> MemTableEdit(nextFile)] /\ bgError' = bgError
      \/ bgError' = TRUE /\ disk' = disk /\ flush' = None
    BY <1>2 DEF WriteLevel0Table
<1>4. nextFile \in Nat
    BY DEF FilesInv, FilesTypeOK
<1>5. FilesTypeOK'
    <2>1. flush' # None => flush' = [pc |-> flush'.pc, edit |-> flush'.edit]
        BY <1>3
    <2>2. nextFile' \in Nat /\ manifest'.next <= nextFile'
        BY <1>1, <1>4 DEF FilesInv, FilesTypeOK
    <2>3. QED
        BY <1>1, <2>1, <2>2 DEF FilesInv, FilesTypeOK
<1>6. AtRest' /\ OneEdit' /\ MovedIsHeld'
    BY <1>1, <1>2 DEF FilesInv, AtRest, OneEdit, MovedIsHeld, FilesOf
<1>7. flush' # None /\ ~bgError' => flush'.pc = "log"
    BY <1>3
<1>8. Installing'
    BY <1>1, <1>2, <1>3, <1>7 DEF FilesInv, Installing
<1>9. /\ \A f : Known(f) => Known(f)'
      /\ flush' # None => \A f \in EditAdds(flush'.edit) : Known(f)'
    <2>1. CASE /\ disk' = WithFiles([n \in {nextFile} |-> imm])
               /\ flush' = [pc |-> "log", edit |-> MemTableEdit(nextFile)]
        <3>1. PICK tables : tables = [n \in {nextFile} |-> imm]
            OBVIOUS
        <3>2. DOMAIN tables = {nextFile} /\ tables[nextFile] = imm /\ disk' = WithFiles(tables)
            BY <2>1, <3>1
        <3>3. \A f : Known(f) => Known(f)'
            BY <1>1, <1>4, <3>2, WithFilesRight DEF Known
        <3>4. PICK g : g = Meta(nextFile, imm) /\ g.number = nextFile
            BY MetaNumber
        <3>5. Right(g)'
            BY <3>2, <3>4, WithFilesRight
        <3>6. Known(g)'
            BY <1>1, <1>4, <3>4, <3>5 DEF Known
        <3>7. EditAdds(MemTableEdit(nextFile)) \subseteq {g}
            <4>1. PICK l : MemTableEdit(nextFile).added = [NoFiles EXCEPT ![l] = {g}]
                BY <3>4 DEF MemTableEdit
            <4>2. QED
                BY <4>1, AddedFiles
        <3>8. QED
            BY <2>1, <3>3, <3>6, <3>7
    <2>2. CASE disk' = disk /\ flush' = None
        BY <1>1, <1>4, <2>2 DEF Known, Right, Meta
    <2>3. QED
        BY <1>3, <2>1, <2>2
<1>10. \A f : Held(f)' => Held(f) \/ (flush' # None /\ f \in EditAdds(flush'.edit))
    BY <1>1, HeldNext DEF Held
<1>11. AllKnown'
    <2>1. \A f : Held(f)' => Known(f)'
        BY <1>9, <1>10 DEF FilesInv, AllKnown
    <2>2. Saved' = Saved /\ manifest' = manifest
        BY <1>1 DEF Saved, FilesOf
    <2>3. QED
        BY <1>9, <2>1, <2>2 DEF FilesInv, AllKnown
<1>12. QED
    BY <1>5, <1>6, <1>8, <1>11 DEF FilesInv

\* What a record of the manifest leaves: every file of it is known, and numbered below
\* the number it sets.
LEMMA LoggedKnown ==
    ASSUME FilesInv, NEW edit, \A f \in EditAdds(edit) : Known(f), Logged(edit),
           disk' = disk, nextFile' = nextFile
    PROVE  /\ \A f : Known(f) => Known(f)'
           /\ \A f \in Saved' : Known(f)' /\ f.number < manifest'.next
           /\ manifest'.files = Applied(manifest.files, edit) /\ manifest'.next = nextFile
           /\ manifest'.files = [l \in Level |-> manifest'.files[l]]
           /\ \E S : logs' \in Seq(S)
<1>1. \A f : Known(f) => Known(f)'
    BY DEF Known, Right, Meta
<1>2. manifest'.files = Applied(manifest.files, edit) /\ manifest'.next = nextFile
    BY DEF Logged
<1>3. \A f \in Saved' : f \in Saved \/ f \in EditAdds(edit)
    <2>1. Saved' = FilesOf(manifest'.files)
        BY DEF Saved, FilesOf
    <2>2. QED
        BY <1>2, <2>1, AppliedFiles DEF Saved
<1>4. \A f \in Saved' : Known(f)
    BY <1>3 DEF FilesInv, AllKnown
<1>5. \A f \in Saved' : Known(f)' /\ f.number < manifest'.next
    BY <1>1, <1>2, <1>4 DEF Known
<1>6. manifest'.files = [l \in Level |-> manifest'.files[l]]
    BY <1>2, AppliedFiles
<1>7. \E S : logs' \in Seq(S)
    <2>1. PICK x : x = logs[Len(logs)]
        OBVIOUS
    <2>2. logs' = logs \/ logs' = <<x>>
        BY <2>1 DEF Logged
    <2>3. <<x>> \in Seq({x})
        OBVIOUS
    <2>4. QED
        BY <2>2, <2>3 DEF FilesInv, FilesTypeOK
<1>8. QED
    BY <1>1, <1>2, <1>5, <1>6, <1>7

\* The same when the record may not be there.
LEMMA LogFailsKnown ==
    ASSUME FilesInv, NEW edit, \A f \in EditAdds(edit) : Known(f), LogFails(edit),
           disk' = disk, nextFile' = nextFile
    PROVE  /\ \A f : Known(f) => Known(f)'
           /\ \A f \in Saved' : Known(f)' /\ f.number < manifest'.next
           /\ manifest'.next \in Nat /\ manifest'.next <= nextFile
           /\ manifest'.files = [l \in Level |-> manifest'.files[l]]
           /\ \E S : logs' \in Seq(S)
<1>0. nextFile \in Nat /\ nextFile <= nextFile
    BY DEF FilesInv, FilesTypeOK
<1>1. CASE Logged(edit)
    BY <1>0, <1>1, LoggedKnown
<1>2. CASE UNCHANGED <<manifest, logs>>
    <2>1. \A f : Known(f) => Known(f)'
        BY DEF Known, Right, Meta
    <2>2. Saved' = Saved /\ manifest' = manifest /\ logs' = logs
        BY <1>2 DEF Saved, FilesOf
    <2>3. \A f \in Saved' : Known(f)' /\ f.number < manifest'.next
        BY <2>1, <2>2 DEF FilesInv, AllKnown
    <2>4. QED
        BY <2>1, <2>2, <2>3 DEF FilesInv, FilesTypeOK
<1>3. QED
    BY <1>1, <1>2 DEF LogFails

\* The edit that adds the table of the memtable is logged, or is not.
LEMMA LogMemTablePreserves ==
    ASSUME NoneIsNoRecord, FilesInv, LogMemTable
    PROVE  FilesInv'
<1>1. /\ flush # None /\ flush.pc = "log" /\ phase = "open"
      /\ UNCHANGED <<disk, nextFile, current, compact, readers, phase>>
    BY DEF LogMemTable, users, FilesInv, AtRest
<1>2. compact # None => compact.pc = "work"
    BY <1>1 DEF FilesInv, OneEdit
<1>3. PICK e : e = flush.edit
    OBVIOUS
<1>4. \A f \in EditAdds(e) : Known(f)
    BY <1>1, <1>3 DEF FilesInv, AllKnown, Held
<1>5. \/ Logged(e) /\ flush' = [flush EXCEPT !.pc = "install"] /\ bgError' = bgError
      \/ LogFails(e) /\ flush' = None /\ bgError' = TRUE
    BY <1>3 DEF LogMemTable, LogFails
<1>6. flush' # None => flush' = [pc |-> "install", edit |-> e]
    BY <1>1, <1>3, <1>5 DEF FilesInv, FilesTypeOK
<1>7. /\ \A f : Known(f) => Known(f)'
      /\ \A f \in Saved' : Known(f)' /\ f.number < manifest'.next
      /\ manifest'.next \in Nat /\ manifest'.next <= nextFile
      /\ manifest'.files = [l \in Level |-> manifest'.files[l]]
      /\ \E S : logs' \in Seq(S)
    <2>1. nextFile \in Nat /\ nextFile <= nextFile
        BY DEF FilesInv, FilesTypeOK
    <2>2. CASE Logged(e)
        BY <1>1, <1>4, <2>1, <2>2, LoggedKnown
    <2>3. CASE LogFails(e)
        BY <1>1, <1>4, <2>3, LogFailsKnown
    <2>4. QED
        BY <1>5, <2>2, <2>3
<1>8. FilesTypeOK'
    BY <1>1, <1>6, <1>7 DEF FilesInv, FilesTypeOK
<1>9. AtRest' /\ OneEdit' /\ MovedIsHeld'
    BY <1>1, <1>2 DEF FilesInv, AtRest, OneEdit, MovedIsHeld, FilesOf
<1>10. Installing'
    <2>1. CASE bgError'
        BY <2>1 DEF Installing
    <2>2. CASE ~bgError'
        <3>1. Logged(e) /\ flush' = [flush EXCEPT !.pc = "install"] /\ ~bgError
            BY <1>5, <2>2
        <3>2. manifest.files = current
            BY <1>1, <1>2, <3>1 DEF FilesInv, Installing
        <3>3. flush' = [pc |-> "install", edit |-> e]
            BY <1>1, <1>3, <3>1 DEF FilesInv, FilesTypeOK
        <3>4. manifest'.files = Applied(current, e)
            BY <3>1, <3>2 DEF Logged
        <3>5. flush' # None
            BY <3>3 DEF NoneIsNoRecord
        <3>6. QED
            BY <1>1, <3>3, <3>4, <3>5 DEF Installing, Applied
    <2>3. QED
        BY <2>1, <2>2
<1>11. \A f : Held(f)' => Held(f)
    BY <1>1, <1>3, <1>6, HeldNext DEF Held
<1>12. AllKnown'
    BY <1>7, <1>11 DEF FilesInv, AllKnown
<1>13. QED
    BY <1>8, <1>9, <1>10, <1>12 DEF FilesInv

\* The version with the memtable's table is installed and what is obsolete deleted.
LEMMA InstallMemTablePreserves ==
    ASSUME FilesInv, InstallMemTable
    PROVE  FilesInv'
<1>1. /\ flush # None /\ flush.pc = "install" /\ phase = "open" /\ flush' = None
      /\ UNCHANGED <<logs, nextFile, manifest, compact, bgError, readers, phase>>
    BY DEF InstallMemTable, memory, users, FilesInv, AtRest
<1>2. compact # None => compact.pc = "work"
    BY <1>1 DEF FilesInv, OneEdit
<1>3. PICK e, w, c : e = flush.edit /\ w = Applied(current, e) /\ c = compact
    OBVIOUS
<1>4. current' = w /\ disk' = DeleteObsoleteFiles(w, c, bgError)
    BY <1>3 DEF InstallMemTable
<1>5. ~bgError => manifest.files = w
    BY <1>1, <1>3 DEF FilesInv, Installing
<1>6. FilesTypeOK'
    BY <1>1, <1>3, <1>4, AppliedFiles DEF FilesInv, FilesTypeOK
<1>7. AtRest' /\ OneEdit' /\ MovedIsHeld'
    BY <1>1, <1>2 DEF FilesInv, AtRest, OneEdit, MovedIsHeld, FilesOf
<1>8. Installing'
    BY <1>1, <1>2, <1>4, <1>5 DEF Installing
<1>9. ASSUME NEW f, Held(f)' PROVE Known(f)'
    <2>1. \/ f \in FilesOf(w)
          \/ \E r \in readers : f \in FilesOf(r.version)
          \/ c # None /\ (f \in FilesOf(c.version) \/ f \in c.outputs)
        BY <1>1, <1>3, <1>4, <1>9, HeldNext
    <2>2. f \in FilesOf(w) => Held(f)
        BY <1>1, <1>3, AppliedFiles DEF Held
    <2>3. Held(f)
        BY <1>3, <2>1, <2>2 DEF Held
    <2>4. Known(f)
        BY <2>3 DEF FilesInv, AllKnown
    <2>5. (\E v \in Versions(w, c, readers) : f \in FilesOf(v)) \/ (c # None /\ f \in c.outputs)
        BY <2>1 DEF Versions
    <2>6. Right(f)'
        BY <1>4, <2>4, <2>5, DeleteKeeps DEF Known
    <2>7. QED
        BY <1>1, <2>4, <2>6 DEF Known
<1>10. ASSUME NEW f \in Saved' PROVE Known(f)' /\ f.number < manifest'.next
    <2>1. f \in Saved /\ f \in FilesOf(manifest.files)
        BY <1>1 DEF Saved, FilesOf
    <2>2. Known(f) /\ f.number < manifest.next
        BY <2>1 DEF FilesInv, AllKnown
    <2>3. bgError \/ \E v \in Versions(w, c, readers) : f \in FilesOf(v)
        BY <1>5, <2>1 DEF Versions
    <2>4. Right(f)'
        BY <1>4, <2>2, <2>3, DeleteKeeps DEF Known
    <2>5. QED
        BY <1>1, <2>2, <2>4 DEF Known
<1>11. AllKnown'
    BY <1>9, <1>10 DEF AllKnown
<1>12. QED
    BY <1>6, <1>7, <1>8, <1>11 DEF FilesInv

\* A compaction starts from the current version.
LEMMA BackgroundCompactionPreserves ==
    ASSUME FilesInv, BackgroundCompaction
    PROVE  FilesInv'
<1>1. /\ phase = "open" /\ ~bgError /\ compact = None /\ flush = None
      /\ UNCHANGED <<logs, disk, nextFile, current, manifest, flush, bgError, readers, phase>>
    BY DEF BackgroundCompaction, CanStart, memory, users
<1>2. PICK v : v = current
    OBVIOUS
<1>3. PICK p \in Picked(v) :
        LET l == p[1]
            in == SetupOtherInputs(v, l, Inputs0(v, l, p[2]))
            grand == GrandParents(v, l, in[1] \union in[2])
            entries == MakeInputIterator(in)
            move == /\ Cardinality(in[1]) = 1 /\ in[2] = {}
                    /\ Size(grand) <= MaxGrandParentOverlap
        IN  compact' =
              [pc |-> IF move THEN "log" ELSE "work", version |-> v, level |-> l,
               deleted |-> NumbersAt(l, in[1]) \union NumbersAt(l + 1, in[2]),
               rest |-> IF move THEN {} ELSE
                          {e \in entries : ~Dropped(v, l, entries, SmallestSnapshot, e)},
               outputs |-> {},
               moved |-> IF move THEN in[1] ELSE {},
               stops |-> IF move THEN {} ELSE Stops(entries, grand)]
    BY <1>2, ZenonT(60) DEF BackgroundCompaction
<1>4. PICK in : in = SetupOtherInputs(v, p[1], Inputs0(v, p[1], p[2]))
    OBVIOUS
<1>5. PICK move, deleted, rest, stops :
        compact' = [pc |-> IF move THEN "log" ELSE "work", version |-> v, level |-> p[1],
                    deleted |-> deleted, rest |-> rest, outputs |-> {},
                    moved |-> IF move THEN in[1] ELSE {}, stops |-> stops]
    BY <1>3, <1>4
<1>6. PICK pc, moved :
        /\ pc \in {"log", "work"} /\ pc = IF move THEN "log" ELSE "work"
        /\ moved = IF move THEN in[1] ELSE {}
    OBVIOUS
<1>7. p[1] \in Level /\ moved \subseteq v[p[1]]
    BY <1>3, <1>4, <1>6, PickedIsThere, InputsAreThere
<1>8. moved \subseteq FilesOf(v)
    BY <1>7 DEF FilesOf
<1>9. /\ compact'.pc = pc /\ compact'.version = v /\ compact'.outputs = {} /\ compact'.moved = moved
      /\ compact' = [pc |-> compact'.pc, version |-> compact'.version, level |-> compact'.level,
                     deleted |-> compact'.deleted, rest |-> compact'.rest, outputs |-> compact'.outputs,
                     moved |-> compact'.moved, stops |-> compact'.stops]
    BY <1>5, <1>6
<1>10. FilesTypeOK'
    BY <1>1, <1>9 DEF FilesInv, FilesTypeOK
<1>11. AtRest' /\ OneEdit'
    BY <1>1 DEF AtRest, OneEdit
<1>12. MovedIsHeld'
    BY <1>8, <1>9 DEF MovedIsHeld, FilesOf
<1>13. Installing'
    <2>1. compact'.pc # "install"
        BY <1>6, <1>9
    <2>2. QED
        BY <1>1, <2>1 DEF FilesInv, Installing
<1>14. \A f : Held(f)' => Held(f)
    BY <1>1, <1>2, <1>9, HeldNext DEF Held
<1>15. \A f : Known(f) => Known(f)'
    BY <1>1 DEF Known, Right, Meta
<1>16. AllKnown'
    <2>1. Saved' = Saved /\ manifest' = manifest
        BY <1>1 DEF Saved, FilesOf
    <2>2. QED
        BY <1>14, <1>15, <2>1 DEF FilesInv, AllKnown
<1>17. QED
    BY <1>10, <1>11, <1>12, <1>13, <1>16 DEF FilesInv

\* A compaction writes an output under a number nobody has, or fails.
LEMMA WriteOutputPreserves ==
    ASSUME FilesInv, WriteOutput
    PROVE  FilesInv'
<1>1. /\ compact # None /\ compact.pc = "work" /\ flush = None /\ nextFile' = nextFile + 1
      /\ phase = "open"
      /\ UNCHANGED <<logs, current, manifest, flush, readers, phase>>
    BY DEF WriteOutput, Working, memory, users, FilesInv, AtRest
<1>2. PICK out, g : out = Output /\ g = Meta(nextFile, out) /\ g.number = nextFile
    BY MetaNumber
<1>3. \/ /\ disk' = WithFiles([n \in {nextFile} |-> out])
         /\ compact' = [compact EXCEPT !.rest = @ \ out, !.outputs = @ \union {g}]
         /\ bgError' = bgError
      \/ bgError' = TRUE /\ disk' = disk /\ compact' = None
    BY <1>2 DEF WriteOutput
<1>4. nextFile \in Nat
    BY DEF FilesInv, FilesTypeOK
<1>5. /\ compact' # None => /\ compact'.pc = "work" /\ compact'.version = compact.version
                            /\ compact'.moved = compact.moved
                            /\ compact'.outputs = compact.outputs \union {g}
      /\ compact' # None =>
            compact' = [pc |-> compact'.pc, version |-> compact'.version, level |-> compact'.level,
                        deleted |-> compact'.deleted, rest |-> compact'.rest,
                        outputs |-> compact'.outputs, moved |-> compact'.moved, stops |-> compact'.stops]
    BY <1>1, <1>3 DEF FilesInv, FilesTypeOK
<1>6. FilesTypeOK'
    <2>1. nextFile' \in Nat /\ manifest'.next <= nextFile'
        BY <1>1, <1>4 DEF FilesInv, FilesTypeOK
    <2>2. QED
        BY <1>1, <1>5, <2>1 DEF FilesInv, FilesTypeOK
<1>7. AtRest' /\ OneEdit'
    BY <1>1 DEF AtRest, OneEdit
<1>8. MovedIsHeld'
    BY <1>1, <1>5 DEF FilesInv, MovedIsHeld, FilesOf
<1>9. Installing'
    BY <1>1, <1>3, <1>5 DEF FilesInv, Installing
<1>10. /\ \A f : Known(f) => Known(f)'
       /\ compact' # None => Known(g)'
    <2>1. CASE disk' = WithFiles([n \in {nextFile} |-> out])
        <3>1. PICK tables : tables = [n \in {nextFile} |-> out]
            OBVIOUS
        <3>2. DOMAIN tables = {nextFile} /\ tables[nextFile] = out /\ disk' = WithFiles(tables)
            BY <2>1, <3>1
        <3>3. \A f : Known(f) => Known(f)'
            BY <1>1, <1>4, <3>2, WithFilesRight DEF Known
        <3>4. Right(g)'
            BY <1>2, <3>2, WithFilesRight
        <3>5. QED
            BY <1>1, <1>2, <1>4, <3>3, <3>4 DEF Known
    <2>2. CASE disk' = disk /\ compact' = None
        BY <1>1, <1>4, <2>2 DEF Known, Right, Meta
    <2>3. QED
        BY <1>3, <2>1, <2>2
<1>11. \A f : Held(f)' => Held(f) \/ (compact' # None /\ f = g)
    BY <1>1, <1>5, HeldNext DEF Held
<1>12. AllKnown'
    <2>1. Saved' = Saved /\ manifest' = manifest
        BY <1>1 DEF Saved, FilesOf
    <2>2. QED
        BY <1>10, <1>11, <2>1 DEF FilesInv, AllKnown
<1>13. QED
    BY <1>6, <1>7, <1>8, <1>9, <1>12 DEF FilesInv

\* What a compaction adds is held by it.
LEMMA CompactionEditKnown ==
    ASSUME FilesInv, compact # None
    PROVE  \A f \in EditAdds(CompactionEdit) : Held(f) /\ Known(f)
<1>0. PICK l, fs : l = compact.level + 1 /\ fs = compact.outputs \union compact.moved
    OBVIOUS
<1>1. PICK e : e = CompactionEdit /\ e.added = [NoFiles EXCEPT ![l] = fs]
    <2>1. CompactionEdit.added = [NoFiles EXCEPT ![l] = fs]
        BY <1>0 DEF CompactionEdit
    <2>2. QED
        BY <2>1
<1>2. EditAdds(e) \subseteq fs
    BY <1>1, AddedFiles
<1>3. \A f \in fs : Held(f)
    BY <1>0 DEF FilesInv, MovedIsHeld, Held
<1>4. QED
    BY <1>1, <1>2, <1>3 DEF FilesInv, AllKnown

\* The edit of a compaction is logged, or is not.
LEMMA LogCompactionPreserves ==
    ASSUME NoneIsNoRecord, FilesInv, LogCompaction
    PROVE  FilesInv'
<1>1. /\ flush = None /\ compact # None /\ compact.pc \in {"work", "log"} /\ phase = "open"
      /\ UNCHANGED <<nextFile, current, flush, readers, phase>>
    BY DEF LogCompaction, users, FilesInv, AtRest
<1>2. PICK e : e = CompactionEdit
    OBVIOUS
<1>3. \A f \in EditAdds(e) : Known(f)
    BY <1>1, <1>2, CompactionEditKnown
<1>4. /\ disk' = disk
      /\ \/ Logged(e) /\ compact' = [compact EXCEPT !.pc = "install"] /\ bgError' = bgError
         \/ LogFails(e) /\ compact' = None /\ bgError' = TRUE
    BY <1>2 DEF LogCompaction, LogFails, DeleteObsoleteFiles
<1>5. compact' # None =>
         /\ compact'.pc = "install" /\ compact'.version = compact.version /\ compact'.level = compact.level
         /\ compact'.deleted = compact.deleted /\ compact'.outputs = compact.outputs
         /\ compact'.moved = compact.moved
         /\ compact' = [pc |-> compact'.pc, version |-> compact'.version, level |-> compact'.level,
                        deleted |-> compact'.deleted, rest |-> compact'.rest,
                        outputs |-> compact'.outputs, moved |-> compact'.moved, stops |-> compact'.stops]
    BY <1>1, <1>4 DEF FilesInv, FilesTypeOK
<1>6. /\ \A f : Known(f) => Known(f)'
      /\ \A f \in Saved' : Known(f)' /\ f.number < manifest'.next
      /\ manifest'.next \in Nat /\ manifest'.next <= nextFile
      /\ manifest'.files = [l \in Level |-> manifest'.files[l]]
      /\ \E S : logs' \in Seq(S)
    <2>1. nextFile \in Nat /\ nextFile <= nextFile
        BY DEF FilesInv, FilesTypeOK
    <2>2. CASE Logged(e)
        BY <1>1, <1>3, <1>4, <2>1, <2>2, LoggedKnown
    <2>3. CASE LogFails(e)
        BY <1>1, <1>3, <1>4, <2>3, LogFailsKnown
    <2>4. QED
        BY <1>4, <2>2, <2>3
<1>7. FilesTypeOK'
    BY <1>1, <1>5, <1>6 DEF FilesInv, FilesTypeOK
<1>8. AtRest' /\ OneEdit'
    BY <1>1 DEF AtRest, OneEdit
<1>9. MovedIsHeld'
    BY <1>1, <1>5 DEF FilesInv, MovedIsHeld, FilesOf
<1>10. Installing'
    <2>1. CASE bgError'
        BY <2>1 DEF Installing
    <2>2. CASE ~bgError'
        <3>1. Logged(e) /\ compact' = [compact EXCEPT !.pc = "install"] /\ ~bgError
            BY <1>4, <2>2
        <3>2. manifest.files = current
            BY <1>1, <3>1 DEF FilesInv, Installing
        <3>3. manifest'.files = Applied(current, e)
            BY <3>1, <3>2 DEF Logged
        <3>4. compact' # None
            BY <1>1, <3>1 DEF NoneIsNoRecord, FilesInv, FilesTypeOK
        <3>5. CompactionEdit' = e
            BY <1>2, <1>5, <3>4 DEF CompactionEdit
        <3>6. manifest'.files = Applied(current, CompactionEdit)'
            BY <1>1, <3>3, <3>5 DEF Applied
        <3>7. QED
            BY <1>1, <1>5, <3>4, <3>6 DEF Installing
    <2>3. QED
        BY <2>1, <2>2
<1>11. \A f : Held(f)' => Held(f)
    BY <1>1, <1>5, HeldNext DEF Held
<1>12. AllKnown'
    BY <1>6, <1>11 DEF FilesInv, AllKnown
<1>13. QED
    BY <1>7, <1>8, <1>9, <1>10, <1>12 DEF FilesInv

\* The version of a compaction is installed; the inputs are let go and deleted, unless
\* someone still reads them.
LEMMA InstallCompactionPreserves ==
    ASSUME FilesInv, InstallCompaction
    PROVE  FilesInv'
<1>1. /\ compact # None /\ compact.pc = "install" /\ phase = "open" /\ compact' = None
      /\ UNCHANGED <<logs, nextFile, manifest, flush, bgError, readers, phase>>
    BY DEF InstallCompaction, memory, users, FilesInv, AtRest
<1>2. flush = None
    BY <1>1 DEF FilesInv, OneEdit
<1>3. PICK e, w : e = CompactionEdit /\ w = Applied(current, e)
    OBVIOUS
<1>4. /\ current' = w
      /\ disk' = disk \/ disk' = DeleteObsoleteFiles(w, None, bgError)
    BY <1>3 DEF InstallCompaction
<1>5. ~bgError => manifest.files = w
    BY <1>1, <1>2, <1>3 DEF FilesInv, Installing
<1>6. FilesTypeOK'
    BY <1>1, <1>3, <1>4, AppliedFiles DEF FilesInv, FilesTypeOK
<1>7. AtRest' /\ OneEdit' /\ MovedIsHeld'
    BY <1>1 DEF FilesInv, AtRest, OneEdit, MovedIsHeld
<1>8. Installing'
    BY <1>1, <1>2, <1>4, <1>5 DEF Installing
<1>9. ASSUME NEW f, Known(f), bgError \/ \E v \in Versions(w, None, readers) : f \in FilesOf(v)
      PROVE  Known(f)'
    <2>1. CASE disk' = disk
        BY <1>1, <1>9, <2>1 DEF Known, Right, Meta
    <2>2. CASE disk' = DeleteObsoleteFiles(w, None, bgError)
        <3>1. Right(f)'
            BY <1>9, <2>2, DeleteKeeps DEF Known
        <3>2. QED
            BY <1>1, <1>9, <3>1 DEF Known
    <2>3. QED
        BY <1>4, <2>1, <2>2
<1>10. ASSUME NEW f, Held(f)' PROVE Known(f)'
    <2>1. f \in FilesOf(w) \/ \E r \in readers : f \in FilesOf(r.version)
        BY <1>1, <1>2, <1>4, <1>10, HeldNext
    <2>2. f \in FilesOf(w) => Held(f)
        BY <1>1, <1>3, AppliedFiles, CompactionEditKnown DEF Held
    <2>3. Held(f)
        BY <2>1, <2>2 DEF Held
    <2>4. Known(f)
        BY <2>3 DEF FilesInv, AllKnown
    <2>5. \E v \in Versions(w, None, readers) : f \in FilesOf(v)
        BY <2>1 DEF Versions
    <2>6. QED
        BY <1>9, <2>4, <2>5
<1>11. ASSUME NEW f \in Saved' PROVE Known(f)' /\ f.number < manifest'.next
    <2>1. f \in Saved /\ f \in FilesOf(manifest.files)
        BY <1>1 DEF Saved, FilesOf
    <2>2. Known(f) /\ f.number < manifest.next
        BY <2>1 DEF FilesInv, AllKnown
    <2>3. bgError \/ \E v \in Versions(w, None, readers) : f \in FilesOf(v)
        BY <1>5, <2>1 DEF Versions
    <2>4. QED
        BY <1>1, <1>9, <2>2, <2>3
<1>12. AllKnown'
    BY <1>10, <1>11 DEF AllKnown
<1>13. QED
    BY <1>6, <1>7, <1>8, <1>12 DEF FilesInv

\* The process ends: the disk and the manifest stay.
LEMMA CrashPreserves ==
    ASSUME FilesInv, Crash
    PROVE  FilesInv'
<1>1. /\ compact' = None /\ flush' = None /\ readers' = {} /\ current' = NoFiles /\ phase' = "down"
      /\ UNCHANGED <<logs, disk, nextFile, manifest>>
    BY DEF Crash
<1>2. FilesTypeOK'
    BY <1>1 DEF FilesInv, FilesTypeOK, NoFiles
<1>3. AtRest' /\ OneEdit' /\ MovedIsHeld' /\ Installing'
    BY <1>1 DEF AtRest, OneEdit, MovedIsHeld, Installing
<1>4. \A f : ~Held(f)'
    <2>1. FilesOf(NoFiles) = {}
        BY DEF FilesOf, NoFiles
    <2>2. QED
        BY <1>1, <2>1, HeldNext
<1>5. AllKnown'
    <2>1. Saved' = Saved /\ manifest' = manifest
        BY <1>1 DEF Saved, FilesOf
    <2>2. \A f : Known(f) => Known(f)'
        BY <1>1 DEF Known, Right, Meta
    <2>3. QED
        BY <1>4, <2>1, <2>2 DEF FilesInv, AllKnown
<1>6. QED
    BY <1>2, <1>3, <1>5 DEF FilesInv

\* The tables Recover makes of the logs: of new numbers, and each of a log with entries.
RecoveredTables(tables, n) ==
    /\ n \in Nat /\ manifest.next < n
    /\ \A m \in DOMAIN tables :
        /\ m \in Nat /\ manifest.next < m /\ m < n
        /\ \E i \in 1..Len(logs) : tables[m] = logs[i] /\ logs[i] # {}

\* Recover gives the logs that have entries the numbers after the one of the manifest.
LEMMA RecoverGives ==
    ASSUME FilesInv, Recover
    PROVE  \E tables, news, n :
             /\ RecoveredTables(tables, n)
             /\ news = {Meta(m, tables[m]) : m \in DOMAIN tables}
             /\ disk' = WithFiles(tables)
             /\ current' = [manifest.files EXCEPT ![0] = @ \union news]
             /\ nextFile' = n
<1> DEFINE full == {i \in 1..Len(logs) : logs[i] # {}}
           upTo(i) == {j \in full : j <= i}
           number(i) == manifest.next + Cardinality(upTo(i))
           tables == [m \in {number(i) : i \in full} |-> logs[CHOOSE i \in full : number(i) = m]]
           n == manifest.next + Cardinality(full) + 1
<1>1. /\ disk' = WithFiles(tables)
      /\ current' = [manifest.files EXCEPT ![0] = @ \union {Meta(m, tables[m]) : m \in DOMAIN tables}]
      /\ nextFile' = n
    BY DEF Recover
<1>2. manifest.next \in Nat /\ Len(logs) \in Nat
    BY DEF FilesInv, FilesTypeOK
<1>3. IsFiniteSet(full) /\ Cardinality(full) \in Nat
    <2>1. IsFiniteSet(1..Len(logs)) /\ full \in SUBSET (1..Len(logs))
        BY <1>2, FS_Interval
    <2>2. IsFiniteSet(full)
        BY <2>1, FS_Subset
    <2>3. QED
        BY <2>2, FS_CardinalityType
<1>4. ASSUME NEW i \in full PROVE Cardinality(upTo(i)) \in 1..Cardinality(full)
    <2>1. upTo(i) \in SUBSET full /\ i \in upTo(i)
        BY <1>4
    <2> HIDE DEF upTo, full
    <2>2. IsFiniteSet(upTo(i)) /\ Cardinality(upTo(i)) <= Cardinality(full)
        BY <1>3, <2>1, FS_Subset
    <2>3. Cardinality(upTo(i)) \in Nat /\ Cardinality(upTo(i)) # 0
        BY <2>1, <2>2, FS_CardinalityType, FS_EmptySet
    <2>4. QED
        BY <1>3, <2>2, <2>3
<1>5. ASSUME NEW m \in DOMAIN tables
      PROVE  /\ m \in Nat /\ manifest.next < m /\ m < n
             /\ \E i \in 1..Len(logs) : tables[m] = logs[i] /\ logs[i] # {}
    <2> HIDE DEF upTo
    <2>1. PICK i \in full : number(i) = m
        BY <1>5
    <2>2. PICK j : j = (CHOOSE i_1 \in full : number(i_1) = m)
        OBVIOUS
    <2>3. j \in full
        BY <2>1, <2>2
    <2>4. tables[m] = logs[j]
        BY <1>5, <2>2
    <2>5. Cardinality(upTo(i)) \in 1..Cardinality(full)
        BY <1>4
    <2>6. m \in Nat /\ manifest.next < m /\ m < n
        BY <1>2, <1>3, <2>1, <2>5
    <2>7. QED
        BY <2>3, <2>4, <2>6
<1>6. n \in Nat /\ manifest.next < n
    BY <1>2, <1>3
<1>7. RecoveredTables(tables, n)
    <2> HIDE DEF tables, n
    <2>1. QED
        BY <1>5, <1>6 DEF RecoveredTables
<1> HIDE DEF tables, n
<1>8. QED
    BY <1>1, <1>7

\* Each log becomes a table, under numbers the manifest has not given away.
LEMMA RecoverPreserves ==
    ASSUME FilesInv, Recover
    PROVE  FilesInv'
<1>1. /\ phase = "down" /\ compact = None /\ flush = None /\ readers = {} /\ phase' = "recovered"
      /\ UNCHANGED <<logs, manifest, compact, flush, readers>>
    BY DEF Recover, memory, users, FilesInv, AtRest
<1>2. PICK tables, news, n :
         /\ RecoveredTables(tables, n)
         /\ news = {Meta(m, tables[m]) : m \in DOMAIN tables}
         /\ disk' = WithFiles(tables)
         /\ current' = [manifest.files EXCEPT ![0] = @ \union news]
         /\ nextFile' = n
    BY RecoverGives
<1>5. /\ disk' = WithFiles(tables)
      /\ current' = [manifest.files EXCEPT ![0] = @ \union news]
      /\ nextFile' = n /\ news = {Meta(m, tables[m]) : m \in DOMAIN tables}
    BY <1>2
<1>6. manifest.next \in Nat /\ nextFile' \in Nat /\ manifest.next <= nextFile'
    BY <1>2 DEF RecoveredTables, FilesInv, FilesTypeOK
<1>7. \A m \in DOMAIN tables : m \in Nat /\ manifest.next < m /\ m < nextFile'
    BY <1>2 DEF RecoveredTables
<1>8. FilesTypeOK'
    BY <1>1, <1>5, <1>6 DEF FilesInv, FilesTypeOK
<1>9. AtRest' /\ OneEdit' /\ MovedIsHeld' /\ Installing'
    BY <1>1 DEF AtRest, OneEdit, MovedIsHeld, Installing
<1>10. ASSUME NEW f \in Saved PROVE Known(f)'
    <2>1. Right(f) /\ f.number \in Nat /\ f.number < manifest.next
        BY <1>10 DEF FilesInv, AllKnown, Known
    <2>2. f.number \notin DOMAIN tables /\ f.number < nextFile'
        BY <1>6, <1>7, <2>1
    <2>3. Right(f)'
        BY <1>5, <2>1, <2>2, WithFilesRight
    <2>4. QED
        BY <2>1, <2>2, <2>3 DEF Known
<1>11. ASSUME NEW f \in news PROVE Known(f)'
    <2>1. PICK m \in DOMAIN tables : f = Meta(m, tables[m])
        BY <1>5, <1>11
    <2>2. f.number = m
        BY <2>1, MetaNumber
    <2>3. Right(f)'
        BY <1>5, <2>1, WithFilesRight
    <2>4. QED
        BY <1>7, <2>2, <2>3 DEF Known
<1>12. ASSUME NEW f, Held(f)' PROVE f \in Saved \/ f \in news
    <2>1. f \in FilesOf(current')
        BY <1>1, <1>12, HeldNext
    <2>2. PICK l \in Level : f \in current'[l]
        BY <2>1 DEF FilesOf
    <2>3. f \in manifest.files[l] \/ f \in news
        BY <1>5, <2>2 DEF FilesInv, FilesTypeOK
    <2>4. QED
        BY <2>3 DEF Saved, FilesOf
<1>13. AllKnown'
    <2>1. Saved' = Saved /\ manifest' = manifest
        BY <1>1 DEF Saved, FilesOf
    <2>2. \A f \in Saved : f.number < manifest.next
        BY DEF FilesInv, AllKnown
    <2>3. QED
        BY <1>10, <1>11, <1>12, <2>1, <2>2 DEF AllKnown
<1>14. QED
    BY <1>8, <1>9, <1>13 DEF FilesInv

\* The new manifest says what was recovered.
LEMMA OpenedPreserves ==
    ASSUME FilesInv, Opened
    PROVE  FilesInv'
<1>1. /\ phase = "recovered" /\ compact = None /\ flush = None /\ readers = {}
      /\ manifest'.files = current /\ manifest'.next = nextFile /\ logs' = <<{}>>
      /\ UNCHANGED <<nextFile, current, compact, flush, readers>>
    BY DEF Opened, users, FilesInv, AtRest
<1>2. PICK w : w = current /\ disk' = DeleteObsoleteFiles(w, None, FALSE)
    BY DEF Opened
<1>3. FilesTypeOK'
    <2>1. logs' \in Seq({{}})
        BY <1>1
    <2>2. \E S : logs' \in Seq(S)
        BY <2>1
    <2>3. manifest'.files = [l \in Level |-> manifest'.files[l]]
        BY <1>1 DEF FilesInv, FilesTypeOK
    <2>4. nextFile' \in Nat /\ manifest'.next \in Nat /\ manifest'.next <= nextFile'
        BY <1>1 DEF FilesInv, FilesTypeOK
    <2>5. QED
        BY <1>1, <2>2, <2>3, <2>4 DEF FilesInv, FilesTypeOK
<1>4. AtRest' /\ OneEdit' /\ MovedIsHeld' /\ Installing'
    BY <1>1 DEF AtRest, OneEdit, MovedIsHeld, Installing
<1>5. ASSUME NEW f \in FilesOf(w) PROVE Known(f)' /\ f.number < nextFile
    <2>1. Known(f)
        BY <1>2, <1>5 DEF FilesInv, AllKnown, Held
    <2>2. \E v \in Versions(w, None, readers) : f \in FilesOf(v)
        BY <1>5 DEF Versions
    <2>3. Right(f)'
        BY <1>2, <2>1, <2>2, DeleteKeeps DEF Known
    <2>4. QED
        BY <1>1, <2>1, <2>3 DEF Known
<1>6. \A f : Held(f)' => f \in FilesOf(w)
    BY <1>1, <1>2, HeldNext
<1>7. Saved' = FilesOf(w)
    BY <1>1, <1>2 DEF Saved, FilesOf
<1>8. AllKnown'
    BY <1>1, <1>5, <1>6, <1>7 DEF AllKnown
<1>9. QED
    BY <1>3, <1>4, <1>8 DEF FilesInv

-----------------------------------------------------------------------------
(* Tables are present *)

LEMMA FilesInit ==
    ASSUME Init
    PROVE  FilesInv
<1>1. /\ logs = <<{}>> /\ nextFile = 1 /\ current = NoFiles /\ compact = None /\ flush = None
      /\ manifest.files = NoFiles /\ manifest.next = 1 /\ readers = {} /\ phase = "open"
    BY DEF Init
<1>2. FilesOf(NoFiles) = {}
    BY DEF FilesOf, NoFiles
<1>3. FilesTypeOK
    <2>1. logs \in Seq({{}})
        BY <1>1
    <2>2. \E S : logs \in Seq(S)
        BY <2>1
    <2>3. NoFiles = [l \in Level |-> NoFiles[l]]
        BY DEF NoFiles
    <2>4. QED
        BY <1>1, <2>2, <2>3 DEF FilesTypeOK
<1>4. AtRest /\ OneEdit /\ MovedIsHeld /\ Installing
    BY <1>1 DEF AtRest, OneEdit, MovedIsHeld, Installing
<1>5. AllKnown
    BY <1>1, <1>2 DEF AllKnown, Held, Saved
<1>6. QED
    BY <1>3, <1>4, <1>5 DEF FilesInv

LEMMA FilesStep ==
    ASSUME NoneIsNoRecord, FilesInv, [Next]_vars
    PROVE  FilesInv'
<1>1. CASE UNCHANGED vars
    <2>1. FilesUnchanged /\ logs' = logs /\ readers' = readers
        BY <1>1 DEF vars, FilesUnchanged
    <2>2. PICK S : logs' \in Seq(S)
        BY <2>1 DEF FilesInv, FilesTypeOK
    <2>3. QED
        BY <2>1, <2>2, QuietPreserves DEF FilesInv, AtRest
<1>2. CASE \/ \E k \in Key, del \in BOOLEAN : Write(k, del)
           \/ SwitchMemTable \/ StartRead \/ EndRead \/ GetSnapshot \/ ReleaseSnapshot
    BY <1>2, CallsPreserve
<1>3. CASE WriteLevel0Table
    BY <1>3, WriteLevel0TablePreserves
<1>4. CASE LogMemTable
    BY <1>4, LogMemTablePreserves
<1>5. CASE InstallMemTable
    BY <1>5, InstallMemTablePreserves
<1>6. CASE BackgroundCompaction
    BY <1>6, BackgroundCompactionPreserves
<1>7. CASE WriteOutput
    BY <1>7, WriteOutputPreserves
<1>8. CASE LogCompaction
    BY <1>8, LogCompactionPreserves
<1>9. CASE InstallCompaction
    BY <1>9, InstallCompactionPreserves
<1>10. CASE Crash
    BY <1>10, CrashPreserves
<1>11. CASE Recover
    BY <1>11, RecoverPreserves
<1>12. CASE Opened
    BY <1>12, OpenedPreserves
<1>13. QED
    BY <1>1, <1>2, <1>3, <1>4, <1>5, <1>6, <1>7, <1>8, <1>9, <1>10, <1>11, <1>12 DEF Next

\* What is known is there.
LEMMA KnownArePresent ==
    ASSUME FilesInv
    PROVE  TablesArePresent
<1>1. ASSUME NEW v \in Versions(current, compact, readers) \union {manifest.files}, NEW f \in FilesOf(v)
      PROVE  Right(f)
    <2>1. CASE v = manifest.files
        BY <1>1, <2>1 DEF FilesInv, AllKnown, Saved, Known
    <2>2. CASE v \in Versions(current, compact, readers)
        <3>1. Held(f)
            BY <1>1, <2>2 DEF Versions, Held
        <3>2. QED
            BY <3>1 DEF FilesInv, AllKnown, Known
    <2>3. QED
        BY <1>1, <2>1, <2>2
<1>2. QED
    BY <1>1 DEF TablesArePresent, FilesOf, Right

\* No table the current version, a reader's version, a compaction under way or the manifest
\* on disk refers to is ever deleted by DeleteObsoleteFiles or overwritten under its number,
\* whatever fails and wherever the process ends.
THEOREM TablesAlwaysPresent ==
    ASSUME NoneIsNoRecord
    PROVE  Spec => []TablesArePresent
<1>1. Init => FilesInv
    BY FilesInit
<1>2. FilesInv /\ [Next]_vars => FilesInv'
    BY FilesStep
<1>3. FilesInv => TablesArePresent
    BY KnownArePresent
<1>4. QED
    BY <1>1, <1>2, <1>3, PTL DEF Spec

-----------------------------------------------------------------------------
(* First and last of a finite set *)

\* A finite set has a first element in a total order R.
LEMMA FirstExists ==
    ASSUME NEW S, IsFiniteSet(S), S # {}, NEW R,
           \A x, y \in S : x # y => <<x, y>> \in R \/ <<y, x>> \in R,
           \A x, y, z \in S : <<x, y>> \in R /\ <<y, z>> \in R => <<x, z>> \in R
    PROVE  \E d \in S : \A e \in S \ {d} : <<d, e>> \in R
<1> DEFINE Has(T) == \E d \in T : \A e \in T \ {d} : <<d, e>> \in R
           Bad == {T \in SUBSET S : T # {} /\ ~Has(T)}
<1>1. SUFFICES ASSUME Bad # {} PROVE FALSE
    BY <1>1
<1>2. Bad \subseteq FiniteSubsetsOf(S)
    BY FS_FiniteSubsetsOfFinite
<1>3. PICK T \in Bad : \A U \in Bad : ~ (<<U, T>> \in StrictSubsetOrdering(S))
    <2> HIDE DEF Bad
    <2>1. QED
        BY <1>1, <1>2, FS_StrictSubsetOrderingWellFounded, WFMin
<1>4. PICK x \in T : TRUE
    BY <1>3
<1>5. T \ {x} \notin Bad
    <2>1. <<T \ {x}, T>> \in StrictSubsetOrdering(S)
        BY <1>3, <1>4 DEF StrictSubsetOrdering
    <2>2. QED
        BY <1>3, <2>1
<1>6. T \ {x} # {}
    BY <1>3, <1>4
<1>7. PICK y \in T \ {x} : \A e \in (T \ {x}) \ {y} : <<y, e>> \in R
    BY <1>3, <1>5, <1>6
<1>8. x \in S /\ y \in S /\ x # y /\ T \subseteq S
    BY <1>3, <1>4, <1>7
<1>9. CASE <<x, y>> \in R
    <2>1. \A e \in T \ {x} : <<x, e>> \in R
        BY <1>7, <1>8, <1>9
    <2>2. QED
        BY <1>3, <1>4, <2>1
<1>10. CASE <<y, x>> \in R
    <2>1. \A e \in T \ {y} : <<y, e>> \in R
        BY <1>7, <1>8, <1>10
    <2>2. QED
        BY <1>3, <1>7, <2>1
<1>11. QED
    BY <1>8, <1>9, <1>10

\* Max and Min of a finite set of integers are in it.
LEMMA MaxMin ==
    ASSUME NEW S, IsFiniteSet(S), S # {}, \A x \in S : x \in Int
    PROVE  /\ Max(S) \in S /\ \A x \in S : x <= Max(S)
           /\ Min(S) \in S /\ \A x \in S : Min(S) <= x
<1>1. PICK R : \A x, y \in S : <<x, y>> \in R <=> x <= y
    <2>1. \A x, y \in S : <<x, y>> \in {p \in S \X S : p[1] <= p[2]} <=> x <= y
        OBVIOUS
    <2>2. QED
        BY <2>1
<1>2. PICK Q : \A x, y \in S : <<x, y>> \in Q <=> x >= y
    <2>1. \A x, y \in S : <<x, y>> \in {p \in S \X S : p[1] >= p[2]} <=> x >= y
        OBVIOUS
    <2>2. QED
        BY <2>1
<1>3. PICK d \in S : \A e \in S \ {d} : <<d, e>> \in R
    <2>1. \A x, y \in S : x # y => <<x, y>> \in R \/ <<y, x>> \in R
        BY <1>1
    <2>2. \A x, y, z \in S : <<x, y>> \in R /\ <<y, z>> \in R => <<x, z>> \in R
        BY <1>1
    <2>3. QED
        BY <2>1, <2>2, FirstExists
<1>4. PICK m \in S : \A e \in S \ {m} : <<m, e>> \in Q
    <2>1. \A x, y \in S : x # y => <<x, y>> \in Q \/ <<y, x>> \in Q
        BY <1>2
    <2>2. \A x, y, z \in S : <<x, y>> \in Q /\ <<y, z>> \in Q => <<x, z>> \in Q
        BY <1>2
    <2>3. QED
        BY <2>1, <2>2, FirstExists
<1>5. ASSUME NEW e \in S PROVE d <= e /\ m >= e
    <2>1. d \in Int /\ e \in Int /\ m \in Int
        OBVIOUS
    <2>2. e = d \/ <<d, e>> \in R
        BY <1>3
    <2>3. e = m \/ <<m, e>> \in Q
        BY <1>4
    <2>4. QED
        BY <1>1, <1>2, <2>1, <2>2, <2>3
<1>6. Min(S) \in S /\ \A x \in S : Min(S) <= x
    BY <1>5 DEF Min
<1>7. Max(S) \in S /\ \A x \in S : Max(S) >= x
    BY <1>5 DEF Max
<1>8. QED
    BY <1>6, <1>7

-----------------------------------------------------------------------------
(* Entries *)

\* Entries with a key and a sequence number, which no two share.
EntriesOK(entries) ==
    /\ IsFiniteSet(entries)
    /\ \A e \in entries : e.key \in Int /\ e.seq \in Nat
    /\ \A d, e \in entries : d.seq = e.seq => d = e

\* Some of the entries are entries.
LEMMA SomeEntries ==
    ASSUME NEW all, EntriesOK(all), NEW entries \in SUBSET all
    PROVE  EntriesOK(entries)
BY FS_Subset DEF EntriesOK

\* Before orders entries.
LEMMA BeforeOrders ==
    ASSUME NEW all, EntriesOK(all)
    PROVE  /\ \A d, e \in all : d # e => Before(d, e) \/ Before(e, d)
           /\ \A d, e \in all : ~(Before(d, e) /\ Before(e, d))
           /\ \A d \in all : ~Before(d, d)
           /\ \A d, e, f \in all : Before(d, e) /\ Before(e, f) => Before(d, f)
           /\ \A d, e \in all : Before(d, e) => d.key <= e.key
           /\ \A d, e \in all : d.key < e.key => Before(d, e)
BY DEF EntriesOK, Before

\* The first and the last entry of a table.
LEMMA SmallestGreatest ==
    ASSUME NEW S, EntriesOK(S), S # {}
    PROVE  /\ Smallest(S) \in S /\ \A e \in S \ {Smallest(S)} : Before(Smallest(S), e)
           /\ Greatest(S) \in S /\ \A e \in S \ {Greatest(S)} : Before(e, Greatest(S))
<1>1. /\ IsFiniteSet(S)
      /\ \A d, e \in S : d # e => Before(d, e) \/ Before(e, d)
      /\ \A d, e, f \in S : Before(d, e) /\ Before(e, f) => Before(d, f)
    BY BeforeOrders DEF EntriesOK
<1>2. PICK R : \A x, y \in S : <<x, y>> \in R <=> Before(x, y)
    <2>1. \A x, y \in S : <<x, y>> \in {p \in S \X S : Before(p[1], p[2])} <=> Before(x, y)
        OBVIOUS
    <2>2. QED
        BY <2>1
<1>3. PICK Q : \A x, y \in S : <<x, y>> \in Q <=> Before(y, x)
    <2>1. \A x, y \in S : <<x, y>> \in {p \in S \X S : Before(p[2], p[1])} <=> Before(y, x)
        OBVIOUS
    <2>2. QED
        BY <2>1
<1>4. PICK d \in S : \A e \in S \ {d} : <<d, e>> \in R
    <2>1. \A x, y \in S : x # y => <<x, y>> \in R \/ <<y, x>> \in R
        BY <1>1, <1>2
    <2>2. \A x, y, z \in S : <<x, y>> \in R /\ <<y, z>> \in R => <<x, z>> \in R
        BY <1>1, <1>2
    <2>3. QED
        BY <1>1, <2>1, <2>2, FirstExists
<1>5. PICK m \in S : \A e \in S \ {m} : <<m, e>> \in Q
    <2>1. \A x, y \in S : x # y => <<x, y>> \in Q \/ <<y, x>> \in Q
        BY <1>1, <1>3
    <2>2. \A x, y, z \in S : <<x, y>> \in Q /\ <<y, z>> \in Q => <<x, z>> \in Q
        BY <1>1, <1>3
    <2>3. QED
        BY <1>1, <2>1, <2>2, FirstExists
<1>6. (\A e \in S \ {d} : Before(d, e)) /\ (\A e \in S \ {m} : Before(e, m))
    BY <1>2, <1>3, <1>4, <1>5
<1>7. Smallest(S) \in S /\ \A e \in S \ {Smallest(S)} : Before(Smallest(S), e)
    BY <1>6 DEF Smallest
<1>8. Greatest(S) \in S /\ \A e \in S \ {Greatest(S)} : Before(e, Greatest(S))
    BY <1>6 DEF Greatest
<1>9. QED
    BY <1>7, <1>8

\* A range of entries, as Meta gives it.
Ranged(f) ==
    /\ f.smallest.key \in Key /\ f.largest.key \in Key /\ f.smallest.key <= f.largest.key
    /\ f.smallest.seq \in Nat /\ f.largest.seq \in Nat
    /\ f.smallest = f.largest \/ Before(f.smallest, f.largest)

\* The file of a table that has entries ranges over them.
LEMMA MetaRanges ==
    ASSUME NEW all, EntriesOK(all), \A e \in all : e.key \in Key,
           NEW S \in SUBSET all, S # {}, NEW n, NEW f, f = Meta(n, S)
    PROVE  /\ Ranged(f) /\ f.number = n
           /\ f.smallest = Smallest(S) /\ f.largest = Greatest(S)
           /\ f.smallest \in S /\ f.largest \in S
           /\ \A e \in S : /\ e = f.smallest \/ Before(f.smallest, e)
                           /\ e = f.largest \/ Before(e, f.largest)
                           /\ Covers(f, e.key)
<1>1. EntriesOK(S)
    BY SomeEntries
<1>2. f.smallest = Smallest(S) /\ f.largest = Greatest(S) /\ f.number = n
    BY DEF Meta
<1>3. PICK d, m : d = f.smallest /\ m = f.largest
    OBVIOUS
<1>4. /\ d \in S /\ \A e \in S \ {d} : Before(d, e)
      /\ m \in S /\ \A e \in S \ {m} : Before(e, m)
    BY <1>1, <1>2, <1>3, SmallestGreatest
<1>5. /\ \A e \in S : e.key \in Int /\ e.seq \in Nat /\ e.key \in Key
      /\ \A e, x \in S : Before(e, x) => e.key <= x.key
    BY <1>1, BeforeOrders DEF EntriesOK
<1>6. \A e \in S : d.key <= e.key /\ e.key <= m.key
    BY <1>4, <1>5
<1>7. Ranged(f)
    BY <1>3, <1>4, <1>5, <1>6 DEF Ranged
<1>8. \A e \in S : Covers(f, e.key)
    BY <1>3, <1>6 DEF Covers
<1>9. QED
    BY <1>2, <1>3, <1>4, <1>7, <1>8

-----------------------------------------------------------------------------
(* Ranges *)

\* What lies beside all files of S lies on one side of them.
Connected(S) ==
    \A a, b \in Key : a <= b /\ (\A f \in S : ~Overlaps(f, a, b)) =>
        (\A f \in S : f.largest.key < a) \/ (\A f \in S : b < f.smallest.key)

\* Lowest and Highest bound the ranges of files.
LEMMA LowestHighest ==
    ASSUME KeyAssumption, NEW S, S # {}, \A f \in S : Ranged(f)
    PROVE  /\ Lowest(S) \in Key /\ Highest(S) \in Key
           /\ \A f \in S : Lowest(S) <= f.smallest.key /\ f.largest.key <= Highest(S)
           /\ \E f \in S : Lowest(S) = f.smallest.key
           /\ \E f \in S : Highest(S) = f.largest.key
<1>1. PICK lows, highs : lows = {f.smallest.key : f \in S} /\ highs = {f.largest.key : f \in S}
    OBVIOUS
<1>2. lows \in SUBSET Key /\ highs \in SUBSET Key /\ lows # {} /\ highs # {}
    BY <1>1 DEF Ranged
<1>3. IsFiniteSet(lows) /\ IsFiniteSet(highs)
    BY <1>2, FS_Subset DEF KeyAssumption
<1>4. \A x \in Key : x \in Int
    BY DEF KeyAssumption
<1>5. Lowest(S) \in lows /\ \A x \in lows : Lowest(S) <= x
    BY <1>1, <1>2, <1>3, <1>4, MaxMin DEF Lowest
<1>6. Highest(S) \in highs /\ \A x \in highs : x <= Highest(S)
    BY <1>1, <1>2, <1>3, <1>4, MaxMin DEF Highest
<1>7. QED
    BY <1>1, <1>2, <1>5, <1>6

\* Files that reach into the range of connected ones are connected with them.
LEMMA ConnectedGrows ==
    ASSUME KeyAssumption, NEW S, NEW T, S # {}, \A f \in S \union T : Ranged(f), Connected(S),
           \A t \in T : Overlaps(t, Lowest(S), Highest(S))
    PROVE  Connected(S \union T)
<1>1. PICK lo, hi : lo = Lowest(S) /\ hi = Highest(S)
    OBVIOUS
<1>2. /\ lo \in Int /\ hi \in Int
      /\ \A f \in S : lo <= f.smallest.key /\ f.largest.key <= hi
      /\ \E f \in S : lo = f.smallest.key
      /\ \E f \in S : hi = f.largest.key
    BY <1>1, LowestHighest DEF KeyAssumption
<1>3. \A k \in Key : k \in Int
    BY DEF KeyAssumption
<1>4. SUFFICES ASSUME NEW a \in Key, NEW b \in Key, a <= b, \A f \in S \union T : ~Overlaps(f, a, b)
               PROVE  \/ \A f \in S \union T : f.largest.key < a
                      \/ \A f \in S \union T : b < f.smallest.key
    BY DEF Connected
<1>5. a \in Int /\ b \in Int
    BY <1>3
<1>6. \A f \in S \union T : f.smallest.key \in Int /\ f.largest.key \in Int
    BY <1>3 DEF Ranged
<1>7. CASE \A f \in S : f.largest.key < a
    <2>1. hi < a
        BY <1>2, <1>7
    <2>2. ASSUME NEW t \in T PROVE t.largest.key < a
        <3>1. t.smallest.key <= hi
            BY <1>1 DEF Overlaps
        <3>2. QED
            BY <1>2, <1>4, <1>5, <1>6, <2>1, <3>1 DEF Overlaps
    <2>3. QED
        BY <1>7, <2>2
<1>8. CASE \A f \in S : b < f.smallest.key
    <2>1. b < lo
        BY <1>2, <1>8
    <2>2. ASSUME NEW t \in T PROVE b < t.smallest.key
        <3>1. lo <= t.largest.key
            BY <1>1 DEF Overlaps
        <3>2. QED
            BY <1>2, <1>4, <1>5, <1>6, <2>1, <3>1 DEF Overlaps
    <2>3. QED
        BY <1>8, <2>2
<1>9. QED
    BY <1>4, <1>7, <1>8 DEF Connected

\* A range around lo and hi that cuts through no file of level 0.
Closed(v, lo, hi, a, b) ==
    a <= lo /\ hi <= b /\ \A f \in v[0] : Overlaps(f, a, b) => Within(f, a, b)

\* At level 0 GetOverlappingInputs takes the files in the least such range.
LEMMA WidenedLeast ==
    ASSUME KeyAssumption, NEW v, \A f \in v[0] : Ranged(f), NEW lo \in Key, NEW hi \in Key
    PROVE  \E a, b \in Key :
             /\ Widened(v, 0, lo, hi) = <<a, b>> /\ Closed(v, lo, hi, a, b)
             /\ \A c, d \in Key : Closed(v, lo, hi, c, d) => c <= a /\ b <= d
<1>1. PICK closed : closed = {r \in Key \X Key :
                          /\ r[1] <= lo /\ hi <= r[2]
                          /\ \A f \in v[0] : Overlaps(f, r[1], r[2]) => Within(f, r[1], r[2])}
    OBVIOUS
<1>2. Widened(v, 0, lo, hi) = <<Max({r[1] : r \in closed}), Min({r[2] : r \in closed})>>
    BY <1>1 DEF Widened
<1>3. \A c, d \in Key : <<c, d>> \in closed <=> Closed(v, lo, hi, c, d)
    BY <1>1 DEF Closed
<1>4. \A k \in Key : k \in Int
    BY DEF KeyAssumption
<1>5. PICK lows, highs : lows = {r[1] : r \in closed} /\ highs = {r[2] : r \in closed}
    OBVIOUS
<1>6. \A r \in closed : r \in Key \X Key
    BY <1>1
<1>7. lows \in SUBSET Key /\ highs \in SUBSET Key
    BY <1>5, <1>6
<1>8. closed # {}
    <2>1. IsFiniteSet(Key) /\ Key # {} /\ \A k \in Key : k \in Int
        BY <1>4 DEF KeyAssumption
    <2>2. PICK c, d : c = Min(Key) /\ d = Max(Key)
        OBVIOUS
    <2>3. c \in Key /\ d \in Key /\ \A k \in Key : c <= k /\ k <= d
        BY <2>1, <2>2, MaxMin
    <2>4. \A f \in v[0] : Within(f, c, d)
        BY <2>3 DEF Ranged, Within
    <2>5. Closed(v, lo, hi, c, d)
        BY <2>3, <2>4 DEF Closed
    <2>6. QED
        BY <1>3, <2>3, <2>5
<1>9. /\ IsFiniteSet(lows) /\ lows # {} /\ \A x \in lows : x \in Int
      /\ IsFiniteSet(highs) /\ highs # {} /\ \A x \in highs : x \in Int
    <2>1. lows # {} /\ highs # {}
        BY <1>5, <1>8
    <2>2. IsFiniteSet(lows) /\ IsFiniteSet(highs)
        BY <1>7, FS_Subset DEF KeyAssumption
    <2>3. QED
        BY <1>4, <1>7, <2>1, <2>2
<1>10. PICK a, b : a = Max(lows) /\ b = Min(highs)
    OBVIOUS
<1>11. a \in lows /\ (\A x \in lows : x <= a) /\ b \in highs /\ \A x \in highs : b <= x
    BY <1>9, <1>10, MaxMin
<1>12. \A c, d \in Key : Closed(v, lo, hi, c, d) => c <= a /\ b <= d
    <2>1. TAKE c, d \in Key
    <2>2. HAVE Closed(v, lo, hi, c, d)
    <2>3. PICK r \in closed : r = <<c, d>>
        BY <1>3, <2>2
    <2>4. r[1] \in lows /\ r[2] \in highs /\ r[1] = c /\ r[2] = d
        BY <1>5, <2>3
    <2>5. QED
        BY <1>11, <2>4
<1>13. a \in Key /\ b \in Key /\ a \in Int /\ b \in Int
    BY <1>4, <1>7, <1>11
<1>14. PICK d \in Key : Closed(v, lo, hi, a, d)
    <2>1. PICK r \in closed : a = r[1]
        BY <1>5, <1>11
    <2>2. r[2] \in Key /\ r = <<a, r[2]>>
        BY <1>6, <2>1
    <2>3. QED
        BY <1>3, <1>13, <2>1, <2>2
<1>15. PICK c \in Key : Closed(v, lo, hi, c, b)
    <2>1. PICK r \in closed : b = r[2]
        BY <1>5, <1>11
    <2>2. r[1] \in Key /\ r = <<r[1], b>>
        BY <1>6, <2>1
    <2>3. QED
        BY <1>3, <1>13, <2>1, <2>2
<1>16. c <= a /\ b <= d
    BY <1>12, <1>13, <1>14, <1>15
<1>17. Closed(v, lo, hi, a, b)
    <2>1. a <= lo /\ hi <= b
        BY <1>14, <1>15 DEF Closed
    <2>2. ASSUME NEW f \in v[0], Overlaps(f, a, b) PROVE Within(f, a, b)
        <3>1. c \in Int /\ d \in Int /\ f.smallest.key \in Int /\ f.largest.key \in Int
            BY <1>4 DEF Ranged
        <3>2. Overlaps(f, a, d) /\ Overlaps(f, c, b)
            BY <1>13, <1>16, <2>2, <3>1 DEF Overlaps
        <3>3. Within(f, a, d) /\ Within(f, c, b)
            BY <1>14, <1>15, <3>2 DEF Closed
        <3>4. QED
            BY <3>3 DEF Within
    <2>3. QED
        BY <2>1, <2>2 DEF Closed
<1>18. QED
    BY <1>2, <1>5, <1>10, <1>12, <1>13, <1>17

\* So do the files that GetOverlappingInputs adds to connected ones, at whatever level.
LEMMA OverlappingConnected ==
    ASSUME KeyAssumption, NEW v, NEW l \in Nat, NEW S, S # {}, NEW lo, NEW hi, NEW G,
           \A f \in S \union v[l] : Ranged(f),
           Connected(S), lo = Lowest(S), hi = Highest(S), G = GetOverlappingInputs(v, l, lo, hi)
    PROVE  /\ Connected(S \union G) /\ G \subseteq v[l]
           /\ \A f \in v[l] : Overlaps(f, lo, hi) => f \in G
<1>1. /\ lo \in Key /\ hi \in Key
      /\ \A f \in S : lo <= f.smallest.key /\ f.largest.key <= hi
      /\ \E f \in S : lo = f.smallest.key
      /\ \E f \in S : hi = f.largest.key
    BY LowestHighest
<1>2. \A k \in Key : k \in Int
    BY DEF KeyAssumption
<1>3. CASE l > 0
    <2>1. G = {f \in v[l] : Overlaps(f, lo, hi)}
        BY <1>3 DEF GetOverlappingInputs, Widened
    <2>2. QED
        BY <2>1, ConnectedGrows
<1>4. CASE l = 0
    <2>1. PICK a, b \in Key :
             /\ Widened(v, l, lo, hi) = <<a, b>> /\ Closed(v, lo, hi, a, b)
             /\ \A c, d \in Key : Closed(v, lo, hi, c, d) => c <= a /\ b <= d
        BY <1>1, <1>4, WidenedLeast
    <2>2. G = {f \in v[l] : Overlaps(f, a, b)}
        BY <2>1 DEF GetOverlappingInputs
    <2>3. a \in Int /\ b \in Int /\ lo \in Int /\ hi \in Int
        BY <1>1, <1>2
    <2>4. a <= lo /\ hi <= b /\ \A f \in G : Within(f, a, b)
        BY <1>4, <2>1, <2>2 DEF Closed
    <2>5. \A f \in S \union v[l] : f.smallest.key \in Int /\ f.largest.key \in Int
                                   /\ f.smallest.key <= f.largest.key
        BY <1>2 DEF Ranged
    <2>6. \A f \in v[l] : Overlaps(f, lo, hi) => f \in G
        BY <2>2, <2>3, <2>4, <2>5 DEF Overlaps
    <2>7. ASSUME NEW x \in Key, NEW y \in Key, x <= y, \A f \in S \union G : ~Overlaps(f, x, y)
          PROVE  \/ \A f \in S \union G : f.largest.key < x
                 \/ \A f \in S \union G : y < f.smallest.key
        <3>1. x \in Int /\ y \in Int
            BY <1>2
        <3>2. \A f \in S \union G : f.largest.key < x \/ y < f.smallest.key
            BY <2>2, <2>5, <2>7, <3>1 DEF Overlaps
        <3>3. CASE \A f \in S : f.largest.key < x
            <4>1. hi < x
                BY <1>1, <3>3
            <4>2. SUFFICES ASSUME NEW g \in G, y < g.smallest.key PROVE FALSE
                BY <3>2, <3>3
            <4>3. PICK below : below = {k \in Key : k < x}
                OBVIOUS
            <4>4. IsFiniteSet(below) /\ below # {} /\ \A k \in below : k \in Int
                BY <1>1, <1>2, <4>1, <4>3, FS_Subset DEF KeyAssumption
            <4>5. PICK d : d = Max(below)
                OBVIOUS
            <4>6. d \in Key /\ d \in Int /\ d < x /\ \A k \in Key : k < x => k <= d
                BY <4>3, <4>4, <4>5, MaxMin
            <4>7. g.smallest.key <= b
                BY <2>2 DEF Overlaps
            <4>8. g.smallest.key \in Int /\ d < b
                BY <2>2, <2>3, <2>5, <2>7, <3>1, <4>2, <4>6, <4>7
            <4>9. hi <= d
                BY <1>1, <4>1, <4>6
            <4>10. ASSUME NEW h \in v[0], Overlaps(h, a, d) PROVE Within(h, a, d)
                <5>1. h.smallest.key \in Int /\ h.largest.key \in Int /\ h.largest.key \in Key
                      /\ h.smallest.key <= h.largest.key
                    BY <1>4, <2>5 DEF Ranged
                <5>2. a <= h.largest.key /\ h.smallest.key <= d
                    BY <4>10, <2>3, <4>6, <5>1 DEF Overlaps
                <5>3. h \in G
                    BY <1>4, <2>2, <2>3, <4>6, <4>8, <5>1, <5>2 DEF Overlaps
                <5>4. h.largest.key < x
                    BY <2>7, <3>1, <3>2, <4>6, <5>1, <5>2, <5>3
                <5>5. h.largest.key <= d
                    BY <4>6, <5>1, <5>4
                <5>6. a <= h.smallest.key
                    BY <2>4, <5>3 DEF Within
                <5>7. QED
                    BY <5>5, <5>6 DEF Within
            <4>11. Closed(v, lo, hi, a, d)
                BY <2>4, <4>9, <4>10 DEF Closed
            <4>12. b <= d
                BY <2>1, <4>6, <4>11
            <4>13. QED
                BY <2>3, <4>6, <4>8, <4>12
        <3>4. CASE \A f \in S : y < f.smallest.key
            <4>1. y < lo
                BY <1>1, <3>4
            <4>2. SUFFICES ASSUME NEW g \in G, g.largest.key < x PROVE FALSE
                BY <3>2, <3>4
            <4>3. PICK above : above = {k \in Key : y < k}
                OBVIOUS
            <4>4. IsFiniteSet(above) /\ above # {} /\ \A k \in above : k \in Int
                BY <1>1, <1>2, <4>1, <4>3, FS_Subset DEF KeyAssumption
            <4>5. PICK d : d = Min(above)
                OBVIOUS
            <4>6. d \in Key /\ d \in Int /\ y < d /\ \A k \in Key : y < k => d <= k
                BY <4>3, <4>4, <4>5, MaxMin
            <4>7. a <= g.largest.key
                BY <2>2 DEF Overlaps
            <4>8. g.largest.key \in Int /\ a < d
                BY <2>2, <2>3, <2>5, <2>7, <3>1, <4>2, <4>6, <4>7
            <4>9. d <= lo
                BY <1>1, <4>1, <4>6
            <4>10. ASSUME NEW h \in v[0], Overlaps(h, d, b) PROVE Within(h, d, b)
                <5>1. h.smallest.key \in Int /\ h.largest.key \in Int /\ h.smallest.key \in Key
                      /\ h.smallest.key <= h.largest.key
                    BY <1>4, <2>5 DEF Ranged
                <5>2. d <= h.largest.key /\ h.smallest.key <= b
                    BY <4>10, <2>3, <4>6, <5>1 DEF Overlaps
                <5>3. h \in G
                    BY <1>4, <2>2, <2>3, <4>6, <4>8, <5>1, <5>2 DEF Overlaps
                <5>4. y < h.smallest.key
                    BY <2>7, <3>1, <3>2, <4>6, <5>1, <5>2, <5>3
                <5>5. d <= h.smallest.key
                    BY <4>6, <5>1, <5>4
                <5>6. h.largest.key <= b
                    BY <2>4, <5>3 DEF Within
                <5>7. QED
                    BY <5>5, <5>6 DEF Within
            <4>11. Closed(v, lo, hi, d, b)
                BY <2>4, <4>9, <4>10 DEF Closed
            <4>12. d <= a
                BY <2>1, <4>6, <4>11
            <4>13. QED
                BY <2>3, <4>6, <4>8, <4>12
        <3>5. QED
            BY <2>7, <3>3, <3>4 DEF Connected
    <2>8. Connected(S \union G)
        BY <2>7 DEF Connected
    <2>9. QED
        BY <2>2, <2>6, <2>8
<1>5. QED
    BY <1>3, <1>4

\* What a compaction takes from two levels is connected, and all that its own files reach
\* at the next level is taken.
LEMMA InputsConnected ==
    ASSUME KeyAssumption, NEW v, NEW l \in Nat, NEW f \in v[l],
           \A g \in v[l] \union v[l + 1] : Ranged(g),
           NEW in, in = SetupOtherInputs(v, l, Inputs0(v, l, f))
    PROVE  /\ in[1] \subseteq v[l] /\ in[1] # {}
           /\ in[2] = {g \in v[l + 1] : Overlaps(g, Lowest(in[1]), Highest(in[1]))}
           /\ Connected(in[1] \union in[2])
<1>0. \A k \in Key : k \in Int
    BY DEF KeyAssumption
<1>1. PICK in0 : in0 = Inputs0(v, l, f)
    OBVIOUS
<1>2. Ranged(f)
    OBVIOUS
<1>3. Connected({f})
    BY <1>0, <1>2 DEF Connected, Overlaps, Ranged
<1>4. in0 \subseteq v[l] /\ f \in in0 /\ Connected(in0)
    <2>1. CASE l = 0
        <3>1. PICK S, lo, hi : S = {f} /\ lo = Lowest(S) /\ hi = Highest(S)
            OBVIOUS
        <3>2. lo = f.smallest.key /\ hi = f.largest.key
            BY <1>2, <3>1, LowestHighest
        <3>3. in0 = GetOverlappingInputs(v, l, lo, hi)
            BY <1>1, <2>1, <3>2 DEF Inputs0
        <3>4. S # {} /\ Connected(S) /\ \A g \in S \union v[l] : Ranged(g)
            BY <1>2, <1>3, <3>1
        <3>5. /\ Connected(S \union in0) /\ in0 \subseteq v[l]
              /\ \A g \in v[l] : Overlaps(g, lo, hi) => g \in in0
            BY <3>1, <3>3, <3>4, OverlappingConnected
        <3>6. f \in in0
            BY <1>0, <1>2, <3>2, <3>5 DEF Overlaps, Ranged
        <3>7. S \union in0 = in0
            BY <3>1, <3>6
        <3>8. QED
            BY <3>5, <3>6, <3>7
    <2>2. CASE l # 0
        <3>1. in0 = {f}
            BY <1>1, <2>2 DEF Inputs0
        <3>2. QED
            BY <1>3, <3>1
    <2>3. QED
        BY <2>1, <2>2
<1>5. l + 1 \in Nat /\ l + 1 > 0
    OBVIOUS
<1>6. \A a, b : GetOverlappingInputs(v, l + 1, a, b) = {g \in v[l + 1] : Overlaps(g, a, b)}
    BY <1>5 DEF GetOverlappingInputs, Widened
<1>7. PICK lo0, hi0, in1 : lo0 = Lowest(in0) /\ hi0 = Highest(in0)
                           /\ in1 = GetOverlappingInputs(v, l + 1, lo0, hi0)
    OBVIOUS
<1>8. in1 = {g \in v[l + 1] : Overlaps(g, lo0, hi0)}
    BY <1>6, <1>7
<1>9. Connected(in0 \union in1)
    <2>1. in0 # {} /\ \A g \in in0 \union in1 : Ranged(g)
        BY <1>4, <1>8
    <2>2. \A g \in in1 : Overlaps(g, Lowest(in0), Highest(in0))
        BY <1>7, <1>8
    <2>3. QED
        BY <1>4, <2>1, <2>2, ConnectedGrows
<1>10. PICK S, lo, hi, more0 :
          /\ S = in0 \union in1 /\ lo = Lowest(S) /\ hi = Highest(S)
          /\ more0 = GetOverlappingInputs(v, l, lo, hi)
    OBVIOUS
<1>11. PICK lom, him, more1 : lom = Lowest(more0) /\ him = Highest(more0)
                              /\ more1 = GetOverlappingInputs(v, l + 1, lom, him)
    OBVIOUS
<1>12. more1 = {g \in v[l + 1] : Overlaps(g, lom, him)}
    BY <1>6, <1>11
<1>13. in = <<more0, more1>> \/ in = <<in0, in1>>
    BY <1>1, <1>7, <1>10, <1>11 DEF SetupOtherInputs
<1>14. CASE in = <<in0, in1>>
    BY <1>4, <1>7, <1>8, <1>9, <1>14
<1>15. CASE in = <<more0, more1>>
    <2>1. S # {} /\ Connected(S) /\ \A g \in S \union v[l] : Ranged(g)
        BY <1>4, <1>8, <1>9, <1>10
    <2>2. /\ Connected(S \union more0) /\ more0 \subseteq v[l]
          /\ \A g \in v[l] : Overlaps(g, lo, hi) => g \in more0
        BY <1>10, <2>1, OverlappingConnected
    <2>3. /\ lo \in Int /\ hi \in Int
          /\ \A g \in S : lo <= g.smallest.key /\ g.largest.key <= hi
        BY <1>0, <1>10, <2>1, LowestHighest
    <2>4. \A g \in S \union v[l] \union v[l + 1] :
             g.smallest.key \in Int /\ g.largest.key \in Int /\ g.smallest.key <= g.largest.key
        BY <1>0, <2>1 DEF Ranged
    <2>5. in0 \subseteq more0
        <3>1. SUFFICES ASSUME NEW g \in in0 PROVE g \in more0
            OBVIOUS
        <3>2. g \in S /\ g \in v[l]
            BY <1>4, <1>10
        <3>3. Overlaps(g, lo, hi)
            BY <2>3, <2>4, <3>2 DEF Overlaps
        <3>4. QED
            BY <2>2, <3>2, <3>3
    <2>6. more0 # {} /\ \A g \in more0 : Ranged(g)
        BY <1>4, <2>2, <2>5
    <2>7. /\ lom \in Int /\ him \in Int
          /\ \A g \in more0 : lom <= g.smallest.key /\ g.largest.key <= him
          /\ \E g \in more0 : lom = g.smallest.key
          /\ \E g \in more0 : him = g.largest.key
        BY <1>0, <1>11, <2>6, LowestHighest
    <2>8. /\ lo0 \in Int /\ hi0 \in Int
          /\ \E g \in in0 : lo0 = g.smallest.key
          /\ \E g \in in0 : hi0 = g.largest.key
        BY <1>0, <1>4, <1>7, LowestHighest
    <2>9. lom <= lo0 /\ hi0 <= him
        BY <2>5, <2>7, <2>8
    <2>10. in1 \subseteq more1
        <3>1. SUFFICES ASSUME NEW g \in in1 PROVE g \in more1
            OBVIOUS
        <3>2. g \in v[l + 1] /\ Overlaps(g, lo0, hi0)
            BY <1>8
        <3>3. Overlaps(g, lom, him)
            BY <2>4, <2>7, <2>8, <2>9, <3>2 DEF Overlaps
        <3>4. QED
            BY <1>12, <3>2, <3>3
    <2>11. PICK T, lot, hit : T = S \union more0 /\ lot = Lowest(T) /\ hit = Highest(T)
        OBVIOUS
    <2>12. T # {} /\ \A g \in T \union more1 : Ranged(g)
        BY <1>12, <2>1, <2>2, <2>11
    <2>13. /\ lot \in Int /\ hit \in Int
           /\ \A g \in T : lot <= g.smallest.key /\ g.largest.key <= hit
        BY <1>0, <2>11, <2>12, LowestHighest
    <2>14. lot <= lom /\ him <= hit
        BY <2>7, <2>11, <2>13
    <2>15. \A g \in more1 : Overlaps(g, lot, hit)
        <3>1. TAKE g \in more1
        <3>2. g \in v[l + 1] /\ Overlaps(g, lom, him)
            BY <1>12
        <3>3. QED
            BY <2>4, <2>7, <2>13, <2>14, <3>2 DEF Overlaps
    <2>16. Connected(T \union more1)
        BY <2>2, <2>11, <2>12, <2>15, ConnectedGrows
    <2>17. T \union more1 = more0 \union more1
        BY <1>10, <2>5, <2>10, <2>11
    <2>18. QED
        BY <1>11, <1>12, <1>15, <2>2, <2>6, <2>16, <2>17
<1>16. QED
    BY <1>13, <1>14, <1>15

-----------------------------------------------------------------------------
(* Sorted levels *)

Sorted(fs) == \A f, g \in fs : f # g => Disjoint(f, g) \/ SameRange(f, g)

\* The file holds written entries, from its first to its last.
Spans(f) ==
    /\ Ranged(f) /\ f.smallest \in written /\ f.largest \in written
    /\ \A e \in Entries(f) : /\ e \in written
                             /\ e = f.smallest \/ Before(f.smallest, e)
                             /\ e = f.largest \/ Before(e, f.largest)
                             /\ Covers(f, e.key)

\* All entries are behind the file, or all are ahead of it.
Beside(g, entries) ==
    (\A d \in entries : Before(g.largest, d)) \/ (\A d \in entries : Before(d, g.smallest))

\* T are the files among fs that meet the range of the files S.
TakesOver(S, T, fs) ==
    \A h : h \in T <=> h \in fs /\ Overlaps(h, Lowest(S), Highest(S))

\* A file of the next level that a compaction does not take lies beside what it takes.
LEMMA LeftIsBeside ==
    ASSUME KeyAssumption, EntriesOK(written), NEW fs, NEW S, S # {}, NEW T,
           \A f \in S \union fs : Spans(f), Sorted(fs), TakesOver(S, T, fs),
           NEW entries, \A e \in entries : \E f \in S \union T : e \in Entries(f),
           NEW g \in fs, g \notin T
    PROVE  /\ Beside(g, entries)
           /\ \A f \in S : Disjoint(g, f)
<1> PICK lo, hi : /\ lo = Lowest(S) /\ hi = Highest(S)
                  /\ \A h : h \in T <=> h \in fs /\ Overlaps(h, lo, hi)
    BY DEF TakesOver
<1>0. \A k \in Key : k \in Int
    BY DEF KeyAssumption
<1>1. \A f \in S \union fs : Ranged(f) /\ f.smallest \in written /\ f.largest \in written
    BY DEF Spans
<1>2. /\ lo \in Int /\ hi \in Int
      /\ \A f \in S : lo <= f.smallest.key /\ f.largest.key <= hi
    BY <1>0, <1>1, LowestHighest
<1>3. \A f \in S \union fs : f.smallest.key \in Int /\ f.largest.key \in Int
                             /\ f.smallest.key <= f.largest.key
    BY <1>0, <1>1 DEF Ranged
<1>4. \A f \in S : Disjoint(g, f)
    <2>1. TAKE f \in S
    <2>2. lo <= f.smallest.key /\ f.largest.key <= hi
        BY <1>2
    <2>3. g.largest.key < lo \/ hi < g.smallest.key
        BY <1>2, <1>3 DEF Overlaps
    <2>4. QED
        BY <1>2, <1>3, <2>2, <2>3 DEF Disjoint, Before
<1>5. g.largest.key < lo \/ hi < g.smallest.key
    BY <1>2, <1>3 DEF Overlaps
<1>6. /\ \A d, e, x \in written : Before(d, e) /\ Before(e, x) => Before(d, x)
      /\ \A d, e \in written : d.key < e.key => Before(d, e)
      /\ \A d, e \in written : Before(d, e) => d.key <= e.key
      /\ \A d \in written : d.key \in Int
    BY BeforeOrders DEF EntriesOK
<1>7. ASSUME NEW f \in T
      PROVE  /\ f \in fs /\ Overlaps(f, lo, hi)
             /\ Before(g.largest, f.smallest) \/ Before(f.largest, g.smallest)
    <2>1. f \in fs /\ Overlaps(f, lo, hi) /\ f # g
        OBVIOUS
    <2>2. ~SameRange(f, g)
        BY <1>2, <1>3, <1>5, <2>1 DEF SameRange, Overlaps
    <2>3. QED
        BY <2>1, <2>2 DEF Sorted, Disjoint
<1>8. CASE g.largest.key < lo
    <2>1. ASSUME NEW f \in S \union T PROVE Before(g.largest, f.smallest)
        <3>1. CASE f \in S
            BY <1>1, <1>2, <1>3, <1>6, <1>8, <3>1
        <3>2. CASE f \in T
            <4>1. ~Before(f.largest, g.smallest)
                <5>1. lo <= f.largest.key
                    BY <1>7, <3>2 DEF Overlaps
                <5>2. f.largest.key > g.smallest.key
                    BY <1>2, <1>3, <1>7, <1>8, <3>2, <5>1
                <5>3. QED
                    BY <1>1, <1>3, <1>6, <1>7, <3>2, <5>2
            <4>2. QED
                BY <1>7, <3>2, <4>1
        <3>3. QED
            BY <3>1, <3>2
    <2>2. ASSUME NEW f \in S \union T, NEW e \in Entries(f) PROVE Before(g.largest, e)
        <3>1. f \in S \union fs
            BY <1>7
        <3>2. e \in written /\ (e = f.smallest \/ Before(f.smallest, e))
            BY <3>1 DEF Spans
        <3>3. QED
            BY <1>1, <1>6, <2>1, <3>1, <3>2
    <2>3. QED
        BY <1>4, <2>2 DEF Beside
<1>9. CASE hi < g.smallest.key
    <2>1. ASSUME NEW f \in S \union T PROVE Before(f.largest, g.smallest)
        <3>1. CASE f \in S
            BY <1>1, <1>2, <1>3, <1>6, <1>9, <3>1
        <3>2. CASE f \in T
            <4>1. ~Before(g.largest, f.smallest)
                <5>1. f.smallest.key <= hi
                    BY <1>7, <3>2 DEF Overlaps
                <5>2. g.largest.key > f.smallest.key
                    BY <1>2, <1>3, <1>7, <1>9, <3>2, <5>1
                <5>3. QED
                    BY <1>1, <1>3, <1>6, <1>7, <3>2, <5>2
            <4>2. QED
                BY <1>7, <3>2, <4>1
        <3>3. QED
            BY <3>1, <3>2
    <2>2. ASSUME NEW f \in S \union T, NEW e \in Entries(f) PROVE Before(e, g.smallest)
        <3>1. f \in S \union fs
            BY <1>7
        <3>2. e \in written /\ (e = f.largest \/ Before(e, f.largest))
            BY <3>1 DEF Spans
        <3>3. QED
            BY <1>1, <1>6, <2>1, <3>1, <3>2
    <2>3. QED
        BY <1>4, <2>2 DEF Beside
<1>10. QED
    BY <1>5, <1>8, <1>9

-----------------------------------------------------------------------------
(* What tables hold *)

WrittenOK == EntriesOK(written) /\ \A e \in written : e.key \in Key /\ e.seq <= lastSequence

Saves(table) == table \subseteq written /\ table # {}
MemoryOK ==
    /\ mem \subseteq written
    /\ imm # None => Saves(imm)
    /\ compact # None => compact.rest \subseteq written
LogsOK == logs # <<>> /\ \A i \in 1..Len(logs) : logs[i] \subseteq written
DiskOK == \A n \in DOMAIN disk : Saves(disk[n])

\* Every table holds entries that were written.
DataInv == WrittenOK /\ MemoryOK /\ LogsOK /\ DiskOK /\ limits \in Limits

\* A file that is there holds written entries, from its first to its last.
LEMMA RightSpans ==
    ASSUME DataInv, NEW f, Right(f)
    PROVE  Spans(f)
<1>1. f.number \in DOMAIN disk /\ f = Meta(f.number, disk[f.number])
    BY DEF Right
<1>2. PICK S : S = disk[f.number] /\ S \in SUBSET written /\ S # {} /\ Entries(f) = S
    BY <1>1 DEF DataInv, DiskOK, Saves, Entries
<1>3. /\ Ranged(f) /\ f.smallest \in S /\ f.largest \in S
      /\ \A e \in S : /\ e = f.smallest \/ Before(f.smallest, e)
                      /\ e = f.largest \/ Before(e, f.largest)
                      /\ Covers(f, e.key)
    <2>1. EntriesOK(written) /\ \A e \in written : e.key \in Key
        BY DEF DataInv, WrittenOK
    <2>2. PICK n : n = f.number /\ f = Meta(n, S)
        BY <1>1, <1>2
    <2>3. QED
        BY <1>2, <2>1, <2>2, MetaRanges
<1>4. QED
    BY <1>2, <1>3 DEF Spans

\* Tables stay what they hold when more are written, or some are deleted.
LEMMA DiskStays ==
    ASSUME DataInv, written' = written,
           \/ disk' = disk
           \/ \E v, c, error : disk' = DeleteObsoleteFiles(v, c, error)
           \/ \E tables : disk' = WithFiles(tables) /\ \A n \in DOMAIN tables : Saves(tables[n])
    PROVE  DiskOK'
<1>1. CASE disk' = disk
    BY <1>1 DEF DataInv, DiskOK, Saves
<1>2. CASE \E v, c, error : disk' = DeleteObsoleteFiles(v, c, error)
    <2>1. \A n \in DOMAIN disk' : n \in DOMAIN disk /\ disk'[n] = disk[n]
        BY <1>2 DEF DeleteObsoleteFiles
    <2>2. QED
        BY <2>1 DEF DataInv, DiskOK, Saves
<1>3. CASE \E tables : disk' = WithFiles(tables) /\ \A n \in DOMAIN tables : Saves(tables[n])
    <2>1. PICK tables : disk' = WithFiles(tables) /\ \A n \in DOMAIN tables : Saves(tables[n])
        BY <1>3
    <2>2. \A n \in DOMAIN disk' : Saves(disk'[n])
        BY <2>1 DEF WithFiles, DataInv, DiskOK
    <2>3. QED
        BY <2>2 DEF DiskOK, Saves
<1>4. QED
    BY <1>1, <1>2, <1>3

\* What stays as it is when nothing is written.
LEMMA DataStays ==
    ASSUME DataInv, written' = written, limits' = limits,
           mem' = mem \/ mem' = {}, imm' = imm \/ imm' = None \/ (imm' = mem /\ mem # {}),
           compact' # None => compact'.rest \subseteq written, LogsOK', DiskOK'
    PROVE  DataInv'
<1>1. WrittenOK'
    BY DEF DataInv, WrittenOK, lastSequence
<1>2. mem' \subseteq written /\ (imm' # None => imm' \subseteq written /\ imm' # {})
    BY DEF DataInv, MemoryOK, Saves
<1>3. MemoryOK'
    BY <1>2 DEF MemoryOK, Saves
<1>4. QED
    BY <1>1, <1>3 DEF DataInv

\* The logs keep to written entries when one is taken up or dropped.
LEMMA LogsStayOK ==
    ASSUME FilesInv, DataInv, written' = written,
           \/ logs' = logs \/ logs' = <<logs[Len(logs)]>> \/ logs' = Append(logs, {}) \/ logs' = <<{}>>
    PROVE  LogsOK'
<1>1. PICK S : logs \in Seq(S)
    BY DEF FilesInv, FilesTypeOK
<1>2. logs # <<>> /\ \A i \in 1..Len(logs) : logs[i] \subseteq written
    BY DEF DataInv, LogsOK
<1>3. CASE logs' = logs
    BY <1>2, <1>3 DEF LogsOK
<1>4. CASE logs' = <<logs[Len(logs)]>>
    <2>1. logs[Len(logs)] \subseteq written
        BY <1>1, <1>2
    <2>2. QED
        BY <1>4, <2>1 DEF LogsOK
<1>5. CASE logs' = Append(logs, {})
    <2>1. Len(logs') = Len(logs) + 1 /\ \A i \in 1..Len(logs') : logs'[i] = IF i <= Len(logs) THEN logs[i] ELSE {}
        BY <1>1, <1>5
    <2>2. \A i \in 1..Len(logs') : logs'[i] \subseteq written
        BY <1>1, <1>2, <2>1
    <2>3. QED
        BY <1>1, <1>5, <2>2 DEF LogsOK
<1>6. CASE logs' = <<{}>>
    BY <1>6 DEF LogsOK
<1>7. QED
    BY <1>3, <1>4, <1>5, <1>6

\* A write adds an entry of the next sequence number.
LEMMA WriteKeepsData ==
    ASSUME KeyAssumption, FilesInv, DataInv, NEW k \in Key, NEW del, Write(k, del)
    PROVE  DataInv'
<1>1. PICK e : e = [key |-> k, seq |-> lastSequence + 1, del |-> del]
    OBVIOUS
<1>2. /\ written' = written \union {e} /\ mem' = mem \union {e}
      /\ logs' = [logs EXCEPT ![Len(logs)] = @ \union {e}]
      /\ imm' = imm /\ compact' = compact /\ disk' = disk /\ limits' = limits
    BY <1>1 DEF Write, FilesUnchanged
<1>3. PICK n : n = lastSequence
    OBVIOUS
<1>4. n \in Nat /\ n = Cardinality(written) /\ IsFiniteSet(written)
    BY <1>3, FS_CardinalityType DEF DataInv, WrittenOK, EntriesOK, lastSequence
<1>5. e.key = k /\ e.seq = n + 1 /\ k \in Int
    BY <1>1, <1>3 DEF KeyAssumption
<1>6. \A d \in written : d.seq \in Nat /\ d.seq <= n /\ d.key \in Key /\ d.key \in Int
    BY <1>3 DEF DataInv, WrittenOK, EntriesOK
<1>7. e \notin written
    BY <1>4, <1>5, <1>6
<1>8. IsFiniteSet(written') /\ lastSequence' = n + 1
    BY <1>2, <1>4, <1>7, FS_AddElement DEF lastSequence
<1>9. \A d, x \in written' : d.seq = x.seq => d = x
    BY <1>2, <1>4, <1>5, <1>6 DEF DataInv, WrittenOK, EntriesOK
<1>10. \A d \in written' : d.key \in Key /\ d.key \in Int /\ d.seq \in Nat /\ d.seq <= n + 1
    BY <1>2, <1>4, <1>5, <1>6
<1>11. EntriesOK(written')
    BY <1>8, <1>9, <1>10 DEF EntriesOK
<1>12. WrittenOK'
    BY <1>8, <1>10, <1>11 DEF WrittenOK
<1>13. \A S : S \subseteq written => S \subseteq written'
    BY <1>2
<1>14. MemoryOK' /\ DiskOK'
    BY <1>2, <1>13 DEF DataInv, MemoryOK, DiskOK, Saves
<1>15. LogsOK'
    <2>1. PICK S : logs \in Seq(S)
        BY DEF FilesInv, FilesTypeOK
    <2>2. Len(logs') = Len(logs) /\ \A i \in 1..Len(logs) : logs'[i] = logs[i] \/ logs'[i] = logs[i] \union {e}
        BY <1>2, <2>1
    <2>3. \A i \in 1..Len(logs') : logs'[i] \subseteq written'
        BY <1>2, <2>2 DEF DataInv, LogsOK
    <2>4. logs' # <<>>
        BY <2>1, <2>2 DEF DataInv, LogsOK
    <2>5. QED
        BY <2>3, <2>4 DEF LogsOK
<1>16. QED
    BY <1>2, <1>12, <1>14, <1>15 DEF DataInv

\* An output takes some of the rest, and leaves what is behind it.
LEMMA OutputIs ==
    ASSUME LimitsAssumption, DataInv, compact # None, compact.rest # {}
    PROVE  /\ Output \subseteq compact.rest /\ Output # {}
           /\ \A d \in compact.rest \ Output : Before(Greatest(Output), d)
<1>1. PICK rest, stops, most : rest = compact.rest /\ stops = compact.stops /\ most = limits.entries
    OBVIOUS
<1>2. rest \subseteq written /\ rest # {} /\ EntriesOK(written)
    BY <1>1 DEF DataInv, MemoryOK, WrittenOK
<1>3. EntriesOK(rest)
    BY <1>2, SomeEntries
<1>4. /\ \A d, e \in rest : d # e => Before(d, e) \/ Before(e, d)
      /\ \A d \in rest : ~Before(d, d)
      /\ \A d, e, x \in rest : Before(d, e) /\ Before(e, x) => Before(d, x)
    BY <1>3, BeforeOrders
<1> DEFINE upTo(e) == {d \in rest : ~Before(e, d)}
           fits(e) == /\ Cardinality(upTo(e)) <= most
                      /\ ~ \E t \in stops : Before(Smallest(rest), t) /\ ~Before(e, t)
<1>5. PICK F : F = {e \in rest : fits(e)}
    OBVIOUS
<1>6. Output = upTo(Greatest(F))
    BY <1>1, <1>5 DEF Output
<1>7. PICK first : first = Smallest(rest)
    OBVIOUS
<1>8. first \in rest /\ \A e \in rest \ {first} : Before(first, e)
    BY <1>2, <1>3, <1>7, SmallestGreatest
<1>9. upTo(first) = {first}
    BY <1>4, <1>8
<1>10. first \in F
    <2>1. Cardinality({first}) = 1
        BY FS_Singleton
    <2>2. most \in Nat \ {0}
        BY <1>1 DEF DataInv, LimitsAssumption
    <2>3. fits(first)
        BY <1>7, <1>9, <2>1, <2>2
    <2>4. QED
        BY <1>5, <1>8, <2>3
<1>11. PICK last : last = Greatest(F)
    OBVIOUS
<1>12. last \in rest
    <2>1. F \in SUBSET rest /\ F # {}
        BY <1>5, <1>10
    <2>2. EntriesOK(F)
        BY <1>3, <2>1, SomeEntries
    <2>3. last \in F
        BY <1>11, <2>1, <2>2, SmallestGreatest
    <2>4. QED
        BY <2>1, <2>3
<1>13. PICK out : out = Output
    OBVIOUS
<1>14. out = {d \in rest : ~Before(last, d)} /\ last \in out
    BY <1>4, <1>6, <1>11, <1>12, <1>13
<1>15. PICK g : g = Greatest(out)
    OBVIOUS
<1>16. g \in out
    <2>1. out \in SUBSET rest /\ out # {}
        BY <1>14
    <2>2. EntriesOK(out)
        BY <1>3, <2>1, SomeEntries
    <2>3. QED
        BY <1>15, <2>1, <2>2, SmallestGreatest
<1>17. \A d \in rest \ out : Before(g, d)
    BY <1>4, <1>12, <1>14, <1>16
<1>18. QED
    BY <1>1, <1>13, <1>14, <1>15, <1>17

\* What a compaction may take into its outputs are entries of files.
LEMMA InputsAreWritten ==
    ASSUME DataInv, NEW in
    PROVE  MakeInputIterator(in) \subseteq written
BY DEF DataInv, DiskOK, Saves, MakeInputIterator, Entries

\* Every step keeps the tables holding what was written.
LEMMA DataStep ==
    ASSUME KeyAssumption, LimitsAssumption, FilesInv, DataInv, [Next]_vars
    PROVE  DataInv'
<1>1. CASE UNCHANGED vars
    <2>1. DiskOK' /\ LogsOK'
        BY <1>1, DiskStays, LogsStayOK DEF vars
    <2>2. QED
        BY <1>1, <2>1, DataStays DEF vars, DataInv, MemoryOK
<1>2. CASE \E k \in Key, del \in BOOLEAN : Write(k, del)
    BY <1>2, WriteKeepsData
<1>3. CASE SwitchMemTable \/ StartRead \/ EndRead \/ GetSnapshot \/ ReleaseSnapshot
    <2>1. /\ written' = written /\ limits' = limits /\ disk' = disk /\ compact' = compact
          /\ logs' = logs \/ logs' = Append(logs, {})
          /\ mem' = mem \/ mem' = {}
          /\ imm' = imm \/ (imm' = mem /\ mem # {})
        BY <1>3 DEF SwitchMemTable, StartRead, EndRead, GetSnapshot, ReleaseSnapshot, FilesUnchanged, memory, users
    <2>2. DiskOK' /\ LogsOK'
        BY <2>1, DiskStays, LogsStayOK
    <2>3. QED
        BY <2>1, <2>2, DataStays DEF DataInv, MemoryOK
<1>4. CASE WriteLevel0Table
    <2>1. /\ written' = written /\ limits' = limits /\ compact' = compact /\ logs' = logs
          /\ mem' = mem /\ imm' = imm /\ imm # None
          /\ disk' = WithFiles([n \in {nextFile} |-> imm]) \/ disk' = disk
        BY <1>4 DEF WriteLevel0Table, memory
    <2>2. PICK tables : tables = [n \in {nextFile} |-> imm]
        OBVIOUS
    <2>3. \A n \in DOMAIN tables : Saves(tables[n])
        BY <2>1, <2>2 DEF DataInv, MemoryOK
    <2>4. DiskOK' /\ LogsOK'
        BY <2>1, <2>2, <2>3, DiskStays, LogsStayOK
    <2>5. QED
        BY <2>1, <2>4, DataStays DEF DataInv, MemoryOK
<1>5. CASE LogMemTable
    <2>1. /\ written' = written /\ limits' = limits /\ compact' = compact /\ disk' = disk
          /\ mem' = mem /\ imm' = imm
          /\ logs' = logs \/ logs' = <<logs[Len(logs)]>>
        BY <1>5 DEF LogMemTable, Logged, LogFails
    <2>2. DiskOK' /\ LogsOK'
        BY <2>1, DiskStays, LogsStayOK
    <2>3. QED
        BY <2>1, <2>2, DataStays DEF DataInv, MemoryOK
<1>6. CASE InstallMemTable
    <2>1. /\ written' = written /\ limits' = limits /\ compact' = compact /\ logs' = logs
          /\ mem' = mem /\ imm' = None
          /\ \E v, c, error : disk' = DeleteObsoleteFiles(v, c, error)
        BY <1>6 DEF InstallMemTable, memory
    <2>2. DiskOK' /\ LogsOK'
        BY <2>1, DiskStays, LogsStayOK
    <2>3. QED
        BY <2>1, <2>2, DataStays DEF DataInv, MemoryOK
<1>7. CASE BackgroundCompaction
    <2>1. /\ written' = written /\ limits' = limits /\ disk' = disk /\ logs' = logs
          /\ mem' = mem /\ imm' = imm
        BY <1>7 DEF BackgroundCompaction, memory
    <2>2. \E in : compact'.rest \subseteq MakeInputIterator(in)
        BY <1>7 DEF BackgroundCompaction
    <2>3. compact'.rest \subseteq written
        BY <2>2, InputsAreWritten
    <2>4. DiskOK' /\ LogsOK'
        BY <2>1, DiskStays, LogsStayOK
    <2>5. QED
        BY <2>1, <2>3, <2>4, DataStays
<1>8. CASE WriteOutput
    <2>1. PICK out : out = Output
        OBVIOUS
    <2>2. /\ written' = written /\ limits' = limits /\ logs' = logs /\ mem' = mem /\ imm' = imm
          /\ compact # None /\ compact.rest # {}
          /\ \/ /\ disk' = WithFiles([n \in {nextFile} |-> out])
                /\ compact' = [compact EXCEPT !.rest = @ \ out, !.outputs = @ \union {Meta(nextFile, out)}]
             \/ disk' = disk /\ compact' = None
        BY <1>8, <2>1 DEF WriteOutput, Working, memory
    <2>3. out \subseteq compact.rest /\ out # {}
        BY <2>1, <2>2, OutputIs
    <2>4. compact.rest \subseteq written
        BY <2>2 DEF DataInv, MemoryOK
    <2>5. PICK tables : tables = [n \in {nextFile} |-> out]
        OBVIOUS
    <2>6. \A n \in DOMAIN tables : Saves(tables[n])
        BY <2>3, <2>4, <2>5 DEF Saves
    <2>7. DiskOK' /\ LogsOK'
        BY <2>2, <2>5, <2>6, DiskStays, LogsStayOK
    <2>8. compact' # None => compact'.rest \subseteq compact.rest
        BY <2>2 DEF FilesInv, FilesTypeOK
    <2>9. QED
        BY <2>2, <2>4, <2>7, <2>8, DataStays
<1>9. CASE LogCompaction
    <2>1. /\ written' = written /\ limits' = limits /\ mem' = mem /\ imm' = imm /\ compact # None
          /\ compact' = [compact EXCEPT !.pc = "install"] \/ compact' = None
          /\ disk' = disk \/ \E v, c, error : disk' = DeleteObsoleteFiles(v, c, error)
          /\ logs' = logs \/ logs' = <<logs[Len(logs)]>>
        BY <1>9 DEF LogCompaction, Logged, LogFails
    <2>2. compact' # None => compact'.rest = compact.rest
        BY <2>1 DEF FilesInv, FilesTypeOK
    <2>3. DiskOK' /\ LogsOK'
        BY <2>1, DiskStays, LogsStayOK
    <2>4. QED
        BY <2>1, <2>2, <2>3, DataStays DEF DataInv, MemoryOK
<1>10. CASE InstallCompaction
    <2>1. /\ written' = written /\ limits' = limits /\ mem' = mem /\ imm' = imm /\ logs' = logs
          /\ compact' = None
          /\ disk' = disk \/ \E v, c, error : disk' = DeleteObsoleteFiles(v, c, error)
        BY <1>10 DEF InstallCompaction, memory
    <2>2. DiskOK' /\ LogsOK'
        BY <2>1, DiskStays, LogsStayOK
    <2>3. QED
        BY <2>1, <2>2, DataStays
<1>11. CASE Crash
    <2>1. /\ written' = written /\ limits' = limits /\ mem' = {} /\ imm' = None /\ compact' = None
          /\ logs' = logs /\ disk' = disk
        BY <1>11 DEF Crash
    <2>2. DiskOK' /\ LogsOK'
        BY <2>1, DiskStays, LogsStayOK
    <2>3. QED
        BY <2>1, <2>2, DataStays
<1>12. CASE Recover
    <2>1. /\ written' = written /\ limits' = limits /\ mem' = mem /\ imm' = imm /\ compact' = compact
          /\ logs' = logs
        BY <1>12 DEF Recover, memory
    <2>2. PICK tables, n : RecoveredTables(tables, n) /\ disk' = WithFiles(tables)
        BY <1>12, RecoverGives
    <2>3. \A m \in DOMAIN tables : Saves(tables[m])
        BY <2>2 DEF RecoveredTables, DataInv, LogsOK, Saves
    <2>4. DiskOK' /\ LogsOK'
        BY <2>1, <2>2, <2>3, DiskStays, LogsStayOK
    <2>5. QED
        BY <2>1, <2>4, DataStays DEF DataInv, MemoryOK
<1>13. CASE Opened
    <2>1. /\ written' = written /\ limits' = limits /\ mem' = mem /\ imm' = imm /\ compact' = compact
          /\ logs' = <<{}>> /\ \E v, c, error : disk' = DeleteObsoleteFiles(v, c, error)
        BY <1>13 DEF Opened
    <2>2. DiskOK' /\ LogsOK'
        BY <2>1, DiskStays, LogsStayOK
    <2>3. QED
        BY <2>1, <2>2, DataStays DEF DataInv, MemoryOK
<1>14. QED
    BY <1>1, <1>2, <1>3, <1>4, <1>5, <1>6, <1>7, <1>8, <1>9, <1>10, <1>11, <1>12, <1>13 DEF Next

\* Nothing is written yet.
LEMMA DataInit ==
    ASSUME Init
    PROVE  DataInv
<1>1. /\ limits \in Limits /\ written = {} /\ mem = {} /\ imm = None /\ logs = <<{}>> /\ disk = <<>>
      /\ compact = None
    BY DEF Init
<1>2. WrittenOK
    BY <1>1, FS_EmptySet DEF WrittenOK, EntriesOK
<1>3. MemoryOK /\ LogsOK /\ DiskOK
    BY <1>1 DEF MemoryOK, LogsOK, DiskOK
<1>4. QED
    BY <1>1, <1>2, <1>3 DEF DataInv

-----------------------------------------------------------------------------
(* The invariant of the sorted levels *)

\* The file may stand at a level that has these.
Apart(f, fs) == \A g \in fs : Disjoint(f, g) \/ SameRange(f, g)
OfTable(f, table) == f.smallest = Smallest(table) /\ f.largest = Greatest(table)

\* The file is out of the way of all a compaction adds, and has yet to add.
Clear(g, c) == Beside(g, c.rest) /\ \A o \in c.outputs \union c.moved : Disjoint(g, o)

OutputsSorted(c) ==
    /\ \A o \in c.outputs, d \in c.rest : Before(o.largest, d)
    /\ \A o, p \in c.outputs \union c.moved : o # p => Disjoint(o, p)

\* So are the files that the compaction leaves at the level it adds to.
TargetClear(c, fs) == \A g \in fs : <<c.level + 1, g.number>> \notin c.deleted => Clear(g, c)

\* A memtable out of the way of these files, which the version still has, is out of the way
\* of all that is made of them.
Touched(S, k) == \E f \in S : Covers(f, k)
MadeOf(c, v) ==
    /\ c.moved = {}
    /\ \E S \in SUBSET (v[c.level] \union v[c.level + 1]) :
        /\ Connected(S)
        /\ \A d \in c.rest : Touched(S, d.key)
        /\ \A o \in c.outputs : Touched(S, o.smallest.key) /\ Touched(S, o.largest.key)

Building ==
    compact # None =>
        /\ compact.level \in Level
        /\ compact.pc = "work" => compact.moved = {}
        /\ OutputsSorted(compact)
        /\ compact.level + 1 \in Level =>
            /\ TargetClear(compact, current[compact.level + 1])
            /\ compact.pc # "install" => TargetClear(compact, manifest.files[compact.level + 1])
            /\ compact.pc = "work" => MadeOf(compact, current)

\* What the edit of a memtable adds fits, where it is to be added.
Saving ==
    flush # None =>
        /\ imm # None /\ flush.pc \in {"log", "install"} /\ flush.edit.deleted = {}
        /\ \A l \in Level : \A f \in flush.edit.added[l] :
            /\ OfTable(f, imm)
            /\ l > 0 => Apart(f, current[l]) /\ (flush.pc = "log" => Apart(f, manifest.files[l]))
            /\ compact # None /\ l = compact.level + 1 => Clear(f, compact)

\* When a memtable is saved again, the manifest has no more than the current version but
\* what it was saved as before.
SavedBefore ==
    compact # None /\ compact.pc = "work" /\ imm # None =>
        \A l \in Level : \A g \in manifest.files[l] : g \in current[l] \/ OfTable(g, imm)

AllSorted == \A l \in Level \ {0} : Sorted(current[l]) /\ Sorted(manifest.files[l])

SortedInv == AllSorted /\ Building /\ Saving /\ SavedBefore

-----------------------------------------------------------------------------
(* What an edit does to a level *)

\* What a version holds at a level after an edit.
LEMMA AppliedAt ==
    ASSUME NEW v, NEW edit, NEW l \in Level
    PROVE  Applied(v, edit)[l] = {f \in v[l] : <<l, f.number>> \notin edit.deleted} \union edit.added[l]
BY DEF Applied

\* Its files were there, or are added; they all stay when it deletes nothing.
LEMMA AppliedHas ==
    ASSUME NEW v, NEW edit, NEW w, w = Applied(v, edit)
    PROVE  /\ \A l \in Level : \A g \in w[l] : g \in v[l] \/ g \in edit.added[l]
           /\ edit.deleted = {} => \A l \in Level : v[l] \subseteq w[l]
<1>1. \A l \in Level : w[l] = {f \in v[l] : <<l, f.number>> \notin edit.deleted} \union edit.added[l]
    BY DEF Applied
<1>2. QED
    BY <1>1

\* Some files of a sorted level, and more that are sorted and apart from them, are sorted.
LEMMA SortedUnion ==
    ASSUME NEW fs, NEW gs, Sorted(fs), Sorted(gs), \A g \in gs : Apart(g, fs)
    PROVE  Sorted(fs \union gs)
BY DEF Sorted, Apart, Disjoint, SameRange

\* Some of the files of a sorted level are sorted.
LEMMA SortedSubset ==
    ASSUME NEW fs, NEW gs \in SUBSET fs, Sorted(fs)
    PROVE  Sorted(gs)
BY DEF Sorted

\* A level stays sorted when what an edit adds is, apart from what it leaves.
LEMMA AppliedSorted ==
    ASSUME NEW v, NEW edit, NEW l \in Level, Sorted(v[l]), Sorted(edit.added[l]),
           \A g \in edit.added[l] : \A h \in v[l] :
              <<l, h.number>> \notin edit.deleted => Disjoint(g, h) \/ SameRange(g, h)
    PROVE  Sorted(Applied(v, edit)[l])
<1>1. PICK fs : fs = {f \in v[l] : <<l, f.number>> \notin edit.deleted}
    OBVIOUS
<1>2. Applied(v, edit)[l] = fs \union edit.added[l]
    BY <1>1, AppliedAt
<1>3. fs \subseteq v[l] /\ Sorted(fs)
    BY <1>1, SortedSubset
<1>4. \A g \in edit.added[l] : Apart(g, fs)
    BY <1>1 DEF Apart
<1>5. QED
    BY <1>2, <1>3, <1>4, SortedUnion

\* The edit of a memtable keeps levels sorted.
LEMMA MemTableEditSorted ==
    ASSUME NEW v, NEW edit, NEW table,
           \A l \in Level : \A f \in edit.added[l] : OfTable(f, table) /\ (l > 0 => Apart(f, v[l])),
           \A l \in Level \ {0} : Sorted(v[l])
    PROVE  \A l \in Level \ {0} : Sorted(Applied(v, edit)[l])
<1>1. TAKE l \in Level \ {0}
<1>2. l > 0
    BY LevelAssumption DEF Level
<1>3. Sorted(edit.added[l])
    BY DEF Sorted, SameRange, OfTable
<1>4. \A g \in edit.added[l] : \A h \in v[l] : Disjoint(g, h) \/ SameRange(g, h)
    BY <1>2 DEF Apart
<1>5. QED
    BY <1>3, <1>4, AppliedSorted

\* So does the edit of a compaction.
LEMMA CompactionEditSorted ==
    ASSUME NEW c, NEW v, NEW edit, c.deleted \subseteq edit.deleted,
           \A l \in Level : \A g \in edit.added[l] : l = c.level + 1 /\ g \in c.outputs \union c.moved,
           OutputsSorted(c), c.level + 1 \in Level => TargetClear(c, v[c.level + 1]),
           \A l \in Level \ {0} : Sorted(v[l])
    PROVE  \A l \in Level \ {0} : Sorted(Applied(v, edit)[l])
<1>1. TAKE l \in Level \ {0}
<1>2. Sorted(edit.added[l])
    BY DEF OutputsSorted, Sorted
<1>3. \A g \in edit.added[l] : \A h \in v[l] :
         <<l, h.number>> \notin edit.deleted => Disjoint(g, h) \/ SameRange(g, h)
    BY DEF TargetClear, Clear, Disjoint
<1>4. QED
    BY <1>2, <1>3, AppliedSorted

-----------------------------------------------------------------------------
(* The steps, and the levels *)

\* The calls of users.
LEMMA CallsKeepSorted ==
    ASSUME FilesInv, SortedInv, FilesUnchanged,
           imm' = imm \/ (imm = None /\ phase = "open" /\ ~bgError)
    PROVE  SortedInv'
<1>1. /\ current' = current /\ manifest' = manifest /\ compact' = compact /\ flush' = flush
    BY DEF FilesUnchanged
<1>2. AllSorted' /\ Building'
    BY <1>1 DEF SortedInv, AllSorted, Building
<1>3. CASE imm' = imm
    <2>1. Saving' /\ SavedBefore'
        BY <1>1, <1>3 DEF SortedInv, Saving, SavedBefore
    <2>2. QED
        BY <1>2, <2>1 DEF SortedInv
<1>4. CASE imm = None /\ phase = "open" /\ ~bgError
    <2>1. flush = None
        BY <1>4 DEF SortedInv, Saving
    <2>2. Saving'
        BY <1>1, <2>1 DEF Saving
    <2>3. compact # None /\ compact.pc = "work" => manifest.files = current
        BY <1>4, <2>1 DEF FilesInv, Installing
    <2>4. SavedBefore'
        BY <1>1, <2>3 DEF SavedBefore
    <2>5. QED
        BY <1>2, <2>2, <2>4 DEF SortedInv
<1>5. QED
    BY <1>3, <1>4

\* The memtable's table goes where nothing reaches into its keys, down from level 0.
LEMMA PickedLevelIsFree ==
    ASSUME NEW v, NEW lo, NEW hi, NEW l \in Nat \ {0}, l = PickLevelForMemTableOutput(v, lo, hi)
    PROVE  \A m \in 0..l : ~OverlapInLevel(v, m, lo, hi)
<1> DEFINE free(m) == /\ ~OverlapInLevel(v, m, lo, hi)
                      /\ m + 1 < NumLevels =>
                           Size(GetOverlappingInputs(v, m + 1, lo, hi)) <= MaxGrandParentOverlap
<1>1. ~OverlapInLevel(v, 0, lo, hi)
    BY DEF PickLevelForMemTableOutput
<1>2. PICK fr : fr = {m \in 0..MaxMemCompactLevel : \A i \in 1..m : free(i)}
    OBVIOUS
<1>3. l = Max(fr)
    BY <1>1, <1>2 DEF PickLevelForMemTableOutput
<1>4. IsFiniteSet(fr) /\ fr # {} /\ \A m \in fr : m \in Int
    <2>1. 0 \in fr
        BY <1>2, LevelAssumption
    <2>2. IsFiniteSet(0..MaxMemCompactLevel)
        BY LevelAssumption, FS_Interval
    <2>3. fr \in SUBSET (0..MaxMemCompactLevel)
        BY <1>2
    <2>4. IsFiniteSet(fr)
        BY <2>2, <2>3, FS_Subset
    <2>5. QED
        BY <2>1, <2>3, <2>4
<1>5. l \in fr
    BY <1>3, <1>4, MaxMin
<1>6. \A m \in 1..l : ~OverlapInLevel(v, m, lo, hi)
    BY <1>2, <1>5
<1>7. QED
    BY <1>1, <1>6

\* The edit of a compaction adds at one level.
LEMMA CompactionEditAdds ==
    ASSUME NEW edit, edit = CompactionEdit
    PROVE  /\ compact.deleted \subseteq edit.deleted
           /\ \A l \in Level : \A g \in edit.added[l] :
                 l = compact.level + 1 /\ g \in compact.outputs \union compact.moved
<1>1. PICK added : added = [NoFiles EXCEPT ![compact.level + 1] = compact.outputs \union compact.moved]
    OBVIOUS
<1>2. edit = [deleted |-> compact.deleted, added |-> added, log |-> FALSE]
    BY <1>1 DEF CompactionEdit
<1>3. \A l \in Level : added[l] = IF l = compact.level + 1 THEN compact.outputs \union compact.moved ELSE {}
    BY <1>1 DEF NoFiles
<1>4. edit.added = added /\ edit.deleted = compact.deleted
    BY <1>2
<1>5. QED
    BY <1>3, <1>4

\* Nothing that the compaction is made of reaches into the range: nor do its outputs, and
\* what is to come of it is on one side.
LEMMA MadeOfClear ==
    ASSUME KeyAssumption, DataInv, NEW c, NEW v, MadeOf(c, v), NEW f,
           Ranged(f), f.smallest \in written, f.largest \in written,
           c.rest \subseteq written,
           \A o \in c.outputs : Ranged(o) /\ o.smallest \in written /\ o.largest \in written,
           \A g \in v[c.level] \union v[c.level + 1] :
              Ranged(g) /\ ~Overlaps(g, f.smallest.key, f.largest.key)
    PROVE  Clear(f, c)
<1>0. \A k \in Key : k \in Int
    BY DEF KeyAssumption
<1>1. PICK S \in SUBSET (v[c.level] \union v[c.level + 1]) :
        /\ Connected(S)
        /\ \A d \in c.rest : Touched(S, d.key)
        /\ \A o \in c.outputs : Touched(S, o.smallest.key) /\ Touched(S, o.largest.key)
    BY DEF MadeOf
<1>2. PICK lo, hi : lo = f.smallest.key /\ hi = f.largest.key
    OBVIOUS
<1>3. lo \in Key /\ hi \in Key /\ lo \in Int /\ hi \in Int /\ lo <= hi
    BY <1>0, <1>2 DEF Ranged
<1>4. (\A g \in S : g.largest.key < lo) \/ (\A g \in S : hi < g.smallest.key)
    BY <1>1, <1>2, <1>3 DEF Connected
<1>5. \A g \in S : g.smallest.key \in Int /\ g.largest.key \in Int
    BY <1>0, <1>1 DEF Ranged
<1>6. \A d \in written : d.key \in Int
    BY DEF DataInv, WrittenOK, EntriesOK
<1>7. \A d, e \in written : d.key < e.key => Before(d, e)
    BY BeforeOrders DEF DataInv, WrittenOK
<1>8. c.moved = {}
    BY DEF MadeOf
<1>9. CASE \A g \in S : g.largest.key < lo
    <2>1. \A d \in written : Touched(S, d.key) => d.key < lo
        BY <1>3, <1>5, <1>6, <1>9 DEF Touched, Covers
    <2>2. \A d \in c.rest : Before(d, f.smallest)
        BY <1>1, <1>2, <1>7, <2>1
    <2>3. \A o \in c.outputs : Before(o.largest, f.smallest)
        BY <1>1, <1>2, <1>7, <2>1
    <2>4. QED
        BY <1>8, <2>2, <2>3 DEF Clear, Beside, Disjoint
<1>10. CASE \A g \in S : hi < g.smallest.key
    <2>1. \A d \in written : Touched(S, d.key) => hi < d.key
        BY <1>3, <1>5, <1>6, <1>10 DEF Touched, Covers
    <2>2. \A d \in c.rest : Before(f.largest, d)
        BY <1>1, <1>2, <1>7, <2>1
    <2>3. \A o \in c.outputs : Before(f.largest, o.smallest)
        BY <1>1, <1>2, <1>7, <2>1
    <2>4. QED
        BY <1>8, <2>2, <2>3 DEF Clear, Beside, Disjoint
<1>11. QED
    BY <1>4, <1>9, <1>10

\* What stands beside a file that a range does not reach into.
LEMMA NotOverlapping ==
    ASSUME KeyAssumption, NEW f, NEW g, Ranged(f), Ranged(g),
           ~Overlaps(g, f.smallest.key, f.largest.key)
    PROVE  Disjoint(f, g)
<1>1. /\ f.smallest.key \in Int /\ f.largest.key \in Int
      /\ g.smallest.key \in Int /\ g.largest.key \in Int
    BY DEF KeyAssumption, Ranged
<1>2. g.largest.key < f.smallest.key \/ f.largest.key < g.smallest.key
    BY <1>1 DEF Overlaps
<1>3. QED
    BY <1>2 DEF Disjoint, Before

\* The files of the versions hold written entries.
LEMMA VersionsSpan ==
    ASSUME FilesInv, DataInv
    PROVE  /\ \A l \in Level : \A g \in current[l] \union manifest.files[l] : Spans(g)
           /\ compact # None => \A o \in compact.outputs \union compact.moved : Spans(o)
<1>1. \A f : Known(f) => Spans(f)
    BY RightSpans DEF Known
<1>2. \A l \in Level : \A g \in current[l] \union manifest.files[l] : Known(g)
    BY DEF FilesInv, AllKnown, Held, Saved, FilesOf
<1>3. compact # None => \A o \in compact.outputs \union compact.moved : Known(o)
    BY DEF FilesInv, AllKnown, Held, MovedIsHeld
<1>4. QED
    BY <1>1, <1>2, <1>3

\* The table of the memtable gets a place in the current version, and beside a compaction.
LEMMA WriteLevel0TableKeepsSorted ==
    ASSUME KeyAssumption, FilesInv, DataInv, SortedInv, WriteLevel0Table
    PROVE  SortedInv'
<1>1. /\ imm # None /\ (CanStart \/ Working)
      /\ UNCHANGED <<imm, current, manifest, compact>>
    BY DEF WriteLevel0Table, memory, users
<1>2. /\ phase = "open" /\ flush = None /\ (compact # None => compact.pc = "work")
      /\ compact = None => ~bgError
    BY <1>1 DEF CanStart, Working, FilesInv, AtRest
<1>3. \/ flush' = [pc |-> "log", edit |-> MemTableEdit(nextFile)]
      \/ flush' = None
    BY <1>2 DEF WriteLevel0Table
<1>4. AllSorted' /\ Building' /\ SavedBefore'
    BY <1>1 DEF SortedInv, AllSorted, Building, SavedBefore
<1>5. CASE flush' = None
    BY <1>4, <1>5 DEF SortedInv, Saving
<1>6. CASE flush' = [pc |-> "log", edit |-> MemTableEdit(nextFile)]
    <2>1. PICK f : f = Meta(nextFile, imm)
        OBVIOUS
    <2>2. PICK l : l = PickLevelForMemTableOutput(current, f.smallest.key, f.largest.key)
        OBVIOUS
    <2>3. PICK added : added = [NoFiles EXCEPT ![l] = {f}]
        OBVIOUS
    <2>4. PICK edit : edit = [deleted |-> {}, added |-> added, log |-> TRUE] /\ edit = MemTableEdit(nextFile)
        BY <2>1, <2>2, <2>3 DEF MemTableEdit
    <2>5. \A m \in Level : added[m] = IF m = l THEN {f} ELSE {}
        BY <2>3 DEF NoFiles
    <2>6. Ranged(f) /\ f.smallest \in written /\ f.largest \in written /\ OfTable(f, imm)
        <3>1. imm \in SUBSET written /\ imm # {} /\ EntriesOK(written) /\ \A e \in written : e.key \in Key
            BY <1>1 DEF DataInv, MemoryOK, Saves, WrittenOK
        <3>2. QED
            BY <2>1, <3>1, MetaRanges DEF OfTable
    <2>7. \A m \in Level : \A g \in current[m] \union manifest.files[m] : Ranged(g)
        BY VersionsSpan DEF Spans
    <2>8. ASSUME l \in Level, l > 0
          PROVE  /\ \A m \in 0..l : \A g \in current[m] : ~Overlaps(g, f.smallest.key, f.largest.key)
                 /\ Apart(f, current[l]) /\ Apart(f, manifest.files[l])
                 /\ compact # None /\ l = compact.level + 1 => Clear(f, compact)
        <3>1. l \in Nat \ {0}
            BY <2>8, LevelAssumption DEF Level
        <3>2. \A m \in 0..l : \A g \in current[m] : ~Overlaps(g, f.smallest.key, f.largest.key)
            BY <2>2, <3>1, PickedLevelIsFree DEF OverlapInLevel
        <3>3. l \in 0..l
            BY <3>1
        <3>4. Apart(f, current[l])
            BY <2>6, <2>7, <2>8, <3>2, <3>3, NotOverlapping DEF Apart
        <3>5. \A g \in manifest.files[l] : g \in current[l] \/ OfTable(g, imm)
            <4>1. CASE compact = None
                BY <1>2, <4>1 DEF FilesInv, Installing
            <4>2. CASE compact # None
                BY <1>1, <1>2, <2>8, <4>2 DEF SortedInv, SavedBefore
            <4>3. QED
                BY <4>1, <4>2
        <3>6. Apart(f, manifest.files[l])
            BY <2>6, <3>4, <3>5 DEF Apart, OfTable, SameRange
        <3>7. ASSUME compact # None, l = compact.level + 1 PROVE Clear(f, compact)
            <4>1. MadeOf(compact, current) /\ compact.level \in Level
                BY <1>2, <2>8, <3>7 DEF SortedInv, Building
            <4>2. PICK m : m = compact.level /\ m \in Nat /\ m + 1 = l
                BY <3>7, <4>1, LevelAssumption DEF Level
            <4>3. m \in 0..l /\ l \in 0..l /\ m \in Level
                BY <3>1, <4>1, <4>2
            <4>4. \A g \in current[m] \union current[m + 1] :
                     Ranged(g) /\ ~Overlaps(g, f.smallest.key, f.largest.key)
                BY <2>7, <2>8, <3>2, <4>2, <4>3
            <4>5. compact.rest \subseteq written
                BY <3>7 DEF DataInv, MemoryOK
            <4>6. \A o \in compact.outputs : Ranged(o) /\ o.smallest \in written /\ o.largest \in written
                BY <3>7, VersionsSpan DEF Spans
            <4>7. QED
                BY <2>6, <4>1, <4>2, <4>4, <4>5, <4>6, MadeOfClear
        <3>8. QED
            BY <3>2, <3>4, <3>6, <3>7
    <2>9. flush'.edit = edit /\ flush'.pc = "log" /\ edit.deleted = {} /\ edit.added = added
        BY <1>6, <2>4
    <2>10. compact # None => compact.level + 1 > 0
        BY LevelAssumption DEF SortedInv, Building, Level
    <2>11. ASSUME NEW m \in Level, NEW g \in added[m]
           PROVE  /\ OfTable(g, imm)
                  /\ m > 0 => Apart(g, current[m]) /\ Apart(g, manifest.files[m])
                  /\ compact # None /\ m = compact.level + 1 => Clear(g, compact)
        <3>1. g = f /\ m = l
            BY <2>5, <2>11
        <3>2. QED
            BY <2>6, <2>8, <2>10, <2>11, <3>1
    <2>12. Saving'
        BY <1>1, <2>9, <2>11 DEF Saving
    <2>13. QED
        BY <1>4, <2>12 DEF SortedInv
<1>7. QED
    BY <1>3, <1>5, <1>6

\* The manifest gets the memtable's table, or does not.
LEMMA LogMemTableKeepsSorted ==
    ASSUME NoneIsNoRecord, FilesInv, SortedInv, LogMemTable
    PROVE  SortedInv'
<1>1. /\ flush # None /\ flush.pc = "log" /\ phase = "open"
      /\ UNCHANGED <<imm, current, compact>>
    BY DEF LogMemTable, FilesInv, AtRest
<1>2. compact # None => compact.pc = "work"
    BY <1>1 DEF FilesInv, OneEdit
<1>3. PICK e : e = flush.edit
    OBVIOUS
<1>4. /\ imm # None /\ e.deleted = {}
      /\ \A l \in Level : \A f \in e.added[l] :
            /\ OfTable(f, imm)
            /\ l > 0 => Apart(f, current[l]) /\ Apart(f, manifest.files[l])
            /\ compact # None /\ l = compact.level + 1 => Clear(f, compact)
    BY <1>1, <1>3 DEF SortedInv, Saving
<1>5. /\ manifest'.files = Applied(manifest.files, e) \/ manifest' = manifest
      /\ flush' = [flush EXCEPT !.pc = "install"] \/ flush' = None
    BY <1>3 DEF LogMemTable, LogFails, Logged
<1>6. PICK files : files = manifest'.files /\ (files = Applied(manifest.files, e) \/ files = manifest.files)
    BY <1>5
<1>7. \A l \in Level : \A g \in files[l] : g \in manifest.files[l] \/ g \in e.added[l]
    BY <1>6, AppliedHas
<1>8. AllSorted'
    <2>1. \A l \in Level \ {0} : Sorted(manifest.files[l]) /\ Sorted(current[l])
        BY DEF SortedInv, AllSorted
    <2>2. \A l \in Level \ {0} : Sorted(Applied(manifest.files, e)[l])
        BY <1>4, <2>1, MemTableEditSorted
    <2>3. \A l \in Level \ {0} : Sorted(files[l])
        BY <1>6, <2>1, <2>2
    <2>4. QED
        BY <1>1, <1>6, <2>1, <2>3 DEF AllSorted
<1>9. Building'
    <2>1. SUFFICES ASSUME compact # None PROVE Building'
        BY <1>1 DEF Building
    <2>2. PICK c, m : c = compact /\ m = c.level + 1
        OBVIOUS
    <2>3. /\ c.level \in Level /\ OutputsSorted(c) /\ c.pc = "work" /\ c.moved = {}
          /\ m \in Level => TargetClear(c, current[m]) /\ TargetClear(c, manifest.files[m]) /\ MadeOf(c, current)
        BY <1>2, <2>1, <2>2 DEF SortedInv, Building
    <2>4. m \in Level => TargetClear(c, files[m])
        BY <1>4, <1>7, <2>1, <2>2, <2>3 DEF TargetClear
    <2>5. QED
        BY <1>1, <1>6, <2>2, <2>3, <2>4 DEF Building
<1>10. Saving'
    <2>1. flush' # None => flush'.pc = "install" /\ flush'.edit = e
        BY <1>1, <1>3, <1>5 DEF FilesInv, FilesTypeOK
    <2>2. QED
        BY <1>1, <1>4, <2>1 DEF Saving
<1>11. SavedBefore'
    <2>1. SUFFICES ASSUME compact # None, imm # None, NEW l \in Level, NEW g \in files[l]
                   PROVE  g \in current[l] \/ OfTable(g, imm)
        BY <1>1, <1>6 DEF SavedBefore
    <2>2. CASE g \in manifest.files[l]
        BY <1>1, <1>2, <2>1, <2>2 DEF SortedInv, SavedBefore
    <2>3. CASE g \in e.added[l]
        BY <1>4, <2>1, <2>3
    <2>4. QED
        BY <1>7, <2>1, <2>2, <2>3
<1>12. QED
    BY <1>8, <1>9, <1>10, <1>11 DEF SortedInv

\* The version with the memtable's table becomes the current one.
LEMMA InstallMemTableKeepsSorted ==
    ASSUME FilesInv, SortedInv, InstallMemTable
    PROVE  SortedInv'
<1>1. /\ flush # None /\ flush.pc = "install" /\ flush' = None /\ imm' = None /\ phase = "open"
      /\ UNCHANGED <<manifest, compact>>
    BY DEF InstallMemTable, FilesInv, AtRest
<1>2. compact # None => compact.pc = "work"
    BY <1>1 DEF FilesInv, OneEdit
<1>3. PICK e : e = flush.edit
    OBVIOUS
<1>4. /\ e.deleted = {}
      /\ \A l \in Level : \A f \in e.added[l] :
            /\ OfTable(f, imm)
            /\ l > 0 => Apart(f, current[l])
            /\ compact # None /\ l = compact.level + 1 => Clear(f, compact)
    BY <1>1, <1>3 DEF SortedInv, Saving
<1>5. PICK w : w = current' /\ w = Applied(current, e)
    BY <1>3 DEF InstallMemTable
<1>6. \A l \in Level : \A g \in w[l] : g \in current[l] \/ g \in e.added[l]
    BY <1>5, AppliedHas
<1>7. \A l \in Level : current[l] \subseteq w[l]
    BY <1>4, <1>5, AppliedHas
<1>8. AllSorted'
    <2>1. \A l \in Level \ {0} : Sorted(manifest.files[l]) /\ Sorted(current[l])
        BY DEF SortedInv, AllSorted
    <2>2. \A l \in Level \ {0} : Sorted(Applied(current, e)[l])
        BY <1>4, <2>1, MemTableEditSorted
    <2>3. QED
        BY <1>1, <1>5, <2>1, <2>2 DEF AllSorted
<1>9. Building'
    <2>1. SUFFICES ASSUME compact # None PROVE Building'
        BY <1>1 DEF Building
    <2>2. PICK c, m : c = compact /\ m = c.level + 1
        OBVIOUS
    <2>3. /\ c.level \in Level /\ OutputsSorted(c) /\ c.pc = "work" /\ c.moved = {}
          /\ m \in Level => TargetClear(c, current[m]) /\ TargetClear(c, manifest.files[m]) /\ MadeOf(c, current)
        BY <1>2, <2>1, <2>2 DEF SortedInv, Building
    <2>4. m \in Level => TargetClear(c, w[m])
        BY <1>4, <1>6, <2>1, <2>2, <2>3 DEF TargetClear
    <2>5. m \in Level => MadeOf(c, w)
        <3>1. HAVE m \in Level
        <3>2. /\ c.moved = {}
              /\ \E S \in SUBSET (current[c.level] \union current[m]) :
                   /\ Connected(S)
                   /\ \A d \in c.rest : Touched(S, d.key)
                   /\ \A o \in c.outputs : Touched(S, o.smallest.key) /\ Touched(S, o.largest.key)
            BY <2>2, <2>3, <3>1 DEF MadeOf
        <3>3. current[c.level] \subseteq w[c.level] /\ current[m] \subseteq w[m]
            BY <1>7, <2>3, <3>1
        <3>4. \E S \in SUBSET (w[c.level] \union w[m]) :
                 /\ Connected(S)
                 /\ \A d \in c.rest : Touched(S, d.key)
                 /\ \A o \in c.outputs : Touched(S, o.smallest.key) /\ Touched(S, o.largest.key)
            BY <3>2, <3>3
        <3>5. QED
            BY <2>2, <3>2, <3>4 DEF MadeOf
    <2>6. QED
        BY <1>1, <1>5, <2>2, <2>3, <2>4, <2>5 DEF Building
<1>10. Saving' /\ SavedBefore'
    BY <1>1 DEF Saving, SavedBefore
<1>11. QED
    BY <1>8, <1>9, <1>10 DEF SortedInv

\* The edit of a compaction is logged, or not.
LEMMA LogCompactionKeepsSorted ==
    ASSUME FilesInv, SortedInv, LogCompaction
    PROVE  SortedInv'
<1>1. /\ flush = None /\ flush' = None /\ compact # None /\ compact.pc \in {"work", "log"}
      /\ UNCHANGED <<imm, current>>
    BY DEF LogCompaction
<1>2. PICK e, c : e = CompactionEdit /\ c = compact
    OBVIOUS
<1>3. /\ manifest'.files = Applied(manifest.files, e) \/ manifest' = manifest
      /\ compact' = [compact EXCEPT !.pc = "install"] \/ compact' = None
    <2>1. \/ Logged(e) /\ compact' = [compact EXCEPT !.pc = "install"]
          \/ LogFails(e) /\ compact' = None
        BY <1>2 DEF LogCompaction
    <2>2. QED
        BY <2>1 DEF LogFails, Logged
<1>4. /\ c.deleted \subseteq e.deleted
      /\ \A l \in Level : \A g \in e.added[l] : l = c.level + 1 /\ g \in c.outputs \union c.moved
    BY <1>2, CompactionEditAdds
<1>5. /\ c.level \in Level /\ OutputsSorted(c)
      /\ c.level + 1 \in Level =>
            TargetClear(c, current[c.level + 1]) /\ TargetClear(c, manifest.files[c.level + 1])
    BY <1>1, <1>2 DEF SortedInv, Building
<1>6. AllSorted'
    <2>1. \A l \in Level \ {0} : Sorted(manifest.files[l]) /\ Sorted(current[l])
        BY DEF SortedInv, AllSorted
    <2>2. \A l \in Level \ {0} : Sorted(Applied(manifest.files, e)[l])
        BY <1>4, <1>5, <2>1, CompactionEditSorted
    <2>3. PICK files : files = manifest'.files /\ (files = Applied(manifest.files, e) \/ files = manifest.files)
        BY <1>3
    <2>4. \A l \in Level \ {0} : Sorted(files[l])
        BY <2>1, <2>2, <2>3
    <2>5. QED
        BY <1>1, <2>1, <2>3, <2>4 DEF AllSorted
<1>7. compact' # None =>
         /\ compact'.pc = "install" /\ compact'.level = c.level /\ compact'.deleted = c.deleted
         /\ compact'.rest = c.rest /\ compact'.outputs = c.outputs /\ compact'.moved = c.moved
    BY <1>1, <1>2, <1>3 DEF FilesInv, FilesTypeOK
<1>8. Building'
    <2>1. SUFFICES ASSUME compact' # None PROVE Building'
        BY DEF Building
    <2>2. PICK d : d = compact'
        OBVIOUS
    <2>3. OutputsSorted(d) /\ (c.level + 1 \in Level => TargetClear(d, current[c.level + 1]))
        BY <1>5, <1>7, <2>1, <2>2 DEF OutputsSorted, TargetClear, Clear
    <2>4. d.level = c.level /\ d.pc = "install"
        BY <1>7, <2>1, <2>2
    <2>5. QED
        BY <1>1, <1>5, <2>2, <2>3, <2>4 DEF Building
<1>9. Saving' /\ SavedBefore'
    BY <1>1, <1>7 DEF Saving, SavedBefore
<1>10. QED
    BY <1>6, <1>8, <1>9 DEF SortedInv

\* The version of a compaction becomes the current one.
LEMMA InstallCompactionKeepsSorted ==
    ASSUME FilesInv, SortedInv, InstallCompaction
    PROVE  SortedInv'
<1>1. /\ compact # None /\ compact.pc = "install" /\ compact' = None
      /\ UNCHANGED <<imm, manifest, flush>>
    BY DEF InstallCompaction
<1>2. flush = None
    BY <1>1 DEF FilesInv, OneEdit
<1>3. PICK e, c : e = CompactionEdit /\ c = compact
    OBVIOUS
<1>4. current' = Applied(current, e)
    BY <1>3 DEF InstallCompaction
<1>5. /\ c.deleted \subseteq e.deleted
      /\ \A l \in Level : \A g \in e.added[l] : l = c.level + 1 /\ g \in c.outputs \union c.moved
    BY <1>3, CompactionEditAdds
<1>6. OutputsSorted(c) /\ (c.level + 1 \in Level => TargetClear(c, current[c.level + 1]))
    BY <1>1, <1>3 DEF SortedInv, Building
<1>7. AllSorted'
    <2>1. \A l \in Level \ {0} : Sorted(manifest.files[l]) /\ Sorted(current[l])
        BY DEF SortedInv, AllSorted
    <2>2. \A l \in Level \ {0} : Sorted(Applied(current, e)[l])
        BY <1>5, <1>6, <2>1, CompactionEditSorted
    <2>3. QED
        BY <1>1, <1>4, <2>1, <2>2 DEF AllSorted
<1>8. Building' /\ Saving' /\ SavedBefore'
    BY <1>1, <1>2 DEF Building, Saving, SavedBefore
<1>9. QED
    BY <1>7, <1>8 DEF SortedInv

\* The process ends, and comes back with what the manifest says.
LEMMA RestartKeepsSorted ==
    ASSUME FilesInv, SortedInv, Crash \/ Recover \/ Opened
    PROVE  SortedInv'
<1>1. compact' = None /\ flush' = None
    BY DEF Crash, Recover, Opened, FilesInv, AtRest
<1>2. AllSorted'
    <2>1. \A l \in Level \ {0} : Sorted(manifest.files[l]) /\ Sorted(current[l])
        BY DEF SortedInv, AllSorted
    <2>2. CASE Crash
        <3>1. manifest' = manifest /\ current' = NoFiles
            BY <2>2 DEF Crash
        <3>2. \A l \in Level : Sorted(NoFiles[l])
            BY DEF NoFiles, Sorted
        <3>3. QED
            BY <2>1, <3>1, <3>2 DEF AllSorted
    <2>3. CASE Recover
        <3>1. PICK news : current' = [manifest.files EXCEPT ![0] = @ \union news]
            BY <2>3, RecoverGives
        <3>2. manifest' = manifest /\ manifest.files = [l \in Level |-> manifest.files[l]]
            BY <2>3 DEF Recover, FilesInv, FilesTypeOK
        <3>3. \A l \in Level \ {0} : current'[l] = manifest.files[l]
            BY <3>1, <3>2
        <3>4. QED
            BY <2>1, <3>2, <3>3 DEF AllSorted
    <2>4. CASE Opened
        <3>1. current' = current /\ manifest'.files = current
            BY <2>4 DEF Opened
        <3>2. QED
            BY <2>1, <3>1 DEF AllSorted
    <2>5. QED
        BY <2>2, <2>3, <2>4
<1>3. Building' /\ Saving' /\ SavedBefore'
    BY <1>1 DEF Building, Saving, SavedBefore
<1>4. QED
    BY <1>2, <1>3 DEF SortedInv

\* A set of files on disk is finite: they have numbers below the next.
LEMMA KnownAreFinite ==
    ASSUME FilesInv, NEW S, \A f \in S : Known(f)
    PROVE  IsFiniteSet(S)
<1>1. nextFile \in Nat
    BY DEF FilesInv, FilesTypeOK
<1>2. PICK num : num = [f \in S |-> f.number]
    OBVIOUS
<1>3. num \in [S -> 0..nextFile]
    BY <1>1, <1>2 DEF Known
<1>4. \A f, g \in S : f.number = g.number => f = g
    BY DEF Known, Right
<1>5. \A f, g \in S : num[f] = num[g] => f = g
    BY <1>2, <1>4
<1>6. num \in Injection(S, 0..nextFile)
    BY <1>3, <1>5 DEF Injection, IsInjective
<1>7. IsFiniteSet(0..nextFile)
    BY <1>1, FS_Interval
<1>8. QED
    BY <1>6, <1>7, FS_Injection

\* What is picked is a level and a file.
LEMMA PickedArePairs ==
    ASSUME NEW v, NEW p \in Picked(v)
    PROVE  p = <<p[1], p[2]>>
<1>1. \A k, s : \A a \in Searched(v, k, s) : a = <<a[1], a[2]>>
    BY DEF Searched
<1>2. QED
    BY <1>1 DEF Picked, Charged

\* What a compaction is when it begins.
Begun(c, v, l, in) ==
    /\ c.level = l /\ c.outputs = {}
    /\ c.deleted = NumbersAt(l, in[1]) \union NumbersAt(l + 1, in[2])
    /\ c.rest \subseteq MakeInputIterator(in)
    /\ \/ c.moved = {}
       \/ c.moved = in[1] /\ Cardinality(in[1]) = 1 /\ c.pc = "log"

\* A compaction begins with a picked file and what is set up from it.
LEMMA BackgroundCompactionGives ==
    ASSUME BackgroundCompaction
    PROVE  \E l, f, in, v :
             /\ v = current /\ <<l, f>> \in Picked(v) /\ in = SetupOtherInputs(v, l, Inputs0(v, l, f))
             /\ Begun(compact', v, l, in)
<1>2. PICK v : v = current
    OBVIOUS
<1>3. PICK p \in Picked(v) :
        LET l == p[1]
            in == SetupOtherInputs(v, l, Inputs0(v, l, p[2]))
            grand == GrandParents(v, l, in[1] \union in[2])
            entries == MakeInputIterator(in)
            move == /\ Cardinality(in[1]) = 1 /\ in[2] = {}
                    /\ Size(grand) <= MaxGrandParentOverlap
        IN  compact' =
              [pc |-> IF move THEN "log" ELSE "work", version |-> v, level |-> l,
               deleted |-> NumbersAt(l, in[1]) \union NumbersAt(l + 1, in[2]),
               rest |-> IF move THEN {} ELSE
                          {e \in entries : ~Dropped(v, l, entries, SmallestSnapshot, e)},
               outputs |-> {},
               moved |-> IF move THEN in[1] ELSE {},
               stops |-> IF move THEN {} ELSE Stops(entries, grand)]
    BY <1>2, ZenonT(60) DEF BackgroundCompaction
<1>4. PICK in, l, f : in = SetupOtherInputs(v, p[1], Inputs0(v, p[1], p[2])) /\ l = p[1] /\ f = p[2]
    OBVIOUS
<1>5. PICK move, entries, keep, stops :
        /\ move => Cardinality(in[1]) = 1
        /\ entries = MakeInputIterator(in) /\ keep \subseteq entries
        /\ compact' = [pc |-> IF move THEN "log" ELSE "work", version |-> v, level |-> l,
                    deleted |-> NumbersAt(l, in[1]) \union NumbersAt(l + 1, in[2]),
                    rest |-> IF move THEN {} ELSE keep, outputs |-> {},
                    moved |-> IF move THEN in[1] ELSE {}, stops |-> stops]
    BY <1>3, <1>4
<1>6. PICK c : c = compact'
    OBVIOUS
<1>7. /\ c.level = l /\ c.outputs = {}
      /\ c.deleted = NumbersAt(l, in[1]) \union NumbersAt(l + 1, in[2])
      /\ c.rest = IF move THEN {} ELSE keep
      /\ c.moved = IF move THEN in[1] ELSE {}
      /\ c.pc = IF move THEN "log" ELSE "work"
    BY <1>5, <1>6
<1>8. Begun(c, v, l, in)
    BY <1>5, <1>7 DEF Begun
<1>9. p = <<l, f>>
    <2>1. \A q \in Picked(v) : q = <<q[1], q[2]>>
        BY PickedArePairs
    <2>2. QED
        BY <1>4, <2>1
<1>10. QED
    BY <1>2, <1>4, <1>6, <1>8, <1>9

\* A compaction begins: it is to add nothing yet.
LEMMA BackgroundCompactionKeepsSorted ==
    ASSUME KeyAssumption, FilesInv, DataInv, SortedInv, BackgroundCompaction
    PROVE  SortedInv'
<1>1. /\ phase = "open" /\ ~bgError /\ compact = None /\ flush = None /\ imm = None
      /\ UNCHANGED <<imm, current, manifest, flush>>
    BY DEF BackgroundCompaction, CanStart
<1>2. manifest.files = current
    BY <1>1 DEF FilesInv, Installing
<1>3. PICK l, f, in, v, c :
         /\ c = compact' /\ v = current /\ <<l, f>> \in Picked(v)
         /\ in = SetupOtherInputs(v, l, Inputs0(v, l, f)) /\ Begun(c, v, l, in)
    BY BackgroundCompactionGives
<1>4. l \in Level /\ f \in v[l]
    BY <1>3, PickedIsThere
<1>5. l \in Nat
    BY <1>4, LevelAssumption DEF Level
<1>6. in[1] \subseteq v[l]
    BY <1>3, <1>4, InputsAreThere
<1>7. \A m \in Level : \A g \in v[m] : Known(g) /\ Spans(g)
    <2>1. \A m \in Level : \A g \in v[m] : Known(g)
        BY <1>3 DEF FilesInv, AllKnown, Held, FilesOf
    <2>2. QED
        BY <2>1, RightSpans DEF Known
<1>8. /\ c.level = l /\ c.outputs = {}
      /\ c.deleted = NumbersAt(l, in[1]) \union NumbersAt(l + 1, in[2])
      /\ c.rest \subseteq MakeInputIterator(in)
      /\ \/ c.moved = {}
         \/ c.moved = in[1] /\ Cardinality(in[1]) = 1 /\ c.pc = "log"
    BY <1>3 DEF Begun
<1>9. OutputsSorted(c)
    <2>1. ASSUME c.moved = in[1], Cardinality(in[1]) = 1 PROVE \A o, p \in c.moved : o = p
        <3>1. IsFiniteSet(in[1])
            BY <1>4, <1>6, <1>7, KnownAreFinite
        <3>2. \E x : in[1] = {x}
            BY <2>1, <3>1, FS_Singleton
        <3>3. QED
            BY <2>1, <3>2
    <2>2. QED
        BY <1>8, <2>1 DEF OutputsSorted
<1>10. ASSUME l + 1 \in Level
       PROVE  TargetClear(c, v[l + 1]) /\ (c.pc = "work" => MadeOf(c, v))
    <2>1. \A g \in v[l] \union v[l + 1] : Spans(g) /\ Ranged(g)
        BY <1>4, <1>7, <1>10 DEF Spans
    <2>2. PICK S, T, lo, hi : S = in[1] /\ T = in[2] /\ lo = Lowest(S) /\ hi = Highest(S)
        OBVIOUS
    <2>3. /\ S \subseteq v[l] /\ S # {}
          /\ T = {g \in v[l + 1] : Overlaps(g, lo, hi)} /\ Connected(S \union T)
        <3>1. \A g \in v[l] \union v[l + 1] : Ranged(g)
            BY <2>1
        <3>2. /\ in[1] \subseteq v[l] /\ in[1] # {}
              /\ in[2] = {g \in v[l + 1] : Overlaps(g, Lowest(in[1]), Highest(in[1]))}
              /\ Connected(in[1] \union in[2])
            BY <1>3, <1>4, <1>5, <3>1, InputsConnected
        <3>3. QED
            BY <2>2, <3>2
    <2>4. PICK entries : entries = UNION {Entries(g) : g \in S \union T}
        OBVIOUS
    <2>5. c.rest \subseteq entries
        BY <1>8, <2>2, <2>4 DEF MakeInputIterator
    <2>6. ASSUME NEW g \in v[l + 1], g \notin T
          PROVE  Beside(g, entries) /\ \A x \in S : Disjoint(g, x)
        <3>1. EntriesOK(written)
            BY DEF DataInv, WrittenOK
        <3>2. PICK fs : fs = v[l + 1]
            OBVIOUS
        <3>3. Sorted(fs)
            <4>1. l + 1 # 0
                BY <1>5
            <4>2. QED
                BY <1>3, <1>10, <3>2, <4>1 DEF SortedInv, AllSorted
        <3>4. \A x \in S \union fs : Spans(x)
            BY <2>1, <2>3, <3>2
        <3>5. S # {} /\ g \in fs /\ g \notin T /\ TakesOver(S, T, fs)
            BY <2>2, <2>3, <2>6, <3>2 DEF TakesOver
        <3>6. \A e \in entries : \E x \in S \union T : e \in Entries(x)
            BY <2>4
        <3>7. QED
            BY <3>1, <3>3, <3>4, <3>5, <3>6, LeftIsBeside
    <2>7. TargetClear(c, v[l + 1])
        <3>1. ASSUME NEW g \in v[l + 1], <<l + 1, g.number>> \notin c.deleted
              PROVE  Clear(g, c)
            <4>1. g \notin T
                BY <1>8, <2>2, <3>1 DEF NumbersAt
            <4>2. Beside(g, entries) /\ \A x \in S : Disjoint(g, x)
                BY <2>6, <4>1
            <4>3. Beside(g, c.rest)
                BY <2>5, <4>2 DEF Beside
            <4>4. \A o \in c.outputs \union c.moved : Disjoint(g, o)
                BY <1>8, <2>2, <4>2
            <4>5. QED
                BY <4>3, <4>4 DEF Clear
        <3>2. QED
            BY <1>8, <3>1 DEF TargetClear
    <2>8. ASSUME c.pc = "work" PROVE MadeOf(c, v)
        <3>1. PICK U : U = S \union T /\ U \in SUBSET (v[c.level] \union v[c.level + 1])
            BY <1>8, <2>3
        <3>2. \A d \in c.rest : Touched(U, d.key)
            <4>1. TAKE d \in c.rest
            <4>2. PICK g \in U : d \in Entries(g)
                BY <2>4, <2>5, <3>1
            <4>3. Covers(g, d.key)
                BY <1>8, <2>1, <3>1, <4>2 DEF Spans
            <4>4. QED
                BY <4>3 DEF Touched
        <3>3. Connected(U) /\ c.moved = {} /\ c.outputs = {}
            BY <1>8, <2>3, <2>8, <3>1
        <3>4. QED
            BY <3>1, <3>2, <3>3 DEF MadeOf
    <2>9. QED
        BY <2>7, <2>8
<1>11. Building'
    <2>1. c.level \in Level /\ (c.pc = "work" => c.moved = {})
        BY <1>4, <1>8
    <2>2. c.level + 1 \in Level => TargetClear(c, v[c.level + 1]) /\ (c.pc = "work" => MadeOf(c, v))
        BY <1>8, <1>10
    <2>3. QED
        BY <1>1, <1>2, <1>3, <1>9, <2>1, <2>2 DEF Building
<1>12. AllSorted' /\ Saving' /\ SavedBefore'
    BY <1>1 DEF SortedInv, AllSorted, Saving, SavedBefore
<1>13. QED
    BY <1>11, <1>12 DEF SortedInv

\* An output comes from the front of what is to come.
LEMMA WriteOutputKeepsSorted ==
    ASSUME KeyAssumption, LimitsAssumption, FilesInv, DataInv, SortedInv, WriteOutput
    PROVE  SortedInv'
<1>1. /\ compact # None /\ compact.pc = "work" /\ flush = None /\ compact.rest # {}
      /\ UNCHANGED <<imm, current, manifest, flush>>
    BY DEF WriteOutput, Working
<1>2. PICK out, o, c : out = Output /\ o = Meta(nextFile, out) /\ c = compact
    OBVIOUS
<1>3. \/ compact' = [compact EXCEPT !.rest = @ \ out, !.outputs = @ \union {o}]
      \/ compact' = None
    BY <1>2 DEF WriteOutput
<1>4. compact' # None =>
         /\ compact'.pc = "work" /\ compact'.level = c.level /\ compact'.deleted = c.deleted
         /\ compact'.rest = c.rest \ out /\ compact'.outputs = c.outputs \union {o}
         /\ compact'.moved = c.moved
    BY <1>1, <1>2, <1>3 DEF FilesInv, FilesTypeOK
<1>5. out \subseteq c.rest /\ out # {} /\ \A d \in c.rest \ out : Before(Greatest(out), d)
    BY <1>1, <1>2, OutputIs
<1>6. c.rest \subseteq written
    BY <1>1, <1>2 DEF DataInv, MemoryOK
<1>7. o.smallest \in out /\ o.largest \in out /\ o.largest = Greatest(out)
    <2>1. EntriesOK(written) /\ (\A e \in written : e.key \in Key) /\ out \in SUBSET written
        BY <1>5, <1>6 DEF DataInv, WrittenOK
    <2>2. QED
        BY <1>2, <1>5, <2>1, MetaRanges
<1>8. /\ c.level \in Level /\ OutputsSorted(c) /\ c.moved = {}
      /\ c.level + 1 \in Level =>
            /\ TargetClear(c, current[c.level + 1]) /\ TargetClear(c, manifest.files[c.level + 1])
            /\ MadeOf(c, current)
    BY <1>1, <1>2 DEF SortedInv, Building
<1>9. AllSorted' /\ Saving' /\ SavedBefore'
    <2>1. compact' # None /\ imm' # None => compact # None /\ compact.pc = "work" /\ imm # None
        BY <1>1
    <2>2. QED
        BY <1>1, <2>1 DEF SortedInv, AllSorted, Saving, SavedBefore
<1>10. Building'
    <2>1. SUFFICES ASSUME compact' # None PROVE Building'
        BY DEF Building
    <2>2. PICK d : d = compact'
        OBVIOUS
    <2>3. /\ d.pc = "work" /\ d.level = c.level /\ d.deleted = c.deleted /\ d.rest = c.rest \ out
          /\ d.outputs = c.outputs \union {o} /\ d.moved = {}
        BY <1>4, <1>8, <2>1, <2>2
    <2>4. OutputsSorted(d)
        <3>1. \A p \in c.outputs : Before(p.largest, o.smallest)
            BY <1>5, <1>7, <1>8 DEF OutputsSorted
        <3>2. \A p \in d.outputs, e \in d.rest : Before(p.largest, e)
            BY <1>5, <1>7, <1>8, <2>3 DEF OutputsSorted
        <3>3. \A p, q \in d.outputs \union d.moved : p # q => Disjoint(p, q)
            BY <1>8, <2>3, <3>1 DEF OutputsSorted, Disjoint
        <3>4. QED
            BY <3>2, <3>3 DEF OutputsSorted
    <2>5. ASSUME NEW g, Clear(g, c) PROVE Clear(g, d)
        <3>1. Beside(g, d.rest) /\ Disjoint(g, o)
            BY <1>5, <1>7, <2>3, <2>5 DEF Clear, Beside, Disjoint
        <3>2. QED
            BY <2>3, <2>5, <3>1 DEF Clear
    <2>6. \A fs : TargetClear(c, fs) => TargetClear(d, fs)
        BY <2>3, <2>5 DEF TargetClear
    <2>7. MadeOf(c, current) => MadeOf(d, current)
        BY <1>5, <1>7, <2>3 DEF MadeOf
    <2>8. QED
        BY <1>1, <1>8, <2>2, <2>3, <2>4, <2>6, <2>7 DEF Building
<1>11. QED
    BY <1>9, <1>10 DEF SortedInv

\* There is no file yet.
LEMMA SortedInit ==
    ASSUME Init
    PROVE  SortedInv
<1>1. current = NoFiles /\ manifest.files = NoFiles /\ compact = None /\ flush = None
    BY DEF Init
<1>2. \A l \in Level : Sorted(NoFiles[l])
    BY DEF NoFiles, Sorted
<1>3. QED
    BY <1>1, <1>2 DEF SortedInv, AllSorted, Building, Saving, SavedBefore

\* Every step keeps the levels sorted.
LEMMA SortedStep ==
    ASSUME KeyAssumption, LimitsAssumption, NoneIsNoRecord, FilesInv, DataInv, SortedInv, [Next]_vars
    PROVE  SortedInv'
<1>1. CASE UNCHANGED vars
    <2>1. FilesUnchanged /\ imm' = imm
        BY <1>1 DEF vars, FilesUnchanged
    <2>2. QED
        BY <2>1, CallsKeepSorted
<1>2. CASE \/ \E k \in Key, del \in BOOLEAN : Write(k, del)
           \/ SwitchMemTable \/ StartRead \/ EndRead \/ GetSnapshot \/ ReleaseSnapshot
    <2>1. FilesUnchanged
        BY <1>2 DEF Write, SwitchMemTable, StartRead, EndRead, GetSnapshot, ReleaseSnapshot
    <2>2. imm' = imm \/ (imm = None /\ phase = "open" /\ ~bgError)
        BY <1>2 DEF Write, SwitchMemTable, StartRead, EndRead, GetSnapshot, ReleaseSnapshot
    <2>3. QED
        BY <2>1, <2>2, CallsKeepSorted
<1>3. CASE WriteLevel0Table
    BY <1>3, WriteLevel0TableKeepsSorted
<1>4. CASE LogMemTable
    BY <1>4, LogMemTableKeepsSorted
<1>5. CASE InstallMemTable
    BY <1>5, InstallMemTableKeepsSorted
<1>6. CASE BackgroundCompaction
    BY <1>6, BackgroundCompactionKeepsSorted
<1>7. CASE WriteOutput
    BY <1>7, WriteOutputKeepsSorted
<1>8. CASE LogCompaction
    BY <1>8, LogCompactionKeepsSorted
<1>9. CASE InstallCompaction
    BY <1>9, InstallCompactionKeepsSorted
<1>10. CASE Crash \/ Recover \/ Opened
    BY <1>10, RestartKeepsSorted
<1>11. QED
    BY <1>1, <1>2, <1>3, <1>4, <1>5, <1>6, <1>7, <1>8, <1>9, <1>10 DEF Next

\* At every level but 0 the files are in order and do not overlap, in the current version
\* and in what a restart would find, whatever the memtable is saved beside a compaction,
\* whatever fails and wherever the process ends.  (SameRange: see LevelsAreSorted.)
THEOREM LevelsAlwaysSorted ==
    ASSUME NoneIsNoRecord
    PROVE  Spec => []LevelsAreSorted
<1>1. Init => FilesInv /\ DataInv /\ SortedInv
    BY FilesInit, DataInit, SortedInit
<1>2. FilesInv /\ DataInv /\ SortedInv /\ [Next]_vars => (FilesInv /\ DataInv /\ SortedInv)'
    BY KeyAssumption, LimitsAssumption, FilesStep, DataStep, SortedStep
<1>3. SortedInv => LevelsAreSorted
    BY DEF SortedInv, AllSorted, Sorted, LevelsAreSorted
<1>4. QED
    BY <1>1, <1>2, <1>3, PTL DEF Spec
=============================================================================
