------------------------------ MODULE LogFormat ------------------------------
(***************************************************************************)
(* The log and manifest files of LevelDB: records cut into fragments that  *)
(* fit the blocks of the file (db/log_writer.cc), and the reader that puts *)
(* them together (db/log_reader.cc) after a write failed in the middle, or *)
(* the machine crashed and kept any prefix of the file.                    *)
(* A file is a sequence of bytes; a byte is the fragment it belongs to and *)
(* its place in it, the first kHeaderSize places being the header.         *)
(***************************************************************************)
EXTENDS Integers, Sequences, FiniteSetsExt, SequencesExt

CONSTANTS
    kBlockSize, kHeaderSize,
    RecordSize,     \* the sizes of records
    MaxRecord,      \* bound: records added
    MaxLogFailure   \* bound: writes that fail

VARIABLES
    file,           \* its bytes
    block_offset_,  \* of the writer
    adding,         \* the AddRecord under way: record, bytes written, bytes left
    added,          \* the records whose AddRecord returned: their size, ok or not
    rd              \* the reader

logVars == <<file, block_offset_, adding, added, rd>>

NoRecord == [record |-> 0, from |-> 0, left |-> 0]
Zero == [fragment |-> NoRecord, at |-> 0]

LogInit ==
    /\ file = <<>> /\ block_offset_ = 0 /\ adding = NoRecord /\ added = <<>>
    /\ rd = [pc |-> "off", pos |-> 0, end |-> 0, eof |-> FALSE,
             in_fragmented_record |-> FALSE, scratch |-> <<>>, out |-> <<>>]

-----------------------------------------------------------------------------
(* The writer *)

AddRecord(size) ==
    /\ rd.pc = "off" /\ adding = NoRecord /\ Len(added) < MaxRecord
    /\ adding' = [record |-> Len(added) + 1, from |-> 0, left |-> size]
    /\ UNCHANGED <<file, block_offset_, added, rd>>

Leftover == kBlockSize - block_offset_

\* (mutant of Trailer: a block is left only when it is full)
TrailerWhenFull == IF Leftover < kHeaderSize - 1 THEN [i \in 1..Leftover |-> Zero] ELSE <<>>

\* The bytes that fill the rest of a block too short for a header.
Trailer == IF Leftover < kHeaderSize THEN [i \in 1..Leftover |-> Zero] ELSE <<>>

\* EmitPhysicalRecord of the next fragment, written whole or failing after n bytes:
\* block_offset_ advances all the same, and AddRecord returns the error.
EmitPhysicalRecord ==
    /\ adding # NoRecord
    /\ LET start == IF Leftover < kHeaderSize THEN 0 ELSE block_offset_
           length == Min({adding.left, kBlockSize - start - kHeaderSize})
           begin == adding.from = 0
           end == adding.left = length
           fragment == [type |-> IF begin THEN IF end THEN "full" ELSE "first"
                                 ELSE IF end THEN "last" ELSE "middle",
                        record |-> adding.record, from |-> adding.from, length |-> length]
           bytes == [i \in 1..kHeaderSize + length |-> [fragment |-> fragment, at |-> i]]
           failed == {i \in DOMAIN added : ~added[i].ok}
           Returned(ok) == /\ added' = Append(added, [size |-> adding.from + adding.left, ok |-> ok])
                           /\ adding' = NoRecord
       IN  /\ block_offset_' = start + kHeaderSize + length
           /\ \/ /\ file' = file \o Trailer \o bytes
                 /\ IF end THEN Returned(TRUE)
                    ELSE /\ adding' = [adding EXCEPT !.from = @ + length, !.left = @ - length]
                         /\ UNCHANGED added
              \/ /\ Cardinality(failed) < MaxLogFailure
                 /\ \E n \in 0..Len(bytes) - 1 : file' = file \o Trailer \o SubSeq(bytes, 1, n)
                 /\ Returned(FALSE)
    /\ UNCHANGED rd

-----------------------------------------------------------------------------
(* The reader of the file a process or a machine left *)

Reopen ==
    /\ rd.pc = "off"
    /\ \E n \in 0..Len(file) : file' = SubSeq(file, 1, n)
    /\ rd' = [rd EXCEPT !.pc = "read"] /\ adding' = NoRecord
    /\ UNCHANGED <<block_offset_, added>>

Left == rd.end - rd.pos
IsAt(i, fragment, at) == file[i] # Zero /\ file[i] = [fragment |-> fragment, at |-> at]

\* The bytes from pos on are a header: its fragment.
Header == file[rd.pos + 1].fragment
IsHeader == \A i \in 1..kHeaderSize : IsAt(rd.pos + i, Header, i)
ChecksumIsRight == \A i \in 1..Header.length :
                       IsAt(rd.pos + kHeaderSize + i, Header, kHeaderSize + i)

\* Too few bytes for a header: the rest is a trailer, the next block is read.
ReadBlock ==
    /\ rd.pc = "read" /\ Left < kHeaderSize /\ ~rd.eof
    /\ LET n == Min({kBlockSize, Len(file) - rd.end})
       IN  rd' = [rd EXCEPT !.pos = rd.end, !.end = @ + n, !.eof = n < kBlockSize]

\* kEof: a record that is not complete is dropped.
AtEof == [rd EXCEPT !.pc = "done", !.scratch = <<>>]

\* kBadRecord: the rest of the buffer is dropped, and the record that was being put together.
BadRecord == [rd EXCEPT !.pos = rd.end, !.in_fragmented_record = FALSE, !.scratch = <<>>]

\* ReadRecord's cases on the type of the fragment. A scratch that is not empty, or a start
\* that is missing, is reported, and reading goes on.
Taken(fragment) ==
    LET next == [rd EXCEPT !.pos = @ + kHeaderSize + fragment.length]
    IN  CASE fragment.type = "full" ->
               [next EXCEPT !.out = Append(@, <<fragment>>), !.scratch = <<>>,
                            !.in_fragmented_record = FALSE]
          [] fragment.type = "first" ->
               [next EXCEPT !.scratch = <<fragment>>, !.in_fragmented_record = TRUE]
          [] fragment.type = "middle" /\ rd.in_fragmented_record ->
               [next EXCEPT !.scratch = Append(@, fragment)]
          [] fragment.type = "last" /\ rd.in_fragmented_record ->
               [next EXCEPT !.out = Append(@, Append(rd.scratch, fragment)), !.scratch = <<>>,
                            !.in_fragmented_record = FALSE]
          [] OTHER -> next

ReadPhysicalRecord ==
    /\ rd.pc = "read"
    /\ IF Left < kHeaderSize THEN rd.eof /\ rd' = AtEof
       ELSE IF ~IsHeader THEN rd' = BadRecord
       ELSE IF kHeaderSize + Header.length > Left THEN rd' = IF rd.eof THEN AtEof ELSE BadRecord
       ELSE IF ~ChecksumIsRight THEN rd' = BadRecord
       ELSE rd' = Taken(Header)

LogNext ==
    \/ \E size \in RecordSize : AddRecord(size)
    \/ EmitPhysicalRecord
    \/ Reopen
    \/ (ReadBlock \/ ReadPhysicalRecord) /\ UNCHANGED <<file, block_offset_, adding, added>>

LogSpec == LogInit /\ [][LogNext]_logVars

-----------------------------------------------------------------------------
\* The fragments are those of one record that was added, whole and in order.
IsRecord(fragments, r) ==
    /\ \A i \in DOMAIN fragments :
         /\ fragments[i].record = r
         /\ fragments[i].from = MapThenSumSet(LAMBDA j : fragments[j].length, 1..i - 1)
    /\ added[r].ok /\ MapThenSumSet(LAMBDA j : fragments[j].length, DOMAIN fragments) = added[r].size

\* All bytes of record r are in the file.
IsWhole(r) ==
    LET bytes == {i \in DOMAIN file : file[i] # Zero /\ file[i].fragment.record = r /\ file[i].at > kHeaderSize}
    IN  Cardinality(bytes) = added[r].size

\* Whatever prefix of the file is left, and whichever write failed in the middle, ReadRecord
\* returns no record that was not added, none mixed of two or cut off, each once and in
\* order; and all of those that are there whole and were added before a write failed.
RecordsAreRead ==
    rd.pc = "done" =>
        LET record == [i \in DOMAIN rd.out |-> rd.out[i][1].record]
        IN  /\ \A i \in DOMAIN rd.out : record[i] \in DOMAIN added /\ IsRecord(rd.out[i], record[i])
            /\ \A i, j \in DOMAIN rd.out : i < j => record[i] < record[j]
            /\ \A r \in DOMAIN added :
                 (\A q \in 1..r : added[q].ok) /\ IsWhole(r) => \E i \in DOMAIN rd.out : record[i] = r
=============================================================================
