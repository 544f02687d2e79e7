------------------------------- MODULE MemEnv -------------------------------
(***************************************************************************)
(* The file system a database in memory lives in (helpers/memenv/memenv.cc *)
(* of LevelDB, which leveldbwrapper.cpp takes with fMemory): names, the    *)
(* files they stand for, kept in blocks, and the open files that go on     *)
(* reading what was deleted, replaced or renamed.  The byte at position i  *)
(* of a file is i.                                                         *)
(***************************************************************************)
EXTENDS Integers, Sequences, FiniteSetsExt, SequencesExt

CONSTANTS
    Name,
    kBlockSize,
    MaxFile,     \* bound: files that exist at once
    MaxSize,     \* bound: bytes of a file
    MaxHandle    \* bound: files that are open

VARIABLES
    file_map_,   \* the file of each name there is
    state,       \* the FileStates allocated: references, blocks and size
    handle       \* the open files: kind, file and pos_

memVars == <<file_map_, state, handle>>

FileId == 1..MaxFile
Bytes(from, n) == [i \in 1..n |-> from + i]
Without(f, x) == [y \in DOMAIN f \ {x} |-> f[y]]
With(f, x, y) == [z \in DOMAIN f \union {x} |-> IF z = x THEN y ELSE f[z]]

MemInit == file_map_ = <<>> /\ state = <<>> /\ handle = <<>>

-----------------------------------------------------------------------------
(* FileState *)

Ref(s, f) == [s EXCEPT ![f].refs_ = @ + 1]
Unref(s, f) == IF s[f].refs_ = 1 THEN Without(s, f) ELSE [s EXCEPT ![f].refs_ = @ - 1]

\* Append: the room in the last block first, then new blocks.
Appended(blocks, size, n) ==
    LET room == IF size % kBlockSize = 0 THEN 0 ELSE kBlockSize - (size % kBlockSize)
        first == Min({room, n})
        filled == IF first = 0 THEN blocks
                  ELSE [blocks EXCEPT ![Len(blocks)] = @ \o Bytes(size, first)]
        rest == n - first
        new == (rest + kBlockSize - 1) \div kBlockSize
    IN  filled \o [b \in 1..new |->
                     LET done == (b - 1) * kBlockSize
                     IN  Bytes(size + first + done, Min({kBlockSize, rest - done}))]

\* (mutant of Slice: the following blocks are read from the offset of the first)
SliceKeepsOffset(blocks, offset, n) ==
    LET within == offset % kBlockSize
    IN  [i \in 1..n |-> blocks[(offset + i - 1) \div kBlockSize + 1]
                              [IF within + i <= kBlockSize THEN within + i ELSE 1]]

\* Read of n bytes there are: within a block, or copied block by block.
Slice(blocks, offset, n) ==
    LET first == offset \div kBlockSize + 1
        within == offset % kBlockSize
        last == (offset + n - 1) \div kBlockSize + 1
    IN  IF n = 0 THEN <<>>
        ELSE IF n <= kBlockSize - within THEN SubSeq(blocks[first], within + 1, within + n)
        ELSE SubSeq(FlattenSeq(<<SubSeq(blocks[first], within + 1, kBlockSize)>>
                               \o SubSeq(blocks, first + 1, last)), 1, n)

Available(f, offset, n) == Min({n, state[f].size_ - offset})

-----------------------------------------------------------------------------
(* InMemoryEnv *)

Free(S, T) == Min(S \ T)
Opened(kind, f) == handle' = With(handle, Free(1..MaxHandle, DOMAIN handle), [kind |-> kind, file |-> f, pos_ |-> 0])
MayOpen == Cardinality(DOMAIN handle) < MaxHandle

NewFile(kind, name) ==
    /\ MayOpen /\ name \in DOMAIN file_map_
    /\ Opened(kind, file_map_[name])
    /\ state' = Ref(state, file_map_[name])
    /\ UNCHANGED file_map_

\* An existing file of that name is deleted; who has it open keeps it.
NewWritableFile(name) ==
    /\ MayOpen
    /\ LET kept == IF name \in DOMAIN file_map_ THEN Unref(state, file_map_[name]) ELSE state
       IN  /\ FileId \ DOMAIN kept # {}
           /\ LET f == Free(FileId, DOMAIN kept)
              IN  /\ state' = With(kept, f, [refs_ |-> 2, blocks_ |-> <<>>, size_ |-> 0])
                  /\ file_map_' = With(file_map_, name, f)
                  /\ Opened("writable", f)

DeleteFile(name) ==
    /\ name \in DOMAIN file_map_
    /\ state' = Unref(state, file_map_[name]) /\ file_map_' = Without(file_map_, name)
    /\ UNCHANGED handle

\* The names differ: LevelDB renames temporary files and its log.
RenameFile(src, target) ==
    /\ src \in DOMAIN file_map_ /\ src # target
    /\ state' = IF target \in DOMAIN file_map_ THEN Unref(state, file_map_[target]) ELSE state
    /\ file_map_' = With(Without(file_map_, src), target, file_map_[src])
    /\ UNCHANGED handle

-----------------------------------------------------------------------------
(* The open files *)

AppendTo(h) ==
    /\ handle[h].kind = "writable"
    /\ LET s == state[handle[h].file]
       IN  \E n \in 1..MaxSize - s.size_ :
             state' = [state EXCEPT ![handle[h].file].blocks_ = Appended(@, s.size_, n),
                                    ![handle[h].file].size_ = @ + n]
    /\ UNCHANGED <<file_map_, handle>>

\* Read and Skip of a SequentialFile both move by what there is.
Advance(h) ==
    /\ handle[h].kind = "sequential"
    /\ \E n \in 1..MaxSize :
         handle' = [handle EXCEPT ![h].pos_ = @ + Available(handle[h].file, @, n)]
    /\ UNCHANGED <<file_map_, state>>

Close(h) ==
    /\ state' = Unref(state, handle[h].file)
    /\ handle' = Without(handle, h)
    /\ UNCHANGED file_map_

MemNext ==
    \/ \E name \in Name : \/ NewFile("sequential", name) \/ NewFile("random", name)
                          \/ NewWritableFile(name) \/ DeleteFile(name)
                          \/ \E target \in Name : RenameFile(name, target)
    \/ \E h \in DOMAIN handle : AppendTo(h) \/ Advance(h) \/ Close(h)

MemSpec == MemInit /\ [][MemNext]_memVars

-----------------------------------------------------------------------------
\* A file lives exactly as long as a name or an open file refers to it, whatever is deleted,
\* replaced or renamed under its readers, and every Read of it, in one block or over several,
\* returns the bytes that were appended at that place.
FilesAreKept ==
    /\ \A h \in DOMAIN handle : /\ handle[h].file \in DOMAIN state
                                /\ handle[h].pos_ <= state[handle[h].file].size_
    /\ \A name \in DOMAIN file_map_ : file_map_[name] \in DOMAIN state
    /\ \A f \in DOMAIN state :
         /\ state[f].refs_ = Cardinality({h \in DOMAIN handle : handle[h].file = f})
                             + Cardinality({name \in DOMAIN file_map_ : file_map_[name] = f})
         /\ state[f].refs_ > 0
         /\ \A offset \in 0..state[f].size_ : \A n \in 0..state[f].size_ - offset :
              Slice(state[f].blocks_, offset, n) = Bytes(offset, n)
=============================================================================
