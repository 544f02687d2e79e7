--------------------------- MODULE MCLeveldbParts ---------------------------
(***************************************************************************)
(* The parts of LevelDB that share no state, for TLC: a behaviour is       *)
(* followed in the part chosen at the start, and the variables of the      *)
(* others stay as they began.                                              *)
(***************************************************************************)
EXTENDS SkipList, PosixEnv, Sequences, TLC

CONSTANTS
    r1, r2,       \* readers of tables
    f1, f2,       \* files
    p1, p2,       \* processes
    d1, d2,       \* databases
    None

MCOpener == [p \in {p1, p2} |-> IF p = p1 THEN 1..2 ELSE 1..1]

VARIABLES
    part,
    tables, blocks, last_id, files, reader,                              \* BlockCache
    log, block_offset_, adding, added, rd,                               \* LogFormat
    type, mem, block, sequence_, child, current_, direction, dbi,        \* DBIter
    table,                                                               \* TableFormat
    file_map_, state, handle                                             \* MemEnv

Cache == INSTANCE BlockCache WITH
    Reader <- {r1, r2}, File <- {f1, f2}, BlockSize <- [o \in 1..2 |-> o],
    TableCapacity <- 1, BlockCapacity <- 2, MaxOpen <- 3
Log == INSTANCE LogFormat WITH
    file <- log, kBlockSize <- 6, kHeaderSize <- 2, RecordSize <- {1, 3, 6, 9},
    MaxRecord <- 3, MaxLogFailure <- 1
Iter == INSTANCE DBIter WITH UserKey <- {1, 2}, MaxSequence <- 4
Table == INSTANCE TableFormat WITH
    UserKeys <- {<<0>>, <<0, 1>>, <<1>>, <<1, 2>>, <<3, 3>>}, kMaxByte <- 3, MaxSequence <- 2,
    block_restart_interval <- 2, kFilterBase <- 2, BlockSizes <- {1, 3}, MaxEntry <- 4
Mem == INSTANCE MemEnv WITH
    Name <- {f1, f2}, kBlockSize <- 2, MaxFile <- 3, MaxSize <- 4, MaxHandle <- 2

cacheVars == <<tables, blocks, last_id, files, reader>>
logVars == <<log, block_offset_, adding, added, rd>>
iterVars == <<type, mem, block, sequence_, child, current_, direction, dbi>>
memVars == <<file_map_, state, handle>>
vars == <<part, skipVars, cacheVars, logVars, iterVars, table, memVars, envVars>>

Symmetry == Permutations({f1, f2})

-----------------------------------------------------------------------------

Init ==
    /\ part \in {"list", "cache", "log", "iter", "table", "mem", "posix"}
    /\ SkipInit /\ Cache!CacheInit /\ Log!LogInit /\ Table!TableInit /\ Mem!MemInit
    /\ EnvInit
    /\ IF part = "iter" THEN Iter!IterInit
       ELSE /\ type = <<>> /\ mem = {} /\ block = <<>> /\ sequence_ = 0
            /\ child = None /\ current_ = None /\ direction = None /\ dbi = None

Next ==
    /\ \/ part = "list" /\ SkipNextState
          /\ UNCHANGED <<cacheVars, logVars, iterVars, table, memVars, envVars>>
       \/ part = "cache" /\ Cache!CacheNext
          /\ UNCHANGED <<skipVars, logVars, iterVars, table, memVars, envVars>>
       \/ part = "log" /\ Log!LogNext
          /\ UNCHANGED <<skipVars, cacheVars, iterVars, table, memVars, envVars>>
       \/ part = "iter" /\ Iter!IterNext
          /\ UNCHANGED <<skipVars, cacheVars, logVars, table, memVars, envVars>>
       \/ part = "table" /\ Table!TableNext
          /\ UNCHANGED <<skipVars, cacheVars, logVars, iterVars, memVars, envVars>>
       \/ part = "mem" /\ Mem!MemNext
          /\ UNCHANGED <<skipVars, cacheVars, logVars, iterVars, table, envVars>>
       \/ part = "posix" /\ EnvNext
          /\ UNCHANGED <<skipVars, cacheVars, logVars, iterVars, table, memVars>>
    /\ UNCHANGED part

Spec == Init /\ [][Next]_vars

-----------------------------------------------------------------------------

\* Readers of one table hold what they asked for while others insert, replace and evict.
CachesAreSound == part = "cache" => Cache!CachesAreSound

\* A log is read back: every record, or a prefix of them when a write failed.
RecordsAreRead == part = "log" => Log!RecordsAreRead

\* An iterator shows the view of its snapshot, whichever way it turns.
ShowsTheView == part = "iter" => Iter!ShowsTheView

\* A finished table gives every entry to a seek and a lookup, its filter in between.
TableIsRead == part = "table" => Table!TableIsRead

\* Files of the in-memory environment live as long as they are referred to, and keep their bytes.
FilesAreKept == part = "mem" => Mem!FilesAreKept
=============================================================================
