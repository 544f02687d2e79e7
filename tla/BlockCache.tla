----------------------------- MODULE BlockCache -----------------------------
(***************************************************************************)
(* The two caches of LevelDB, of open tables (db/table_cache.cc) and of    *)
(* blocks (table/table.cc), both an LRUCache (util/cache.cc) of one shard, *)
(* under readers that look up, read the file without any lock, insert and  *)
(* release, while the background thread evicts the tables of files it      *)
(* removes.                                                                *)
(***************************************************************************)
EXTENDS Integers, Sequences, SequencesExt, FiniteSetsExt

CONSTANTS
    Reader, File,
    BlockSize,       \* BlockSize[o]: the charge of the block at offset o, a function
    TableCapacity, BlockCapacity,
    MaxOpen,         \* bound: tables opened
    None

VARIABLES
    tables,   \* the cache of open tables, by file
    blocks,   \* the cache of blocks, by <<cache_id, offset>>
    last_id,  \* last_id_ of the block cache
    files,    \* the files there are
    reader    \* what each reader does, and the handles it holds

cacheVars == <<tables, blocks, last_id, files, reader>>

Offset == DOMAIN BlockSize
Handle == 1..Cardinality(Reader) + TableCapacity + BlockCapacity + 1

-----------------------------------------------------------------------------
(* LRUCache: lru_ from the oldest to the newest, table_ by key, and the    *)
(* entries that are allocated                                              *)

NewCache(capacity) ==
    [capacity |-> capacity, usage |-> 0, lru |-> <<>>, table |-> <<>>, entry |-> <<>>]

Without(f, S) == [x \in DOMAIN f \ S |-> f[x]]
With(f, x, y) == [z \in DOMAIN f \union {x} |-> IF z = x THEN y ELSE f[z]]
Free(c) == Min(Handle \ DOMAIN c.entry)

\* Unref of every entry of H: one with no other reference is freed.
Unref(c, H) ==
    LET freed == {h \in H : c.entry[h].refs = 1}
    IN  [c EXCEPT !.usage = @ - MapThenSumSet(LAMBDA h : c.entry[h].charge, freed),
                  !.entry = [h \in DOMAIN c.entry \ freed |->
                               IF h \in H THEN [c.entry[h] EXCEPT !.refs = @ - 1] ELSE c.entry[h]]]

\* The entries of H leave the list and the table.
Dropped(c, H) ==
    Unref([c EXCEPT !.lru = SelectSeq(@, LAMBDA h : h \notin H),
                    !.table = Without(@, {c.entry[h].key : h \in H})], H)

Lookup(c, k) ==
    LET h == c.table[k]
    IN  [c EXCEPT !.entry[h].refs = @ + 1, !.lru = Append(Remove(@, h), h)]

\* (mutant of Replaced: the entry the key had stays in the list)
ReplacedKeepsOld(c, k) == IF k \in DOMAIN c.table THEN Unref(c, {c.table[k]}) ELSE c

\* The entry another reader may have inserted for the key meanwhile.
Replaced(c, k) == IF k \in DOMAIN c.table THEN Dropped(c, {c.table[k]}) ELSE c

\* The oldest entries are dropped until usage_ fits or the list is empty: one that is in
\* use leaves the list too, and its charge stays.
Fitted(c) ==
    LET oldest(n) == {c.lru[i] : i \in 1..n}
        enough == {n \in 0..Len(c.lru) : Dropped(c, oldest(n)).usage <= c.capacity}
    IN  Dropped(c, oldest(Min(enough \union {Len(c.lru)})))

Insert(c, k, value, charge) ==
    LET h == Free(c)
        old == Replaced([c EXCEPT !.usage = @ + charge], k)
        e == [key |-> k, value |-> value, charge |-> charge, refs |-> 2]
    IN  Fitted([old EXCEPT !.entry = With(@, h, e), !.lru = Append(@, h), !.table = With(@, k, h)])

Erase(c, k) == IF k \in DOMAIN c.table THEN Dropped(c, {c.table[k]}) ELSE c

-----------------------------------------------------------------------------
Idle == [pc |-> "idle", file |-> None, table |-> None, id |-> 0, offset |-> 0, block |-> None]

CacheInit ==
    /\ tables = NewCache(TableCapacity) /\ blocks = NewCache(BlockCapacity)
    /\ last_id = 0 /\ files = File
    /\ reader = [r \in Reader |-> Idle]

(* TableCache::FindTable *)
FindTable(r) ==
    /\ reader[r].pc = "idle"
    /\ \E f \in files :
         IF f \in DOMAIN tables.table
         THEN LET h == tables.table[f]
              IN  /\ tables' = Lookup(tables, f)
                  /\ reader' = [reader EXCEPT ![r] = [@ EXCEPT !.pc = "open", !.file = f, !.table = h,
                                                       !.id = tables.entry[h].value.id]]
         ELSE /\ reader' = [reader EXCEPT ![r].pc = "opening", ![r].file = f]
              /\ UNCHANGED tables
    /\ UNCHANGED <<blocks, last_id, files>>

\* Table::Open succeeds and takes an id of the block cache; a filter that cannot be
\* read does not fail it.
OpenTable(r) ==
    /\ reader[r].pc = "opening" /\ last_id < MaxOpen
    /\ last_id' = last_id + 1
    /\ reader' = [reader EXCEPT ![r].pc = "opened", ![r].id = last_id']
    /\ UNCHANGED <<tables, blocks, files>>

\* Table::Open, or the file, fails: nothing is cached.
OpenFails(r) ==
    /\ reader[r].pc = "opening"
    /\ reader' = [reader EXCEPT ![r] = Idle]
    /\ UNCHANGED <<tables, blocks, last_id, files>>

InsertTable(r) ==
    /\ reader[r].pc = "opened"
    /\ tables' = Insert(tables, reader[r].file, [file |-> reader[r].file, id |-> reader[r].id], 1)
    /\ reader' = [reader EXCEPT ![r].pc = "open", ![r].table = Free(tables)]
    /\ UNCHANGED <<blocks, last_id, files>>

(* Table::BlockReader *)
LookupBlock(r) ==
    /\ reader[r].pc = "open"
    /\ \E o \in Offset :
         LET k == <<reader[r].id, o>>
         IN  IF k \in DOMAIN blocks.table
             THEN /\ blocks' = Lookup(blocks, k)
                  /\ reader' = [reader EXCEPT ![r].pc = "block", ![r].offset = o,
                                              ![r].block = blocks.table[k]]
             ELSE /\ reader' = [reader EXCEPT ![r].pc = "reading", ![r].offset = o]
                  /\ UNCHANGED blocks
    /\ UNCHANGED <<tables, last_id, files>>

\* ReadBlock of the file the table has open; it is cached where fill_cache says so.
InsertBlock(r) ==
    /\ reader[r].pc = "reading"
    /\ LET rd == reader[r]
           value == [file |-> tables.entry[rd.table].value.file, offset |-> rd.offset]
       IN  \/ /\ blocks' = Insert(blocks, <<rd.id, rd.offset>>, value, BlockSize[rd.offset])
              /\ reader' = [reader EXCEPT ![r].pc = "block", ![r].block = Free(blocks)]
           \/ /\ reader' = [reader EXCEPT ![r].pc = "block"]
              /\ UNCHANGED blocks
    /\ UNCHANGED <<tables, last_id, files>>

\* A read that fails leaves the table open.
ReadFails(r) ==
    /\ reader[r].pc = "reading"
    /\ reader' = [reader EXCEPT ![r].pc = "open", ![r].offset = 0]
    /\ UNCHANGED <<tables, blocks, last_id, files>>

(* The cleanup of the iterators: ReleaseBlock, then UnrefEntry *)
ReleaseBlock(r) ==
    /\ reader[r].pc = "block"
    /\ blocks' = IF reader[r].block = None THEN blocks ELSE Unref(blocks, {reader[r].block})
    /\ reader' = [reader EXCEPT ![r].pc = "open", ![r].offset = 0, ![r].block = None]
    /\ UNCHANGED <<tables, last_id, files>>

UnrefEntry(r) ==
    /\ reader[r].pc = "open"
    /\ tables' = Unref(tables, {reader[r].table})
    /\ reader' = [reader EXCEPT ![r] = Idle]
    /\ UNCHANGED <<blocks, last_id, files>>

\* DeleteObsoleteFiles removes a file no version of a reader has.
Evict(f) ==
    /\ f \in files /\ \A r \in Reader : reader[r].file # f
    /\ files' = files \ {f}
    /\ tables' = Erase(tables, f)
    /\ UNCHANGED <<blocks, last_id, reader>>

CacheNext ==
    \/ \E r \in Reader : \/ FindTable(r) \/ OpenTable(r) \/ OpenFails(r) \/ InsertTable(r)
                         \/ LookupBlock(r) \/ InsertBlock(r) \/ ReadFails(r)
                         \/ ReleaseBlock(r) \/ UnrefEntry(r)
    \/ \E f \in File : Evict(f)

CacheSpec == CacheInit /\ [][CacheNext]_cacheVars

-----------------------------------------------------------------------------
\* What is counted is what there is: an entry is allocated exactly as long as it is
\* cached or held, and above its capacity a cache keeps only what is held.
Counted(c, held(_)) ==
    /\ \A h \in DOMAIN c.entry :
         /\ c.entry[h].refs > 0
         /\ c.entry[h].refs = (IF h \in ToSet(c.lru) THEN 1 ELSE 0) + Cardinality(held(h))
    /\ c.usage = MapThenSumSet(LAMBDA h : c.entry[h].charge, DOMAIN c.entry)
    /\ c.usage > c.capacity => c.lru = <<>>
    /\ ToSet(c.lru) = {c.table[k] : k \in DOMAIN c.table}

\* Whatever other readers insert, replace and evict between a reader's steps, the table and
\* the block it holds stay allocated and are those it asked for, no removed file stays open,
\* and the counts of util/cache.cc are exact.
CachesAreSound ==
    /\ Counted(tables, LAMBDA h : {r \in Reader : reader[r].table = h})
    /\ Counted(blocks, LAMBDA h : {r \in Reader : reader[r].block = h})
    /\ \A r \in Reader :
         LET rd == reader[r]
         IN  /\ rd.table # None => /\ rd.table \in DOMAIN tables.entry
                                   /\ tables.entry[rd.table].value = [file |-> rd.file, id |-> rd.id]
             /\ rd.block # None => /\ rd.block \in DOMAIN blocks.entry
                                   /\ blocks.entry[rd.block].value = [file |-> rd.file, offset |-> rd.offset]
    /\ \A h \in DOMAIN tables.entry : tables.entry[h].value.file \in files
=============================================================================
