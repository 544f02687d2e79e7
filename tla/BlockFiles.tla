------------------------------ MODULE BlockFiles ------------------------------
(***************************************************************************)
(* The blocks on disk: the block files blk?????.dat and the undo files     *)
(* rev?????.dat (block.cpp, blockundo.cpp, disk.cpp), the block index      *)
(* records of IneryBlockIndexDB, written without sync, the best block and  *)
(* the last block file of IneryBlockDBCache, which the flush of the        *)
(* manager writes, and mapBlockIndex, loaded from the records at a start.  *)
(*                                                                         *)
(* Where a block goes and when it is connected is decided outside src/     *)
(* (FindBlockPos, FindUndoPos, AddToBlockIndex, ConnectBlock of main.cpp). *)
(* A file is a set of positions; a record of it is its header and, at the  *)
(* next position, its content.                                             *)
(***************************************************************************)
EXTENDS Integers, SequencesExt, TLC

CONSTANTS
    Hash,           \* the block hashes, integers in the order of their keys
    Genesis,
    Trees,          \* the trees of blocks a behaviour may be about: block -> hash of its parent
    Txs,            \* Txs[h]: the transactions of block h
    MaxFileSize,    \* MAX_BLOCKFILE_SIZE of main.h
    MaxFile,        \* bound on the file numbers
    MaxFailure      \* bound on failed writes, ends of the process in the middle of one, losses of power

VARIABLES
    blk, rev,       \* position -> the block, the undo of the block that is there
    dirty,          \* what has not been committed since it was written: <<"blk" or "rev", position>>
    indexDb,        \* the records put in the index database, in order: [key, value]
    blockDb,        \* [best, last]: best block and last block file in the block database
    blockCache,     \* the same as IneryBlockDBCache shows it
    mapBlockIndex,  \* hash -> IneryBlockIndex
    job,            \* what the thread that holds cs_main is writing
    failures,
    prevBlockHash,  \* the tree this behaviour is about
    lost,           \* history: a loss of power took something that was written
    late            \* history: what was last written outside the initial download

vars == <<blk, rev, dirty, indexDb, blockDb, blockCache, mapBlockIndex, job, failures,
          prevBlockHash, lost, late>>

NoHash == 0
RecordSize == 2

Pos(n, p) == [nFile |-> n, nPos |-> p]
NullPos == Pos(-1, 0)

NoJob == [op |-> "none"]
Stopped == [op |-> "stopped"]

-----------------------------------------------------------------------------
(* Block index records and block file statistics. *)

BlockIndexKey(h) == <<"block", h>>
FileInfoKey(n) == <<"file", n>>

Read(db, key) == db[Max({i \in DOMAIN db : db[i].key = key})].value
Write(key, value) == Append(indexDb, [key |-> key, value |-> value])

NoInfo == [nBlocks |-> 0, nSize |-> 0, nUndoSize |-> 0, nHeightFirst |-> 0, nHeightLast |-> 0]
ReadBlockFileInfo(n) ==
    IF \E i \in DOMAIN indexDb : indexDb[i].key = FileInfoKey(n)
    THEN Read(indexDb, FileInfoKey(n)) ELSE NoInfo

AddBlock(info, height) ==
    [info EXCEPT !.nBlocks = @ + 1,
                 !.nHeightFirst = IF info.nBlocks = 0 THEN height ELSE Min({@, height}),
                 !.nHeightLast = Max({@, height})]

\* An entry that InsertBlockIndex makes for a hash it does not find.
NewIndex == [pprev |-> NoHash, height |-> 0, data |-> FALSE, undo |-> FALSE,
             nFile |-> 0, nDataPos |-> 0, nUndoPos |-> 0]

\* What is left of an entry when it has been written and read: the hash of its parent, the
\* file where a status bit says there is something in it, each position where its bit says so.
DiskIndex(e) ==
    [e EXCEPT !.nFile = IF e.data \/ e.undo THEN @ ELSE 0,
              !.nDataPos = IF e.data THEN @ ELSE 0,
              !.nUndoPos = IF e.undo THEN @ ELSE 0]

GetBlockPos(e) == IF e.data THEN Pos(e.nFile, e.nDataPos) ELSE NullPos
GetUndoPos(e) == IF e.undo THEN Pos(e.nFile, e.nUndoPos) ELSE NullPos

InsertBlockIndex(entries, h) ==
    IF h = NoHash \/ h \in DOMAIN entries THEN entries ELSE (h :> NewIndex) @@ entries

\* (mutant of LoadBlockIndex: the parent is only looked up, and may come later)
LoadBlockIndexFindsParent(entries, h, e) ==
    [InsertBlockIndex(entries, h) EXCEPT
       ![h] = [e EXCEPT !.pprev = IF @ \in DOMAIN entries THEN @ ELSE NoHash]]

LoadBlockIndex(entries, h, e) ==
    [InsertBlockIndex(InsertBlockIndex(entries, h), e.pprev) EXCEPT ![h] = e]

\* In the order of the keys, which has nothing to do with that of the chain.
LoadBlockIndexes(db) ==
    LET recorded == {h \in Hash : \E i \in DOMAIN db : db[i].key = BlockIndexKey(h)}
        load(h, entries) == LoadBlockIndex(entries, h, Read(db, BlockIndexKey(h)))
    IN  FoldRight(load, SetToSortSeq(recorded, >), <<>>)

-----------------------------------------------------------------------------
(* Reading back. *)

\* OpenDiskFile of a null position opens nothing.
ReadAt(file, pos, h) == pos # NullPos /\ pos \in DOMAIN file /\ file[pos] = h

ReadBlockFromDisk(h) ==
    h \in DOMAIN mapBlockIndex /\ ReadAt(blk, GetBlockPos(mapBlockIndex[h]), h)

\* ReadFromDisk: the checksum is over the undo and the hash of the block.
ReadUndoFromDisk(h) == ReadAt(rev, GetUndoPos(mapBlockIndex[h]), h)

\* The chain that ends in the best block, from there to where the parents end.
ActiveChain ==
    LET up[n \in Nat] == IF n = 0 THEN blockCache.best ELSE mapBlockIndex[up[n - 1]].pprev
        ends == CHOOSE n \in 0..Max(Hash) : mapBlockIndex[up[n]].pprev = NoHash
    IN  [n \in 1..ends + 1 |-> up[n - 1]]

-----------------------------------------------------------------------------
(* The Merkle tree of a block's transactions, level by level. *)

MerkleHash(l, r) == <<l, r>>

\* The last of an odd number is paired with itself.
LevelAbove(level) ==
    [i \in 1..(Len(level) + 1) \div 2 |->
       MerkleHash(level[2 * i - 1], level[Min({2 * i, Len(level)})])]

MerkleLevels(vptx) ==
    LET level[k \in Nat] == IF k = 0 THEN vptx ELSE LevelAbove(level[k - 1])
        depth == CHOOSE k \in 0..Len(vptx) : Len(level[k]) = 1
    IN  [k \in 1..depth + 1 |-> level[k - 1]]

BuildMerkleTree(vptx) == Last(MerkleLevels(vptx))[1]

\* index, as in the code, counts from 0; the other of its pair is index ^ 1.
GetMerkleBranch(vptx, index) ==
    LET levels == MerkleLevels(vptx)
        at(k) == index \div 2 ^ (k - 1)
        sibling(k) == IF at(k) % 2 = 0 THEN at(k) + 1 ELSE at(k) - 1
    IN  [k \in 1..Len(levels) - 1 |-> levels[k][Min({sibling(k), Len(levels[k]) - 1}) + 1]]

CheckMerkleBranch(hash, branch, index) ==
    LET step[k \in 0..Len(branch)] ==
          IF k = 0 THEN hash
          ELSE IF (index \div 2 ^ (k - 1)) % 2 = 1 THEN MerkleHash(branch[k], step[k - 1])
               ELSE MerkleHash(step[k - 1], branch[k])
    IN  step[Len(branch)]

-----------------------------------------------------------------------------
(* A node that has the first block. *)

FirstIndex == [NewIndex EXCEPT !.data = TRUE, !.nDataPos = 1]

Init ==
    /\ prevBlockHash \in Trees
    /\ blk = Pos(0, 1) :> Genesis /\ rev = <<>> /\ dirty = {}
    /\ indexDb = <<[key |-> FileInfoKey(0), value |-> [NoInfo EXCEPT !.nBlocks = 1, !.nSize = RecordSize]],
                   [key |-> BlockIndexKey(Genesis), value |-> FirstIndex]>>
    /\ blockDb = [best |-> Genesis, last |-> 0] /\ blockCache = blockDb
    /\ mapBlockIndex = Genesis :> FirstIndex
    /\ job = NoJob /\ failures = 0
    /\ lost = FALSE /\ late = {<<"blk", Genesis>>}

\* FileCommit of the file written to, left out during the initial download.
Commit(kind, pos, h, initialDownload) ==
    /\ dirty' = IF initialDownload THEN dirty \union {<<kind, pos>>}
                ELSE {d \in dirty : d[1] # kind \/ d[2].nFile # pos.nFile}
    /\ late' = IF initialDownload THEN late \ {<<kind, h>>} ELSE late \union {<<kind, h>>}

\* FindBlockPos: room in the first file that has it, from the last one used; the record of
\* the file is written at once, the number of the last file with the caches.
FindBlockPos(h) ==
    /\ job = NoJob
    /\ h \notin DOMAIN mapBlockIndex
    /\ prevBlockHash[h] \in DOMAIN mapBlockIndex /\ mapBlockIndex[prevBlockHash[h]].data
    /\ LET fits == {n \in blockCache.last..MaxFile :
                      ReadBlockFileInfo(n).nSize + RecordSize <= MaxFileSize}
           n == Min(fits)
           info == ReadBlockFileInfo(n)
           height == mapBlockIndex[prevBlockHash[h]].height + 1
       IN  /\ fits # {}
           /\ indexDb' = Write(FileInfoKey(n), [AddBlock(info, height) EXCEPT !.nSize = @ + RecordSize])
           /\ blockCache' = [blockCache EXCEPT !.last = n]
           /\ job' = [op |-> "WriteBlockToDisk", hash |-> h, pos |-> Pos(n, info.nSize)]
    /\ UNCHANGED <<blk, rev, dirty, blockDb, mapBlockIndex, failures, prevBlockHash, lost, late>>

\* pos becomes that of the content, after the header.
WriteBlockToDisk(initialDownload) ==
    /\ job.op = "WriteBlockToDisk"
    /\ LET pos == [job.pos EXCEPT !.nPos = @ + 1]
       IN  /\ blk' = (pos :> job.hash) @@ blk
           /\ Commit("blk", pos, job.hash, initialDownload)
           /\ job' = [job EXCEPT !.op = "AddToBlockIndex", !.pos = pos]
    /\ UNCHANGED <<rev, indexDb, blockDb, blockCache, mapBlockIndex, failures, prevBlockHash, lost>>

\* The entry of a block that is on disk, and its record.
AddToBlockIndex ==
    /\ job.op = "AddToBlockIndex"
    /\ LET h == job.hash
           prev == prevBlockHash[h]
           e == [NewIndex EXCEPT !.pprev = prev, !.height = mapBlockIndex[prev].height + 1,
                                 !.data = TRUE, !.nFile = job.pos.nFile, !.nDataPos = job.pos.nPos]
       IN  /\ mapBlockIndex' = (h :> e) @@ mapBlockIndex
           /\ indexDb' = Write(BlockIndexKey(h), DiskIndex(e))
    /\ job' = NoJob
    /\ UNCHANGED <<blk, rev, dirty, blockDb, blockCache, failures, prevBlockHash, lost, late>>

\* A write of a block or an undo that fails: the space stays taken.
WriteFails ==
    /\ job.op \in {"WriteBlockToDisk", "WriteUndoToDisk"}
    /\ failures < MaxFailure /\ failures' = failures + 1
    /\ job' = NoJob
    /\ UNCHANGED <<blk, rev, dirty, indexDb, blockDb, blockCache, mapBlockIndex,
                   prevBlockHash, lost, late>>

\* A child of the best block is connected; if it was before, its undo is there.
ConnectBlock(h) ==
    /\ job = NoJob
    /\ h \in DOMAIN mapBlockIndex /\ mapBlockIndex[h].pprev = blockCache.best
    /\ ReadBlockFromDisk(h)
    /\ IF mapBlockIndex[h].undo
       THEN /\ blockCache' = [blockCache EXCEPT !.best = h]
            /\ UNCHANGED <<indexDb, job>>
       ELSE LET n == mapBlockIndex[h].nFile
                info == ReadBlockFileInfo(n)
            IN  /\ indexDb' = Write(FileInfoKey(n), [info EXCEPT !.nUndoSize = @ + RecordSize])
                /\ job' = [op |-> "WriteUndoToDisk", hash |-> h, pos |-> Pos(n, info.nUndoSize)]
                /\ UNCHANGED blockCache
    /\ UNCHANGED <<blk, rev, dirty, blockDb, mapBlockIndex, failures, prevBlockHash, lost, late>>

WriteUndoToDisk(initialDownload) ==
    /\ job.op = "WriteUndoToDisk"
    /\ LET pos == [job.pos EXCEPT !.nPos = @ + 1]
       IN  /\ rev' = (pos :> job.hash) @@ rev
           /\ Commit("rev", pos, job.hash, initialDownload)
           /\ job' = [job EXCEPT !.op = "SetBestBlock", !.pos = pos]
    /\ UNCHANGED <<blk, indexDb, blockDb, blockCache, mapBlockIndex, failures, prevBlockHash, lost>>

SetBestBlock ==
    /\ job.op = "SetBestBlock"
    /\ LET h == job.hash
           e == [mapBlockIndex[h] EXCEPT !.undo = TRUE, !.nUndoPos = job.pos.nPos]
       IN  /\ mapBlockIndex' = [mapBlockIndex EXCEPT ![h] = e]
           /\ indexDb' = Write(BlockIndexKey(h), DiskIndex(e))
           /\ blockCache' = [blockCache EXCEPT !.best = h]
    /\ job' = NoJob
    /\ UNCHANGED <<blk, rev, dirty, blockDb, failures, prevBlockHash, lost, late>>

DisconnectBlock ==
    /\ job = NoJob
    /\ blockCache.best # Genesis
    /\ ReadBlockFromDisk(blockCache.best) /\ ReadUndoFromDisk(blockCache.best)
    /\ blockCache' = [blockCache EXCEPT !.best = mapBlockIndex[@].pprev]
    /\ UNCHANGED <<blk, rev, dirty, indexDb, blockDb, mapBlockIndex, job, failures,
                   prevBlockHash, lost, late>>

\* The block database in the flush of the manager, synced.
Flush ==
    /\ job = NoJob
    /\ blockDb' = blockCache
    /\ UNCHANGED <<blk, rev, dirty, indexDb, blockCache, mapBlockIndex, job, failures,
                   prevBlockHash, lost, late>>

\* A start from what is on disk, refused when the best block is not in the index.
Start(db) ==
    /\ mapBlockIndex' = LoadBlockIndexes(db)
    /\ blockCache' = blockDb
    /\ job' = IF blockDb.best \in DOMAIN mapBlockIndex' THEN NoJob ELSE Stopped

\* The process ends; between two blocks this is not bounded.
Restart ==
    /\ IF job.op \in {"none", "stopped"} THEN UNCHANGED failures
       ELSE failures < MaxFailure /\ failures' = failures + 1
    /\ Start(indexDb)
    /\ UNCHANGED <<blk, rev, dirty, indexDb, blockDb, prevBlockHash, lost, late>>

\* The power fails: an end of the unsynced records is gone, and any of the uncommitted
\* writes to files.
PowerLoss(kept, gone) ==
    /\ failures < MaxFailure
    /\ failures' = failures + 1
    /\ indexDb' = SubSeq(indexDb, 1, kept)
    /\ blk' = [p \in {q \in DOMAIN blk : <<"blk", q>> \notin gone} |-> blk[p]]
    /\ rev' = [p \in {q \in DOMAIN rev : <<"rev", q>> \notin gone} |-> rev[p]]
    /\ dirty' = {}
    /\ lost' = (lost \/ kept < Len(indexDb) \/ gone # {})
    /\ Start(indexDb')
    /\ UNCHANGED <<blockDb, prevBlockHash, late>>

Next ==
    \/ \E h \in Hash \ {Genesis} : FindBlockPos(h) \/ ConnectBlock(h)
    \/ \E b \in BOOLEAN : WriteBlockToDisk(b) \/ WriteUndoToDisk(b)
    \/ AddToBlockIndex \/ WriteFails \/ SetBestBlock \/ DisconnectBlock \/ Flush \/ Restart
    \/ \E kept \in 2..Len(indexDb), gone \in SUBSET dirty : PowerLoss(kept, gone)

Spec == Init /\ [][Next]_vars

-----------------------------------------------------------------------------

\* Each transaction of a block is proved to be one of them by its Merkle branch.
TxsAreProved(vptx) ==
    \A i \in DOMAIN vptx :
        CheckMerkleBranch(vptx[i], GetMerkleBranch(vptx, i - 1), i - 1) = BuildMerkleTree(vptx)

\* The active chain is whole: by the parents of the entries it goes from the best block to
\* the first, heights counting down, and each block of it can be read and undone.
ChainIsWhole ==
    /\ Last(ActiveChain) = Genesis
    /\ \A n \in DOMAIN ActiveChain :
         LET h == ActiveChain[n]
         IN  /\ mapBlockIndex[h].height = Len(ActiveChain) - n
             /\ ReadBlockFromDisk(h)
             /\ h # Genesis => ReadUndoFromDisk(h)

\* What the index says is on disk is there, in a file whose record covers it.
IndexIsBacked(h, e) ==
    /\ e.data /\ <<"blk", h>> \in late => ReadBlockFromDisk(h)
    /\ e.undo /\ <<"rev", h>> \in late => ReadUndoFromDisk(h)
    /\ e.data => LET info == ReadBlockFileInfo(e.nFile)
                 IN  /\ e.nDataPos < info.nSize /\ e.undo => e.nUndoPos < info.nUndoSize
                     /\ e.height \in info.nHeightFirst..info.nHeightLast

\* Wherever the process ended, also between the writes of one block, and in whatever order
\* the records of the index are loaded, a node goes on from a whole chain.  When a loss of
\* power took index records, which are never synced, the chain may not be; but what is left
\* of the index names no block or undo written outside the initial download that is not
\* there, and no place that a later block is put in.  A block that is written can be proved
\* from.
BlocksAreFound ==
    /\ job.op = "AddToBlockIndex" => TxsAreProved(Txs[job.hash])
    /\ ~lost => job # Stopped /\ ChainIsWhole
    /\ \A h \in DOMAIN mapBlockIndex : IndexIsBacked(h, mapBlockIndex[h])
=============================================================================
