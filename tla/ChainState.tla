----------------------------- MODULE ChainState -----------------------------
(***************************************************************************)
(* The chain state as a whole: the database-bound caches of                *)
(* CCacheDBManager, the CCacheWrapper a block is executed in, the undo log *)
(* each of its transactions collects (IneryTxUndoOpLogger), the undo file  *)
(* (IneryBlockUndo), the undo of a block (IneryBlockUndoExecutor) and the  *)
(* flush of the manager, one database after another, with the process      *)
(* ending between any two of them.                                         *)
(*                                                                         *)
(* A cache is what KVCache shows it to be, a nested view: here one value   *)
(* for each database.  The block database holds the best block.  When the  *)
(* operations are called is decided outside src/ (ConnectBlock and         *)
(* DisconnectBlock of main.cpp): a block is executed in a wrapper of its   *)
(* own, each transaction under an op logger, the best block is set when    *)
(* the last logger is gone.                                                *)
(***************************************************************************)
EXTENDS Integers, SequencesExt

CONSTANTS
    FlushOrder,  \* the databases in the order CCacheDBManager::Flush writes them
    BlockDb,     \* the one that holds the best block hash
    Value, Genesis,  \* what a database shows; Genesis at first
    Limits       \* the bounds, of which a behaviour keeps to one: [blocks, txs, writes, flushes],
                 \* on the blocks ever connected, the transactions of a block, the writes of
                 \* a transaction and the flushes of the manager

Db == Range(FlushOrder)

\* Every database is flushed, and once.
ASSUME FlushAssumption == /\ FlushOrder \in Seq(Db) /\ BlockDb \in Db
                          /\ \A i, j \in DOMAIN FlushOrder : FlushOrder[i] = FlushOrder[j] => i = j

NoBlock == 0
Content == [d \in Db |-> IF d = BlockDb THEN NoBlock ELSE Genesis]
NoUndo == [d \in Db |-> <<>>]

VARIABLES
    disk, mgr,   \* what the databases hold, what the manager's caches show
    cw,          \* what the wrapper of the block being executed shows (Content without one)
    phase,       \* "idle", "block" (in the wrapper), "tx" (a logger is alive), "flush"
    tx_undo,     \* the log of the transaction: database -> replaced values in order
    vtxundo,     \* the logs of the block's finished transactions
    undoFile,    \* undoFile[b]: the record WriteToDisk wrote for block b
    chain,       \* the blocks connected, the tip last
    parent,      \* parent[b], from the block index
    used,        \* blocks connected so far
    flushed      \* databases the running Flush has written

\* History, for the properties: the state each block led to, the state each Flush
\* wrote, the Flush each database was last written by, and whether a restart has found
\* databases of different flushes since they were created.
VARIABLES stateAt, written, epoch, mixed

VARIABLE limit

vars == <<limit, disk, mgr, cw, phase, tx_undo, vtxundo, undoFile, chain, parent, used, flushed,
          stateAt, written, epoch, mixed>>

Tip == IF chain = <<>> THEN NoBlock ELSE Last(chain)

Init ==
    /\ limit \in Limits
    /\ disk = Content /\ mgr = Content /\ cw = Content
    /\ phase = "idle"
    /\ tx_undo = NoUndo /\ vtxundo = <<>>
    /\ undoFile = <<>>
    /\ chain = <<>> /\ parent = <<>> /\ used = 0
    /\ flushed = 0
    /\ stateAt = [b \in {NoBlock} |-> Content] /\ written = <<>>
    /\ epoch = [d \in Db |-> 0] /\ mixed = FALSE

-----------------------------------------------------------------------------
(* A block in its wrapper. *)

\* CCacheWrapper(pCdMan): every cache of the wrapper is put on the manager's.
NewWrapper ==
    /\ phase = "idle"
    /\ used < limit.blocks
    /\ phase' = "block"
    /\ cw' = mgr
    /\ UNCHANGED <<disk, mgr, tx_undo, vtxundo, undoFile, chain, parent, used, flushed,
                   stateAt, written, epoch, mixed>>

\* IneryTxUndoOpLogger: the constructor hands its log to every cache, the destructor
\* adds it to the block's undo and takes it away.
NewOpLogger ==
    /\ phase = "block"
    /\ Len(vtxundo) < limit.txs
    /\ phase' = "tx"
    /\ tx_undo' = NoUndo
    /\ UNCHANGED <<disk, mgr, cw, vtxundo, undoFile, chain, parent, used, flushed,
                   stateAt, written, epoch, mixed>>

DeleteOpLogger ==
    /\ phase = "tx"
    /\ phase' = "block"
    /\ vtxundo' = Append(vtxundo, tx_undo)
    /\ tx_undo' = NoUndo
    /\ UNCHANGED <<disk, mgr, cw, undoFile, chain, parent, used, flushed,
                   stateAt, written, epoch, mixed>>

\* A write of the transaction, logged under the prefix of its cache.
SetData(d, v) ==
    /\ phase = "tx"
    /\ FoldFunction(LAMBDA log, n : n + Len(log), 0, tx_undo) < limit.writes
    /\ tx_undo' = [tx_undo EXCEPT ![d] = Append(@, cw[d])]
    /\ cw' = [cw EXCEPT ![d] = v]
    /\ UNCHANGED <<disk, mgr, phase, vtxundo, undoFile, chain, parent, used, flushed,
                   stateAt, written, epoch, mixed>>

\* The block is valid: its undo is written, the wrapper is flushed into the manager.
ConnectBlock ==
    /\ phase = "block"
    /\ vtxundo # <<>>
    /\ LET b == used + 1
           state == [cw EXCEPT ![BlockDb] = b]
       IN  /\ used' = b
           /\ undoFile' = Append(undoFile, vtxundo)
           /\ parent' = Append(parent, Tip)
           /\ chain' = Append(chain, b)
           /\ mgr' = state
           /\ stateAt' = [c \in 0..b |-> IF c = b THEN state ELSE stateAt[c]]
    /\ phase' = "idle" /\ cw' = Content /\ vtxundo' = <<>>
    /\ UNCHANGED <<disk, tx_undo, flushed, written, epoch, mixed>>

\* The block is not valid, perhaps in the middle of a transaction: the wrapper is
\* destroyed, and with it everything the block wrote.
RejectBlock ==
    /\ phase \in {"block", "tx"}
    /\ phase' = "idle" /\ cw' = Content /\ vtxundo' = <<>>
    /\ tx_undo' = NoUndo
    /\ UNCHANGED <<disk, mgr, undoFile, chain, parent, used, flushed,
                   stateAt, written, epoch, mixed>>

\* Execute: the transactions from the last to the first; for each the logs of its
\* databases, each replayed from its end, so that its first entry is what remains.
UndoTx(undo, s) == [d \in Db |-> IF undo[d] = <<>> THEN s[d] ELSE Head(undo[d])]
\* (mutant of Execute: the transactions are undone from the first to the last)
ExecuteForward(block_undo, s) == FoldLeft(LAMBDA acc, undo : UndoTx(undo, acc), s, block_undo)

Execute(block_undo, s) == FoldRight(UndoTx, block_undo, s)

\* The tip is undone in a wrapper, which is then flushed into the manager.
DisconnectBlock ==
    /\ phase = "idle"
    /\ chain # <<>>
    /\ mgr' = [Execute(undoFile[Tip], mgr) EXCEPT ![BlockDb] = parent[Tip]]
    /\ chain' = Front(chain)
    /\ UNCHANGED <<disk, cw, phase, tx_undo, vtxundo, undoFile, parent, used, flushed,
                   stateAt, written, epoch, mixed>>

-----------------------------------------------------------------------------
(* The flush of the manager, the end of the process, the restart. *)

StartFlush ==
    /\ phase = "idle"
    /\ Len(written) < limit.flushes
    /\ phase' = "flush"
    /\ written' = Append(written, mgr)
    /\ UNCHANGED <<disk, mgr, cw, tx_undo, vtxundo, undoFile, chain, parent, used, flushed,
                   stateAt, epoch, mixed>>

\* (mutant of FlushNext: the databases in the opposite order)
FlushNextReversed ==
    /\ phase = "flush"
    /\ LET d == FlushOrder[Len(FlushOrder) - flushed]
       IN  /\ disk' = [disk EXCEPT ![d] = mgr[d]]
           /\ epoch' = [epoch EXCEPT ![d] = Len(written)]
    /\ IF flushed + 1 = Len(FlushOrder)
       THEN phase' = "idle" /\ flushed' = 0
       ELSE phase' = "flush" /\ flushed' = flushed + 1
    /\ UNCHANGED <<mgr, cw, tx_undo, vtxundo, undoFile, chain, parent, used,
                   stateAt, written, mixed>>

\* Flush of the next cache: one synced batch.
FlushNext ==
    /\ phase = "flush"
    /\ LET d == FlushOrder[flushed + 1]
       IN  /\ disk' = [disk EXCEPT ![d] = mgr[d]]
           /\ epoch' = [epoch EXCEPT ![d] = Len(written)]
    /\ IF flushed + 1 = Len(FlushOrder)
       THEN phase' = "idle" /\ flushed' = 0
       ELSE phase' = "flush" /\ flushed' = flushed + 1
    /\ UNCHANGED <<mgr, cw, tx_undo, vtxundo, undoFile, chain, parent, used,
                   stateAt, written, mixed>>

\* The chain that ends in block b, by the parents the block index records.
ChainTo(b) ==
    LET up[c \in 0..used] == IF c = NoBlock THEN <<>> ELSE Append(up[parent[c]], c)
    IN  up[b]

\* The process ends, in the middle of anything, and starts from the databases; the
\* best block read from the block database gives the chain.
Restart ==
    /\ mgr' = disk /\ cw' = Content
    /\ phase' = "idle" /\ flushed' = 0
    /\ tx_undo' = NoUndo /\ vtxundo' = <<>>
    /\ chain' = ChainTo(disk[BlockDb])
    /\ mixed' = (mixed \/ \E d \in Db : epoch[d] # epoch[BlockDb])
    /\ written' = SubSeq(written, 1, Max(Range(epoch)))
    /\ UNCHANGED <<disk, undoFile, parent, used, stateAt, epoch>>

\* The restart with isReindex: every database is wiped and the chain rebuilt.
Reindex ==
    /\ disk' = Content /\ mgr' = Content /\ cw' = Content
    /\ chain' = <<>>
    /\ epoch' = [d \in Db |-> 0]
    /\ written' = <<>>
    /\ mixed' = FALSE
    /\ phase' = "idle" /\ flushed' = 0
    /\ tx_undo' = NoUndo /\ vtxundo' = <<>>
    /\ UNCHANGED <<undoFile, parent, used, stateAt>>

Next ==
    /\ \/ NewWrapper \/ NewOpLogger \/ DeleteOpLogger \/ ConnectBlock \/ RejectBlock
       \/ DisconnectBlock \/ StartFlush \/ FlushNext \/ Restart \/ Reindex
       \/ \E d \in Db \ {BlockDb}, v \in Value : SetData(d, v)
    /\ UNCHANGED limit

Spec == Init /\ [][Next]_vars

-----------------------------------------------------------------------------
\* Whatever was connected, rejected, disconnected and flushed, the manager's caches
\* show exactly the state the tip led to: undoing a block takes every database back
\* to the block before it, over repeated writes within and across transactions.
\* (Unless the node restarted in the middle of a flush, see below.)
StateIsOfTip == phase \in {"idle", "flush"} /\ ~mixed => mgr = stateAt[Tip]

Before(d, e) ==
    \E i, j \in DOMAIN FlushOrder : i < j /\ FlushOrder[i] = d /\ FlushOrder[j] = e

WrittenBy(n) == IF n = 0 THEN Content ELSE written[n]

\* What the end of the process can leave behind: each database holds what one Flush
\* wrote of it, and those written before the block database never a Flush older than
\* the best block it names, those after it never a newer one.  The first crash leaves
\* them one Flush apart at most; nothing detects it at the restart, and a second crash
\* in the next Flush widens it.
FlushInOrder ==
    /\ \A d \in Db : disk[d] = WrittenBy(epoch[d])[d]
    /\ \A d, e \in Db : Before(d, e) => /\ epoch[d] >= epoch[e]
                                        /\ ~mixed => epoch[d] - epoch[e] <= 1
=============================================================================
