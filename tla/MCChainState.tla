---------------------------- MODULE MCChainState ----------------------------
(***************************************************************************)
(* ChainState and BlockFiles for TLC.  The first has the blocks' states    *)
(* and undo logs as values, the second has where blocks and undos are on   *)
(* disk: they share no state, and a behaviour is followed in the one       *)
(* chosen at the start.                                                    *)
(***************************************************************************)
EXTENDS ChainState, TLC

VARIABLES
    part,
    blk, rev, dirty, indexDb, blockDb, blockCache, mapBlockIndex, job, failures,
    prevBlockHash, lost, late                                              \* BlockFiles

\* One database flushed before the block database, one after it.
MCFlushOrder == <<"account", "block", "pricefeed">>

Bounds(b, t, w, f) == [blocks |-> b, txs |-> t, writes |-> w, flushes |-> f]

\* Blocks of several transactions with repeated writes, the caches never flushed; three
\* blocks of one write each and two flushes, the process ending between any two databases.
MCLimits == {Bounds(2, 2, 2, 0), Bounds(3, 1, 1, 2)}

\* Three blocks, one chain whose last has the least key and one fork; files of two blocks,
\* one of the four places for a block whose write was given up; odd numbers of transactions.
MCTrees == {1 :> 3 @@ 3 :> 2, 1 :> 2 @@ 3 :> 2}
MCTxs == <<<<11>>, <<21, 22, 23>>, <<31, 32, 33, 34, 35>>>>

Files == INSTANCE BlockFiles WITH
    Hash <- 1..3, Genesis <- 2, Trees <- MCTrees, Txs <- MCTxs,
    MaxFileSize <- 4, MaxFile <- 1, MaxFailure <- 1

fileVars == <<blk, rev, dirty, indexDb, blockDb, blockCache, mapBlockIndex, job, failures,
              prevBlockHash, lost, late>>

MCInit ==
    /\ part \in {"state", "files"}
    /\ Init /\ Files!Init
    /\ IF part = "files" THEN limit = Bounds(2, 2, 2, 0) ELSE prevBlockHash[1] = 2

MCNext ==
    /\ \/ part = "state" /\ Next /\ UNCHANGED fileVars
       \/ part = "files" /\ Files!Next /\ UNCHANGED vars
    /\ UNCHANGED part

MCSpec == MCInit /\ [][MCNext]_<<part, vars, fileVars>>

\* From wherever the process ended, a node goes on from a whole chain; what the index names
\* is on disk.
BlocksAreFound == part = "files" => Files!BlocksAreFound
=============================================================================
