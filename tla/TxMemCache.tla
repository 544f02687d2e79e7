----------------------------- MODULE TxMemCache -----------------------------
(***************************************************************************)
(* IneryTxMemCache (persistence/txdb.cpp): which transactions the recent   *)
(* blocks contain, kept in memory only and asked before a transaction is   *)
(* accepted.  A level maps a txid to true (in a block) or to false (its    *)
(* block was disconnected at this level); the root keeps no false entries. *)
(***************************************************************************)
EXTENDS Integers

CONSTANTS
    Tx,          \* the txids
    MaxLevel     \* bound on the caches stacked

\* There is a root cache.
ASSUME TxConstants == MaxLevel \in Nat \ {0}

VARIABLES
    top,         \* the innermost open cache
    txids        \* txids[l][t]: "true", "false", or "none" when it is not in txids

txVars == <<top, txids>>

Level == 1..MaxLevel
Cleared == [t \in Tx |-> "none"]

\* The recursion over pBase ends at the nearest level that has an entry.
HasTx(l, t) ==
    \E i \in 1..l : txids[i][t] = "true" /\ \A j \in (i + 1)..l : txids[j][t] = "none"

TxInit == top = 1 /\ txids = [l \in Level |-> Cleared]

Open == top < MaxLevel /\ top' = top + 1 /\ UNCHANGED txids

Drop == top > 1 /\ top' = top - 1 /\ txids' = [txids EXCEPT ![top] = Cleared]

\* The transactions of a block that is connected.
AddBlockTx(block) ==
    /\ txids' = [txids EXCEPT ![top] = [t \in Tx |-> IF t \in block THEN "true" ELSE @[t]]]
    /\ UNCHANGED top

\* (mutant of RemoveBlockTx: every level erases its own entry)
RemoveBlockTxErases(block) ==
    /\ txids' = [txids EXCEPT ![top] = [t \in Tx |-> IF t \in block THEN "none" ELSE @[t]]]
    /\ UNCHANGED top

\* The root forgets the transactions of a disconnected block, a cache above it has to
\* hide the entries its base may have.
RemoveBlockTx(block) ==
    LET mark == IF top = 1 THEN "none" ELSE "false"
    IN  /\ txids' = [txids EXCEPT ![top] = [t \in Tx |-> IF t \in block THEN mark ELSE @[t]]]
        /\ UNCHANGED top

Clear == txids' = [txids EXCEPT ![top] = Cleared] /\ UNCHANGED top

\* BatchWrite, run by the base on the entries of the cache above it.
BatchWrite(l, t) ==
    IF txids[l + 1][t] = "none" THEN txids[l][t]
    ELSE IF l = 1 /\ txids[l + 1][t] = "false" THEN "none"
    ELSE txids[l + 1][t]

Flush(l) ==
    /\ txids' = [txids EXCEPT ![l - 1] = [t \in Tx |-> BatchWrite(l - 1, t)], ![l] = Cleared]
    /\ UNCHANGED top

\* Nothing of this cache outlives the process.
Restart == top' = 1 /\ txids' = [l \in Level |-> Cleared]

TxNext ==
    \/ Open \/ Drop \/ Clear \/ Restart
    \/ \E block \in SUBSET Tx : AddBlockTx(block) \/ RemoveBlockTx(block)
    \/ \E l \in 2..top : Flush(l)

TxSpec == TxInit /\ [][TxNext]_txVars

-----------------------------------------------------------------------------
TxView == [l \in 1..top |-> [t \in Tx |-> IF HasTx(l, t) THEN "true" ELSE "false"]]
NoTx == [t \in Tx |-> "false"]

Store == INSTANCE KVStore
    WITH Key <- Tx, Value <- {"true"}, Empty <- "false",
         view <- TxView, disk <- NoTx, saved <- 0, savepoint <- NoTx

\* What each operation is in the store.
StepsCorrespond ==
    /\ Open => Store!Begin
    /\ Drop => Store!Abort
    /\ Clear => Store!Reset
    /\ \A block \in SUBSET Tx : /\ AddBlockTx(block) => Store!PutAll(block, "true")
                                /\ RemoveBlockTx(block) => Store!PutAll(block, "false")
    /\ \A l \in 2..top : Flush(l) => Store!Commit(l)
    /\ Restart => Store!Crash

\* HasTx is the membership test of a set of transactions kept with nested
\* transactions: the blocks added and removed in a wrapper are seen there at once, by
\* its base only after Flush, and never when the wrapper is dropped.
TxImplementsStore == Store!Spec /\ [][StepsCorrespond]_txVars
=============================================================================
