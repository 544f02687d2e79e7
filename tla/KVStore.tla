------------------------------ MODULE KVStore ------------------------------
(***************************************************************************)
(* What the cache stack of persistence/dbaccess.h promises its callers: a  *)
(* key-value store with nested transactions.  Level 1 is the store itself, *)
(* each level above it is a transaction opened on the level below.  A      *)
(* transaction sees its own writes over the view it was opened on; it is   *)
(* committed into the level below or dropped.  One savepoint may be set    *)
(* and the writes made since be rolled back.  Level 1 is made durable by   *)
(* Persist, and a crash leaves what was last persisted.                    *)
(*                                                                         *)
(* The module has no caches: no read-through copies, no tombstones, no     *)
(* operation log.  KVCache is the mechanism and implements it.             *)
(***************************************************************************)
EXTENDS Integers

CONSTANTS
    Key,        \* the keys of one cache
    Value,      \* the values that are not empty
    Empty,      \* "no value": what a read of an absent or erased key gives
    MaxLevel    \* number of levels that can be open at once

VARIABLES
    top,        \* the innermost open level
    view,       \* view[l][k]: what a read of k at level l gives
    disk,       \* what a restart would find
    saved,      \* the level the savepoint belongs to, 0 when there is none
    savepoint   \* the view the savepoint was set on

vars == <<top, view, disk, saved, savepoint>>

Content == [Key -> Value \union {Empty}]

TypeOK ==
    /\ top \in 1..MaxLevel
    /\ view \in [1..top -> Content]
    /\ disk \in Content
    /\ saved \in 0..top
    /\ savepoint \in Content

Init ==
    /\ top = 1
    /\ disk \in Content
    /\ view = [l \in 1..1 |-> disk]
    /\ saved = 0
    /\ savepoint = [k \in Key |-> Empty]

Begin ==
    /\ top < MaxLevel
    /\ top' = top + 1
    /\ view' = [l \in 1..(top + 1) |-> IF l = top + 1 THEN view[top] ELSE view[l]]
    /\ UNCHANGED <<disk, saved, savepoint>>

Abort ==
    /\ top > 1
    /\ saved # top
    /\ top' = top - 1
    /\ view' = [l \in 1..(top - 1) |-> view[l]]
    /\ UNCHANGED <<disk, saved, savepoint>>

\* What was written at the innermost level is dropped, the level stays open.
Reset ==
    /\ saved # top
    /\ view' = [view EXCEPT ![top] = IF top = 1 THEN disk ELSE view[top - 1]]
    /\ UNCHANGED <<top, disk, saved, savepoint>>

Put(k, v) ==
    /\ view' = [view EXCEPT ![top][k] = v]
    /\ UNCHANGED <<top, disk, saved, savepoint>>

\* Several keys written at once with the same value.
PutAll(K, v) ==
    /\ view' = [view EXCEPT ![top] = [k \in Key |-> IF k \in K THEN v ELSE @[k]]]
    /\ UNCHANGED <<top, disk, saved, savepoint>>

Commit(l) ==
    /\ saved # l - 1
    /\ view' = [view EXCEPT ![l - 1] = view[l]]
    /\ UNCHANGED <<top, disk, saved, savepoint>>

Persist ==
    /\ disk' = view[1]
    /\ UNCHANGED <<top, view, saved, savepoint>>

Save ==
    /\ saved = 0
    /\ saved' = top
    /\ savepoint' = view[top]
    /\ UNCHANGED <<top, view, disk>>

Release ==
    /\ saved # 0
    /\ saved' = 0
    /\ savepoint' = [k \in Key |-> Empty]
    /\ UNCHANGED <<top, view, disk>>

Rollback ==
    /\ saved = top
    /\ view' = [view EXCEPT ![top] = savepoint]
    /\ saved' = 0
    /\ savepoint' = [k \in Key |-> Empty]
    /\ UNCHANGED <<top, disk>>

Crash ==
    /\ top' = 1
    /\ view' = [l \in 1..1 |-> disk]
    /\ saved' = 0
    /\ savepoint' = [k \in Key |-> Empty]
    /\ UNCHANGED disk

Next ==
    \/ Begin \/ Abort \/ Reset \/ Persist \/ Save \/ Release \/ Rollback \/ Crash
    \/ \E k \in Key, v \in Value \union {Empty} : Put(k, v)
    \/ \E K \in SUBSET Key, v \in Value \union {Empty} : PutAll(K, v)
    \/ \E l \in 2..top : Commit(l)

Spec == Init /\ [][Next]_vars
=============================================================================
