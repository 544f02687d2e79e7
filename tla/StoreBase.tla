----------------------------- MODULE StoreBase -----------------------------
(***************************************************************************)
(* What the stores of a CCacheWrapper have in common.  They share no       *)
(* state.  A record appears as what its cache of KVCache shows.            *)
(***************************************************************************)
EXTENDS Integers

CONSTANTS
    RegID,       \* the accounts
    Absent,      \* "no record", the false of GetData
    Word         \* 2^64

ASSUME WordAssumption == Word \in Nat \ {0}

\* A cache whose keys are built from its values is a set of entries, one for a key.
Entry(k, v) == [key |-> k, value |-> v]
EraseData(m, k) == {e \in m : e.key # k}
SetData(m, k, v) == EraseData(m, k) \union {Entry(k, v)}
=============================================================================
