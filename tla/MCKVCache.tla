----------------------------- MODULE MCKVCache -----------------------------
(***************************************************************************)
(* KVCache and the counter beside it for TLC.  A behaviour keeps to one of *)
(* two bounds: "deep", three caches that hold one key, or "wide", two that *)
(* hold two keys, with one value, and a log of three only under one cache. *)
(***************************************************************************)
EXTENDS CacheSize, TLC

CONSTANTS k1, k2

\* Sizes that let no two wrong sums coincide; the values are of one size.
KeySizes == k1 :> 100 @@ k2 :> 200
ValueSizes == [v \in Data |-> IF v = Empty THEN 1 ELSE 3]
ASSUME SizeAssumption == SizesAreNat

Symmetry == Permutations(Value)

VARIABLE part

Held(k) == ({db[k]} \union {mapData[l][k] : l \in 1..top}) \ {Absent}
Logged == {e.old : e \in Range(opLog)}

Within ==
    IF part = "deep" THEN Held(k2) = {}
    ELSE top <= 2 /\ top + Len(opLog) <= 4
         /\ Cardinality((UNION {Held(k) : k \in Key} \union Logged) \ {Empty}) <= 1

BoundedInit == SizeInit /\ part \in {"deep", "wide"} /\ Within
BoundedNext == SizeNext /\ UNCHANGED part /\ Within'
BoundedSpec == BoundedInit /\ [][BoundedNext]_<<sizeVars, part>>
=============================================================================
