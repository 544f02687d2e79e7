----------------------------- MODULE MCDBWrite -----------------------------
(* DBWrite for TLC: threads are interchangeable where no liveness is asked. *)
EXTENDS DBWrite, TLC

Symmetry == Permutations(Thread)
=============================================================================
