----------------------------- MODULE MCHydraPay -----------------------------
(* Small instances of HydraPay for TLC. *)
EXTENDS HydraPay, TLC

Threads == Permutations(Thread)
=============================================================================
