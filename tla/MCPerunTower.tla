---------------------------- MODULE MCPerunTower ----------------------------
(* Small instances of PerunTower for TLC. *)
EXTENDS PerunTower, TLC

Leaves == Permutations(Leaf)
=============================================================================
