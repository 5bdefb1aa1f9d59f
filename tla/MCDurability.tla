---------------------------- MODULE MCDurability ----------------------------
(***************************************************************************)
(* Durability for TLC: cells of a kind, and values, are interchangeable.   *)
(***************************************************************************)
EXTENDS Durability, TLC

Symmetry == Permutations(Cells \ Unlogged) \cup Permutations(Values)
===============================================================================
