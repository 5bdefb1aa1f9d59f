----------------------------- MODULE MCTxnOverlay -----------------------------
(***************************************************************************)
(* TxnOverlay for TLC: transactions, nodes and values are interchangeable. *)
(***************************************************************************)
EXTENDS TxnOverlay, TLC

Symmetry == Permutations(Txns) \cup Permutations(Nodes) \cup Permutations(Values)
===============================================================================
