----------------------------- MODULE MCTxnRollback -----------------------------
(***************************************************************************)
(* TxnOverlay with one history variable: the base stores as the last       *)
(* successful commit left them.                                            *)
(***************************************************************************)
EXTENDS TxnOverlay

VARIABLE committed_base

MCInit == Init /\ committed_base = base

MCNext ==
    /\ Next
    /\ committed_base' = IF \E t \in Txns : commitTransaction(t)
                         THEN base' ELSE committed_base

MCSpec == MCInit /\ [][MCNext]_<<vars, committed_base>>

(* docs/13_engine_conformance.md: "A rolled-back or aborted transaction    *)
(* leaves no visible logical changes."  With no transaction open, the      *)
(* stores hold what the successful commits put there.                      *)
RollbackLeavesNothing == Overlaid = {} => base = committed_base
===============================================================================
