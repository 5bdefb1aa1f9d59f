---------------------------- MODULE MCGraphStores ----------------------------
(***************************************************************************)
(* GraphStores for TLC.  One node and one edge are enough: no record or    *)
(* index entry concerns two of them.  Ids are reused, and labels are two,  *)
(* so that one can go while the other stays.                               *)
(***************************************************************************)
EXTENDS GraphStores

TwoLabels == {"A", "B"}
===============================================================================
