---------------------------- MODULE MCTreePages ----------------------------
(***************************************************************************)
(* TreePages for TLC.  Four keys and leaves of two give splits, merges, a  *)
(* growing and a collapsing root; six keys and leaves of four are needed   *)
(* for a redistribution.                                                   *)
(***************************************************************************)
EXTENDS TreePages

FourKeys == 1..4
SixKeys == 1..6
===============================================================================
