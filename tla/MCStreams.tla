------------------------------ MODULE MCStreams ------------------------------
(***************************************************************************)
(* Streams for TLC; the bounds are in the configurations.                  *)
(***************************************************************************)
EXTENDS Streams
===============================================================================
