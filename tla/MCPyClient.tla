----------------------------- MODULE MCPyClient -----------------------------
(***************************************************************************)
(* PyClient for TLC: a writable database and, on the same file, one opened *)
(* read-only with the adjacency cache.                                     *)
(***************************************************************************)
EXTENDS PyClient, TLC

CONSTANTS t1, t2, d1, d2

ThreadSymmetry == Permutations({t1, t2})

MCOptions ==
  d1 :> [readOnly |-> FALSE, lock |-> TRUE, wal |-> TRUE, cache |-> FALSE]
  @@ d2 :> [readOnly |-> TRUE, lock |-> TRUE, wal |-> FALSE, cache |-> TRUE]

\* The first library, one that cannot be asked for the cache, and the current one.
MCLibraries == {{}, {"open_v2"}, {"open_v2", "open_v3", "open_v4"}}
===============================================================================
