----------------------------- MODULE MCPyGraph -----------------------------
(***************************************************************************)
(* PyGraph with the codec of ValueCodec, for TLC.  The values are one that *)
(* the order of the codec's tests matters for, a nested one with empty     *)
(* buffers and one that is refused; integers have two bits.                *)
(***************************************************************************)
EXTENDS PyGraph, ValueCodec, TLC

True  == [t |-> "bool", b |-> TRUE]
Str(n) == [t |-> "str", len |-> n]

MCLabels == {<<"A">>, <<"B">>}

MCValues ==
  { True,
    [t |-> "dict", entries |-> <<[key |-> Str(0), value |->
        [t |-> "list", items |-> <<[t |-> "int", n |-> -2], Str(1),
                                   [t |-> "bytes", len |-> 0], [t |-> "none"],
                                   [t |-> "array", shape |-> <<2>>]>>]]>>],
    [t |-> "dict", entries |-> <<[key |-> True, value |-> Str(1)]>>] }
===============================================================================
