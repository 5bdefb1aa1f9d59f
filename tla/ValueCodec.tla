----------------------------- MODULE ValueCodec -----------------------------
(***************************************************************************)
(* Python values as native LatticeValues and back.                         *)
(*                                                                         *)
(* A Python value is a record whose field t is its type.  Of a string,     *)
(* bytes or the key of a dict only the length is kept, of a numpy array    *)
(* its shape; a dict is the sequence of its entries.  A native buffer is   *)
(* a pointer, NULL or not, and a length.                                   *)
(***************************************************************************)
EXTENDS Integers, Sequences

CONSTANT IntBits     \* width of a native integer

ASSUME IntBitsAssumption == IntBits \in Nat \ {0}

Invalid == [type |-> "INVALID"]

\* ctypes keeps the low bits of an integer and does not complain.
Wrap(n) == LET half == 2 ^ (IntBits - 1) IN ((n + half) % (2 * half)) - half

Buffer(n)    == [ptr |-> n > 0, len |-> n]
ReadBuffer(b) == IF b.ptr /\ b.len > 0 THEN b.len ELSE 0
-----------------------------------------------------------------------------
\* Keys must be strings; any value that is not of a listed type is refused.
RECURSIVE Encodable(_)
Encodable(v) ==
  CASE v.t = "list" -> \A i \in DOMAIN v.items : Encodable(v.items[i])
    [] v.t = "dict" -> \A i \in DOMAIN v.entries :
                         v.entries[i].key.t = "str" /\ Encodable(v.entries[i].value)
    [] OTHER -> v.t # "other"

\* python_to_value, with an order of its tests.  A bool is an int to isinstance.
RECURSIVE EncodeWith(_, _)
EncodeWith(boolFirst, v) ==
  CASE v.t = "none" -> [type |-> "NULL"]
    [] v.t = "bool" -> IF boolFirst THEN [type |-> "BOOL", bool |-> v.b]
                                    ELSE [type |-> "INT", int |-> IF v.b THEN 1 ELSE 0]
    [] v.t = "int" -> [type |-> "INT", int |-> Wrap(v.n)]
    [] v.t = "float" -> [type |-> "FLOAT", float |-> v.f]
    [] v.t = "str" -> [type |-> "STRING", buf |-> Buffer(v.len)]
    [] v.t = "bytes" -> [type |-> "BYTES", buf |-> Buffer(v.len)]
    [] v.t = "array" -> [type |-> "VECTOR", dims |-> v.shape[1]]
    [] v.t = "list" -> [type |-> "LIST",
                        items |-> [i \in DOMAIN v.items |-> EncodeWith(boolFirst, v.items[i])]]
    [] v.t = "dict" -> [type |-> "MAP",
                        entries |-> [i \in DOMAIN v.entries |->
                          [key   |-> Buffer(v.entries[i].key.len),
                           value |-> EncodeWith(boolFirst, v.entries[i].value)]]]

EncodeIntFirst(v) == IF Encodable(v) THEN EncodeWith(FALSE, v) ELSE Invalid

Encode(v) == IF Encodable(v) THEN EncodeWith(TRUE, v) ELSE Invalid

\* value_to_python.
RECURSIVE Decode(_)
Decode(c) ==
  CASE c.type = "NULL" -> [t |-> "none"]
    [] c.type = "BOOL" -> [t |-> "bool", b |-> c.bool]
    [] c.type = "INT" -> [t |-> "int", n |-> c.int]
    [] c.type = "FLOAT" -> [t |-> "float", f |-> c.float]
    [] c.type = "STRING" -> [t |-> "str", len |-> ReadBuffer(c.buf)]
    [] c.type = "BYTES" -> [t |-> "bytes", len |-> ReadBuffer(c.buf)]
    [] c.type = "VECTOR" -> [t |-> "array", shape |-> <<c.dims>>]
    [] c.type = "LIST" -> [t |-> "list", items |-> [i \in DOMAIN c.items |-> Decode(c.items[i])]]
    [] c.type = "MAP" -> [t |-> "dict", entries |-> [i \in DOMAIN c.entries |->
                            [key   |-> [t |-> "str", len |-> ReadBuffer(c.entries[i].key)],
                             value |-> Decode(c.entries[i].value)]]]
===============================================================================
