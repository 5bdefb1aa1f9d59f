---------------------------- MODULE SnapshotStore ----------------------------
(***************************************************************************)
(* What LatticeDB promises of a transaction on an open database handle.    *)
(*                                                                         *)
(* A transaction reads from the state that was committed when it began,    *)
(* overlaid with its own writes, until it ends.  A commit installs all of  *)
(* the cells the transaction touched in one step and nothing else; an      *)
(* abort installs none.  At most one open transaction may have writes.     *)
(***************************************************************************)
CONSTANTS
    Txns,       \* transaction identities
    Cells,      \* the addressable pieces of data
    Values,     \* what a cell can hold
    Absent      \* ... or that it does not exist

VARIABLES
    db,         \* the committed state
    open,       \* the transactions that have begun and not ended
    view,       \* what each open transaction reads
    touched     \* the cells each open transaction has written

vars == <<db, open, view, touched>>

Empty == [c \in Cells |-> Absent]

Init ==
    /\ db = Empty
    /\ open = {}
    /\ view = [t \in Txns |-> Empty]
    /\ touched = [t \in Txns |-> {}]

Begin(t) ==
    /\ t \notin open
    /\ open' = open \cup {t}
    /\ view' = [view EXCEPT ![t] = db]
    /\ UNCHANGED <<db, touched>>

(* A write changes what the writer itself reads, and nobody else's view.   *)
(* No other open transaction may already hold writes.                      *)
Write(t) ==
    /\ t \in open
    /\ \A u \in open \ {t} : touched[u] = {}
    /\ view' \in [Txns -> [Cells -> Values \cup {Absent}]]
    /\ \A u \in Txns \ {t} : view'[u] = view[u]
    /\ \E C \in SUBSET Cells :
         /\ \A c \in Cells \ C : view'[t][c] = view[t][c]
         /\ touched' = [touched EXCEPT ![t] = @ \cup C]
    /\ UNCHANGED <<db, open>>

End(t) ==
    /\ t \in open
    /\ open' = open \ {t}
    /\ view' = [view EXCEPT ![t] = Empty]
    /\ touched' = [touched EXCEPT ![t] = {}]

Commit(t) ==
    /\ End(t)
    /\ db' = [c \in Cells |-> IF c \in touched[t] THEN view[t][c] ELSE db[c]]

Abort(t) ==
    /\ End(t)
    /\ UNCHANGED db

Next == \E t \in Txns : Begin(t) \/ Write(t) \/ Commit(t) \/ Abort(t)

Spec == Init /\ [][Next]_vars
=============================================================================
