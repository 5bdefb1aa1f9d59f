------------------------------ MODULE TxnOverlay ------------------------------
(***************************************************************************)
(* Transactions of an open Database handle (storage/database.zig).         *)
(*                                                                         *)
(* A transaction keeps an overlay of cell states.  A writer stages its     *)
(* writes there; they reach the base stores at commit.  Just before a      *)
(* writer's changes are applied, the states they replace are captured into *)
(* the overlay of every other open transaction, which is what keeps a      *)
(* long-lived reader on the state it began with.                           *)
(*                                                                         *)
(* The C API holds one mutex per handle for the length of each call, so a  *)
(* call is one step here.  A call that fails part-way is a step of its own *)
(* that leaves what the code had done by then.                             *)
(***************************************************************************)
EXTENDS Integers, FiniteSets

CONSTANTS
    Txns,       \* transaction ids (next_txn_id never repeats within a session)
    Nodes,      \* ids of graph elements (node_store.next_id, reserveNextEdgeId)
    Values,     \* label/property sets, vectors, document texts
    Absent,     \* a cell that does not exist, an overlay entry saying so
    NoEntry,    \* no overlay entry for a cell
    NoTxn,      \* active_writer_txn_id = null
    MaxOpen,    \* MAX_TRANSACTIONS
    Kinds,      \* subset of {"state", "vector", "fts"} in use
    Failures    \* where a call may fail: "capture", "log", "apply", "sync", "abort"

ASSUME SentinelsAssumption ==
    /\ Absent \notin Values
    /\ NoEntry \notin Values \cup {Absent}
    /\ NoTxn \notin Txns

ASSUME KindsAssumption == "state" \in Kinds /\ Kinds \subseteq {"state", "vector", "fts"}

VARIABLES
    base,           \* the stores: node_store/edge_store, hnsw_index, fts_index
    issued,         \* ids handed out by the allocators in this session
    status,         \* "unused", "active", "ended", or "orphaned": rolled back with an error
    mode,           \* Transaction.mode
    overlay,        \* txn_overlays: node_states/edge_states, vector_states, fts_docs
    staged,         \* has_staged_writes
    active_writer,  \* active_writer_txn_id
    own             \* history, in no code: what each transaction's own calls wrote

vars == <<base, issued, status, mode, overlay, staged, active_writer, own>>

Cells == Kinds \X Nodes
States == Values \cup {Absent}
Modes == {"read_only", "read_write"}

(* A handle the caller can still use, and the transactions with an overlay. *)
Active == {t \in Txns : status[t] = "active"}
Overlaid == {t \in Txns : status[t] \in {"active", "orphaned"}}

EmptyOverlay == [c \in Cells |-> NoEntry]

TypeOK ==
    /\ base \in [Cells -> States]
    /\ issued \subseteq Nodes
    /\ status \in [Txns -> {"unused", "active", "ended", "orphaned"}]
    /\ mode \in [Txns -> Modes]
    /\ overlay \in [Txns -> [Cells -> States \cup {NoEntry}]]
    /\ staged \in [Txns -> BOOLEAN]
    /\ active_writer \in Txns \cup {NoTxn}
    /\ own \in [Txns -> [Cells -> States \cup {NoEntry}]]

Init ==
    /\ base = [c \in Cells |-> Absent]
    /\ issued = {}
    /\ status = [t \in Txns |-> "unused"]
    /\ mode = [t \in Txns |-> "read_only"]
    /\ overlay = [t \in Txns |-> EmptyOverlay]
    /\ staged = [t \in Txns |-> FALSE]
    /\ active_writer = NoTxn
    /\ own = [t \in Txns |-> EmptyOverlay]

-------------------------------------------------------------------------------
(* Reading: the overlay entry if there is one, else the base store.        *)
Visible(t, c) == IF overlay[t][c] # NoEntry THEN overlay[t][c] ELSE base[c]

Written(t) == {c \in Cells : overlay[t][c] # NoEntry}

(* Mutant of Captured: a cell that did not exist is not captured. *)
CapturedIfExisting(c) == IF base[c] = Absent THEN NoEntry ELSE base[c]

(* What a reader's overlay is given for a cell about to be replaced.  For  *)
(* a document it is always "absent", whatever the index holds.             *)
Captured(c) == IF c[1] = "fts" THEN Absent ELSE base[c]

(* Mutant of CaptureInto: an earlier capture is replaced. *)
CaptureOver(r, C) ==
    [c \in Cells |-> IF c \in C THEN Captured(c) ELSE overlay[r][c]]

(* A capture never replaces an entry the transaction already has.          *)
CaptureInto(r, C) ==
    [c \in Cells |-> IF c \in C /\ overlay[r][c] = NoEntry
                     THEN Captured(c) ELSE overlay[r][c]]

-------------------------------------------------------------------------------
(* Mutant of beginTransaction: a second writer is let in. *)
beginAlongsideWriter(t, m) ==
    /\ status[t] = "unused"
    /\ Cardinality(Overlaid) < MaxOpen
    /\ status' = [status EXCEPT ![t] = "active"]
    /\ mode' = [mode EXCEPT ![t] = m]
    /\ active_writer' = IF m = "read_write" THEN t ELSE active_writer
    /\ UNCHANGED <<base, issued, overlay, staged, own>>

beginTransaction(t, m) ==
    /\ status[t] = "unused"
    /\ m = "read_write" => active_writer = NoTxn
    /\ Cardinality(Overlaid) < MaxOpen
    /\ status' = [status EXCEPT ![t] = "active"]
    /\ mode' = [mode EXCEPT ![t] = m]
    /\ active_writer' = IF m = "read_write" THEN t ELSE active_writer
    /\ UNCHANGED <<base, issued, overlay, staged, own>>

(* The history: t was asked to put w in the cells C, and did not refuse.   *)
RecordOwn(t, C, w) ==
    own' = [own EXCEPT ![t] = [c \in Cells |-> IF c \in C THEN w ELSE @[c]]]

(* Mutant of Stage: the mode is not checked.  A reader then stages next to *)
(* the entries that others' commits captured into its overlay.             *)
StageByReaders(t, C, w) ==
    /\ status[t] = "active"
    /\ overlay' = [overlay EXCEPT ![t] =
                      [c \in Cells |-> IF c \in C THEN w ELSE @[c]]]
    /\ staged' = [staged EXCEPT ![t] = TRUE]
    /\ RecordOwn(t, C, w)
    /\ UNCHANGED <<base, status, mode, active_writer>>

(* The part every write shares: the mode check, staging w in the cells C   *)
(* and marking the overlay dirty.                                          *)
Stage(t, C, w) ==
    /\ status[t] = "active"
    /\ mode[t] = "read_write"
    /\ overlay' = [overlay EXCEPT ![t] =
                      [c \in Cells |-> IF c \in C THEN w ELSE @[c]]]
    /\ staged' = [staged EXCEPT ![t] = TRUE]
    /\ RecordOwn(t, C, w)
    /\ UNCHANGED <<base, status, mode, active_writer>>

createNode(t, n, v) ==
    /\ n \notin issued
    /\ Stage(t, {<<"state", n>>}, v)
    /\ issued' = issued \cup {n}

setProperty(t, n, v) ==
    /\ Visible(t, <<"state", n>>) # Absent
    /\ Stage(t, {<<"state", n>>}, v)
    /\ UNCHANGED issued

setNodeVector(t, n, v) ==
    /\ "vector" \in Kinds
    /\ Visible(t, <<"state", n>>) # Absent
    /\ Stage(t, {<<"vector", n>>}, v)
    /\ UNCHANGED issued

(* The document need not belong to an existing node. *)
ftsIndexDocument(t, n, v) ==
    /\ "fts" \in Kinds
    /\ Stage(t, {<<"fts", n>>}, v)
    /\ UNCHANGED issued

(* Deleting stages the absence of the node and of its vector; the document *)
(* indexed for it is left alone.                                           *)
deleteNode(t, n) ==
    /\ Visible(t, <<"state", n>>) # Absent
    /\ Stage(t, Cells \cap {<<"state", n>>, <<"vector", n>>}, Absent)
    /\ UNCHANGED issued

-------------------------------------------------------------------------------
(* Mutant of Finish: the writer slot is not given back. *)
FinishKeepingSlot(t) ==
    /\ status' = [status EXCEPT ![t] = "ended"]
    /\ staged' = [staged EXCEPT ![t] = FALSE]
    /\ own' = [own EXCEPT ![t] = EmptyOverlay]
    /\ UNCHANGED active_writer

(* The end of a call that succeeded.                                       *)
Finish(t) ==
    /\ status' = [status EXCEPT ![t] = "ended"]
    /\ staged' = [staged EXCEPT ![t] = FALSE]
    /\ own' = [own EXCEPT ![t] = EmptyOverlay]
    /\ active_writer' = IF active_writer = t THEN NoTxn ELSE active_writer

(* Mutant of Applied: cells without an entry are replaced as well. *)
AppliedWhole(t, C) == overlay[t]

Applied(t, C) == [c \in Cells |-> IF c \in C THEN overlay[t][c] ELSE base[c]]

Others(t) == Overlaid \ {t}

(* captureTxnSnapshotsForCommit, run to its end *)
CaptureAll(t) ==
    [u \in Txns |-> IF u \in Others(t) THEN CaptureInto(u, Written(t)) ELSE overlay[u]]

commitTransaction(t) ==
    /\ status[t] = "active"
    /\ overlay' = [(IF staged[t] THEN CaptureAll(t) ELSE overlay) EXCEPT ![t] = EmptyOverlay]
    /\ base' = IF staged[t] THEN Applied(t, Written(t)) ELSE base
    /\ Finish(t)
    /\ UNCHANGED <<issued, mode>>

(* Failed commits.  lattice_commit keeps the handle so that the caller can *)
(* retry or roll back.  Reading a base state fails with some captures      *)
(* made; logging fails with all of them made; applying fails with some     *)
(* cells replaced; appending or syncing the commit record fails with all.  *)
CommitFailsCapturing(t) ==
    /\ "capture" \in Failures
    /\ status[t] = "active" /\ staged[t]
    /\ \E done \in [Others(t) -> SUBSET Written(t)] :
         overlay' = [u \in Txns |-> IF u \in Others(t) THEN CaptureInto(u, done[u])
                                                       ELSE overlay[u]]
    /\ UNCHANGED <<base, issued, status, mode, staged, active_writer, own>>

CommitFailsLogging(t) ==
    /\ "log" \in Failures
    /\ status[t] = "active" /\ staged[t]
    /\ overlay' = CaptureAll(t)
    /\ UNCHANGED <<base, issued, status, mode, staged, active_writer, own>>

CommitFailsApplying(t) ==
    /\ "apply" \in Failures
    /\ status[t] = "active" /\ staged[t]
    /\ overlay' = CaptureAll(t)
    /\ \E C \in SUBSET Written(t) : base' = Applied(t, C)
    /\ UNCHANGED <<issued, status, mode, staged, active_writer, own>>

CommitFailsSyncing(t) ==
    /\ "sync" \in Failures
    /\ status[t] = "active"
    /\ overlay' = IF staged[t] THEN CaptureAll(t) ELSE overlay
    /\ base' = IF staged[t] THEN Applied(t, Written(t)) ELSE base
    /\ UNCHANGED <<issued, status, mode, staged, active_writer, own>>

(* The undo log is empty for a transaction that wrote through its overlay, *)
(* so dropping the overlay is the whole rollback.                          *)
abortTransaction(t) ==
    /\ status[t] = "active"
    /\ overlay' = [overlay EXCEPT ![t] = EmptyOverlay]
    /\ Finish(t)
    /\ UNCHANGED <<base, issued, mode>>

(* The abort record cannot be written or synced: the call returns before   *)
(* it drops the overlay and the writer slot, and lattice_rollback retires  *)
(* the handle all the same.                                                *)
AbortFails(t) ==
    /\ "abort" \in Failures
    /\ status[t] = "active"
    /\ status' = [status EXCEPT ![t] = "orphaned"]
    /\ UNCHANGED <<base, issued, mode, overlay, staged, active_writer, own>>

-------------------------------------------------------------------------------
WriteStep(t) ==
    \/ \E n \in Nodes, v \in Values : createNode(t, n, v)
    \/ \E n \in Nodes, v \in Values : setProperty(t, n, v)
    \/ \E n \in Nodes, v \in Values : setNodeVector(t, n, v)
    \/ \E n \in Nodes, v \in Values : ftsIndexDocument(t, n, v)
    \/ \E n \in Nodes : deleteNode(t, n)

CommitFails(t) ==
    \/ CommitFailsCapturing(t)
    \/ CommitFailsLogging(t)
    \/ CommitFailsApplying(t)
    \/ CommitFailsSyncing(t)

Next ==
    \E t \in Txns :
        \/ \E m \in Modes : beginTransaction(t, m)
        \/ WriteStep(t)
        \/ commitTransaction(t)
        \/ CommitFails(t)
        \/ abortTransaction(t)
        \/ AbortFails(t)

Spec == Init /\ [][Next]_vars

-------------------------------------------------------------------------------
(* Only the transaction in the writer slot holds uncommitted writes, and it *)
(* is a read-write one: two writers never stage against the same base       *)
(* (beginTransaction's TransactionConflict, database.zig:1661).             *)
SingleWriter ==
    \A t \in Overlaid :
        (mode[t] = "read_write" \/ staged[t]) => active_writer = t

(* What a read-write transaction's overlay holds is what its own calls     *)
(* wrote, cell by cell: the captures that commits and failed commits make  *)
(* into every other overlay (captureTxnSnapshotsForCommit) never put       *)
(* another transaction's state where a commit would write it back.         *)
WriterOverlayIsItsWrites ==
    \A t \in Overlaid :
        (mode[t] = "read_write" \/ staged[t]) => overlay[t] = own[t]

(* A cell of the stores changes only to what the transaction in the writer *)
(* slot was itself asked to put there, whether its commit ends or fails    *)
(* half-way; a commit that ends puts all of that there and touches nothing *)
(* else, whatever was captured meanwhile (applyTxnOverlay).                *)
StoresTakeOwnWrites ==
    [][/\ \A c \in Cells : base'[c] # base[c] =>
             /\ active_writer # NoTxn
             /\ own[active_writer][c] # NoEntry
             /\ base'[c] = own[active_writer][c]
       /\ \A t \in Txns : commitTransaction(t) =>
             base' = [c \in Cells |-> IF own[t][c] # NoEntry THEN own[t][c] ELSE base[c]]]_vars

(* The cells whose replaced state is captured as it was. *)
SnapshotCells == {c \in Cells : c[1] # "fts"}

(* Whatever other transactions commit, fail to commit or roll back, a      *)
(* read-only transaction keeps reading the same nodes, edges and vectors   *)
(* for as long as it is open (captureTxnSnapshotsForCommit).               *)
ReaderSnapshot ==
    [][\A t \in Active : mode[t] = "read_only" /\ status'[t] = "active" =>
          \A c \in SnapshotCells : Visible(t, c)' = Visible(t, c)]_vars

(* The same for full-text documents.                                       *)
DocumentSnapshot ==
    [][\A t \in Active : mode[t] = "read_only" /\ status'[t] = "active" =>
          \A c \in Cells \ SnapshotCells : Visible(t, c)' = Visible(t, c)]_vars

(* The writer slot is taken only while its caller still has a handle to    *)
(* end the transaction with; otherwise no later writer can ever begin.     *)
SlotHolderCanEnd ==
    active_writer # NoTxn => status[active_writer] = "active"

(* What a transaction reads, and what it has written, of those cells.      *)
SnapView(t) == [c \in SnapshotCells |-> IF t \in Overlaid THEN Visible(t, c) ELSE Absent]
SnapTouched(t) == IF staged[t] THEN Written(t) \cap SnapshotCells ELSE {}

(* Overlays over shared stores behave as private snapshots over a          *)
(* committed state (module SnapshotStore).                                 *)
Store == INSTANCE SnapshotStore WITH
    Cells <- SnapshotCells,
    db <- [c \in SnapshotCells |-> base[c]],
    open <- Overlaid,
    view <- [t \in Txns |-> SnapView(t)],
    touched <- [t \in Txns |-> SnapTouched(t)]

(* Each step of the engine is a step of SnapshotStore or invisible to it.  *)
SnapshotIsolation == Store!Spec
===============================================================================
