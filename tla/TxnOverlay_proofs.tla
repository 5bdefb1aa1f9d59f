-------------------------- MODULE TxnOverlay_proofs --------------------------
(***************************************************************************)
(* Theorems about TxnOverlay, for every choice of the constants.           *)
(***************************************************************************)
EXTENDS TxnOverlay, TLAPS

(* The inductive invariant: the slot is held by a transaction that still   *)
(* has an overlay, only its holder is a writer, and the overlay of a       *)
(* transaction that has ended or not begun is empty.  A transaction that   *)
(* has staged nothing has written nothing.                                 *)
SlotConsistent ==
    /\ active_writer # NoTxn => active_writer \in Overlaid
    /\ \A t \in Txns : staged[t] => t \in Overlaid /\ mode[t] = "read_write"
    /\ \A t \in Txns \ Overlaid : overlay[t] = EmptyOverlay
    /\ \A t \in Txns : ~staged[t] => own[t] = EmptyOverlay

Inv == TypeOK /\ SlotConsistent /\ SingleWriter /\ WriterOverlayIsItsWrites

-----------------------------------------------------------------------------
(* Facts about captures and applied writes *)

LEMMA CellTypes ==
    ASSUME TypeOK, NEW t \in Txns, NEW C
    PROVE  /\ CaptureInto(t, C) \in [Cells -> States \cup {NoEntry}]
           /\ (\A c \in C \cap Cells : overlay[t][c] # NoEntry) =>
                  Applied(t, C) \in [Cells -> States]
  BY DEF TypeOK, CaptureInto, Captured, Applied, States

LEMMA CaptureAllType ==
    ASSUME TypeOK, NEW t \in Txns
    PROVE  CaptureAll(t) \in [Txns -> [Cells -> States \cup {NoEntry}]]
  BY CellTypes DEF CaptureAll, TypeOK

-----------------------------------------------------------------------------
(* Every variable keeps its type whatever calls are made and fail.         *)
THEOREM TypeCorrect == Spec => []TypeOK
  <1>1. Init => TypeOK
    BY DEF Init, TypeOK, States, Modes, EmptyOverlay
  <1>2. TypeOK /\ [Next]_vars => TypeOK'
    <2> SUFFICES ASSUME TypeOK, [Next]_vars PROVE TypeOK'
      OBVIOUS
    <2> USE DEF TypeOK
    <2>1. ASSUME NEW t \in Txns, NEW m \in Modes, beginTransaction(t, m)
          PROVE TypeOK'
      BY <2>1 DEF beginTransaction
    <2>2. ASSUME NEW t \in Txns, WriteStep(t) PROVE TypeOK'
      <3>1. ASSUME NEW C, NEW w \in States, Stage(t, C, w)
            PROVE  /\ overlay' \in [Txns -> [Cells -> States \cup {NoEntry}]]
                   /\ staged' \in [Txns -> BOOLEAN]
                   /\ own' \in [Txns -> [Cells -> States \cup {NoEntry}]]
        BY <3>1 DEF Stage, RecordOwn
      <3>2. /\ Absent \in States
            /\ \A v \in Values : v \in States
        BY DEF States
      <3>3. CASE \E n \in Nodes, v \in Values : createNode(t, n, v)
        BY <3>1, <3>2, <3>3 DEF createNode, Stage
      <3>4. CASE \E n \in Nodes, v \in Values : setProperty(t, n, v)
        BY <3>1, <3>2, <3>4 DEF setProperty, Stage
      <3>5. CASE \E n \in Nodes, v \in Values : setNodeVector(t, n, v)
        BY <3>1, <3>2, <3>5 DEF setNodeVector, Stage
      <3>6. CASE \E n \in Nodes, v \in Values : ftsIndexDocument(t, n, v)
        BY <3>1, <3>2, <3>6 DEF ftsIndexDocument, Stage
      <3>7. CASE \E n \in Nodes : deleteNode(t, n)
        BY <3>1, <3>2, <3>7 DEF deleteNode, Stage
      <3>8. QED BY <2>2, <3>3, <3>4, <3>5, <3>6, <3>7 DEF WriteStep
    <2>3. ASSUME NEW t \in Txns, commitTransaction(t) PROVE TypeOK'
      BY <2>3, CellTypes, CaptureAllType
         DEF commitTransaction, Finish, Written, EmptyOverlay
    <2>4. ASSUME NEW t \in Txns, CommitFails(t) PROVE TypeOK'
      <3>1. CASE CommitFailsCapturing(t)
        BY <3>1, CellTypes DEF CommitFailsCapturing
      <3>2. CASE CommitFailsLogging(t)
        BY <3>2, CaptureAllType DEF CommitFailsLogging
      <3>3. CASE CommitFailsApplying(t)
        <4>1. PICK C \in SUBSET Written(t) : base' = Applied(t, C)
          BY <3>3 DEF CommitFailsApplying
        <4>2. \A c \in C \cap Cells : overlay[t][c] # NoEntry
          BY DEF Written
        <4>3. base' \in [Cells -> States]
          BY <4>1, <4>2, CellTypes
        <4>4. QED BY <3>3, <4>3, CaptureAllType DEF CommitFailsApplying
      <3>4. CASE CommitFailsSyncing(t)
        BY <3>4, CaptureAllType, CellTypes DEF CommitFailsSyncing, Written
      <3>5. QED BY <2>4, <3>1, <3>2, <3>3, <3>4 DEF CommitFails
    <2>5. ASSUME NEW t \in Txns, abortTransaction(t) PROVE TypeOK'
      BY <2>5 DEF abortTransaction, Finish, EmptyOverlay
    <2>6. ASSUME NEW t \in Txns, AbortFails(t) PROVE TypeOK'
      BY <2>6 DEF AbortFails
    <2>7. CASE UNCHANGED vars
      BY <2>7 DEF vars
    <2>8. QED BY <2>1, <2>2, <2>3, <2>4, <2>5, <2>6, <2>7 DEF Next
  <1>3. QED BY <1>1, <1>2, PTL DEF Spec

-----------------------------------------------------------------------------
(* Every write is a Stage of some cells with some state.                   *)
LEMMA WriteStages ==
    ASSUME NEW t \in Txns, WriteStep(t)
    PROVE  \E C : \E w \in States : Stage(t, C, w)
  BY DEF WriteStep, createNode, setProperty, setNodeVector, ftsIndexDocument,
         deleteNode, States

LEMMA InvInit == Init => Inv
  <1> SUFFICES ASSUME Init PROVE Inv
    OBVIOUS
  <1>1. TypeOK
    BY DEF Init, TypeOK, States, Modes, EmptyOverlay
  <1>2. QED
    BY <1>1 DEF Init, Inv, SlotConsistent, SingleWriter, WriterOverlayIsItsWrites, Overlaid

LEMMA InvNext == Inv /\ TypeOK' /\ [Next]_vars => Inv'
  <1> SUFFICES ASSUME Inv, TypeOK', [Next]_vars
               PROVE  /\ SlotConsistent'
                      /\ SingleWriter'
                      /\ WriterOverlayIsItsWrites'
    BY DEF Inv
  <1> USE DEF Inv, SlotConsistent, SingleWriter, WriterOverlayIsItsWrites,
              TypeOK, Overlaid, Written
  <1>1. ASSUME NEW t \in Txns, NEW m \in Modes, beginTransaction(t, m)
        PROVE  SlotConsistent' /\ SingleWriter' /\ WriterOverlayIsItsWrites'
    <2>1. overlay[t] = EmptyOverlay /\ ~staged[t]
      BY <1>1 DEF beginTransaction
    <2>2. QED BY <1>1, <2>1, SentinelsAssumption DEF beginTransaction, EmptyOverlay
  <1>2. ASSUME NEW t \in Txns, WriteStep(t)
        PROVE  SlotConsistent' /\ SingleWriter' /\ WriterOverlayIsItsWrites'
    <2>1. PICK C : \E w \in States : Stage(t, C, w)
      BY <1>2, WriteStages
    <2>2. /\ UNCHANGED <<status, mode, active_writer>>
          /\ status[t] = "active" /\ mode[t] = "read_write" /\ staged'[t]
          /\ \A u \in Txns \ {t} :
                UNCHANGED <<staged[u], overlay[u], own[u]>>
      BY <2>1 DEF Stage, RecordOwn
    <2>3. overlay'[t] = own'[t]
      <3>1. overlay[t] = own[t]
        BY <2>2
      <3>2. QED BY <2>1, <3>1 DEF Stage, RecordOwn
    <2>4. QED BY <2>2, <2>3
  <1>3. ASSUME NEW t \in Txns, commitTransaction(t)
        PROVE  SlotConsistent' /\ SingleWriter' /\ WriterOverlayIsItsWrites'
    <2>1. /\ overlay'[t] = EmptyOverlay /\ ~staged'[t] /\ t \notin Overlaid'
          /\ Overlaid' = Overlaid \ {t}
          /\ own'[t] = EmptyOverlay /\ \A u \in Txns \ {t} : own'[u] = own[u]
      BY <1>3 DEF commitTransaction, Finish
    <2>2. \A u \in Txns \ Overlaid : u # t /\ overlay'[u] = overlay[u]
      BY <1>3 DEF commitTransaction, CaptureAll, Others
    <2>3. \A u \in Overlaid \ {t} : mode[u] = "read_write" => overlay'[u] = overlay[u]
      <3>1. ASSUME NEW u \in Overlaid \ {t}, mode[u] = "read_write" PROVE ~staged[t]
        BY <3>1, SentinelsAssumption
      <3>2. QED BY <3>1, <1>3 DEF commitTransaction
    <2>4. QED BY <1>3, <2>1, <2>2, <2>3, SentinelsAssumption DEF commitTransaction, Finish
  <1>4. ASSUME NEW t \in Txns, CommitFails(t)
        PROVE  SlotConsistent' /\ SingleWriter' /\ WriterOverlayIsItsWrites'
    <2>1. /\ UNCHANGED <<status, mode, staged, active_writer, own>>
          /\ \A u \in Txns : u \notin Others(t) \/ ~staged[t] => overlay'[u] = overlay[u]
      <3>1. CASE CommitFailsCapturing(t)
        BY <3>1 DEF CommitFailsCapturing
      <3>2. CASE CommitFailsLogging(t)
        BY <3>2 DEF CommitFailsLogging, CaptureAll
      <3>3. CASE CommitFailsApplying(t)
        BY <3>3 DEF CommitFailsApplying, CaptureAll
      <3>4. CASE CommitFailsSyncing(t)
        BY <3>4 DEF CommitFailsSyncing, CaptureAll
      <3>5. QED BY <1>4, <3>1, <3>2, <3>3, <3>4 DEF CommitFails
    <2>2. \A u \in Overlaid : mode[u] = "read_write" => overlay'[u] = overlay[u]
      <3>1. ASSUME NEW u \in Overlaid, mode[u] = "read_write", u # t PROVE ~staged[t]
        BY <3>1
      <3>2. QED BY <3>1, <2>1 DEF Others
    <2>3. QED BY <2>1, <2>2 DEF Others
  <1>5. ASSUME NEW t \in Txns, abortTransaction(t)
        PROVE  SlotConsistent' /\ SingleWriter' /\ WriterOverlayIsItsWrites'
    BY <1>5, SentinelsAssumption DEF abortTransaction, Finish
  <1>6. ASSUME NEW t \in Txns, AbortFails(t)
        PROVE  SlotConsistent' /\ SingleWriter' /\ WriterOverlayIsItsWrites'
    BY <1>6 DEF AbortFails
  <1>7. CASE UNCHANGED vars
    BY <1>7 DEF vars
  <1>8. QED BY <1>1, <1>2, <1>3, <1>4, <1>5, <1>6, <1>7 DEF Next

(* The inductive invariant holds of every reachable state.                 *)
THEOREM Invariance == Spec => []Inv
  <1>1. Init => Inv
    BY InvInit
  <1>2. Inv /\ TypeOK' /\ [Next]_vars => Inv'
    BY InvNext
  <1>3. QED BY <1>1, <1>2, TypeCorrect, PTL DEF Spec

(* However commits and rollbacks fail, uncommitted writes belong to the    *)
(* transaction in the writer slot, and there is at most one.               *)
THEOREM WriterExclusion == Spec => []SingleWriter
  <1>1. Inv => SingleWriter
    BY DEF Inv
  <1>2. QED BY <1>1, Invariance, PTL

(* No capture of another's commit ever enters the overlay of a read-write  *)
(* transaction, whichever calls of the others failed half-way: the overlay *)
(* is, cell by cell, what the transaction's own calls wrote.               *)
THEOREM WritersHoldOwnWrites == Spec => []WriterOverlayIsItsWrites
  <1>1. Inv => WriterOverlayIsItsWrites
    BY DEF Inv
  <1>2. QED BY <1>1, Invariance, PTL

LEMMA WriterStartsClean ==
    ASSUME Inv, NEW t \in Overlaid, mode[t] = "read_write", ~staged[t]
    PROVE  Written(t) = {}
  BY DEF Inv, SlotConsistent, WriterOverlayIsItsWrites, Written, EmptyOverlay, Overlaid

(* Replacing the cells C of a writer's overlay puts its own writes there.  *)
LEMMA AppliedIsOwn ==
    ASSUME Inv, NEW t \in Overlaid, staged[t], NEW C \in SUBSET Written(t)
    PROVE  /\ active_writer = t /\ t # NoTxn
           /\ \A c \in C : own[t][c] # NoEntry
           /\ Applied(t, C) = [c \in Cells |-> IF c \in C THEN own[t][c] ELSE base[c]]
           /\ Written(t) = {c \in Cells : own[t][c] # NoEntry}
  BY SentinelsAssumption
     DEF Inv, SingleWriter, WriterOverlayIsItsWrites, Applied, Written, Overlaid

(* Only calls that commit change the stores.                               *)
LEMMA StoresChangeAtCommit ==
    ASSUME Inv, [Next]_vars, base' # base
    PROVE  \E t \in Overlaid : staged[t] /\ \E C \in SUBSET Written(t) : base' = Applied(t, C)
  <1>1. ASSUME NEW t \in Txns, NEW m \in Modes, beginTransaction(t, m) PROVE FALSE
    BY <1>1 DEF beginTransaction
  <1>2. ASSUME NEW t \in Txns, WriteStep(t) PROVE FALSE
    BY <1>2, WriteStages DEF Stage
  <1>3. ASSUME NEW t \in Txns, commitTransaction(t)
        PROVE  t \in Overlaid /\ staged[t] /\ base' = Applied(t, Written(t))
    BY <1>3 DEF commitTransaction, Overlaid
  <1>4. ASSUME NEW t \in Txns, CommitFails(t)
        PROVE  t \in Overlaid /\ staged[t] /\ \E C \in SUBSET Written(t) : base' = Applied(t, C)
    <2>1. ~CommitFailsCapturing(t) /\ ~CommitFailsLogging(t)
      BY DEF CommitFailsCapturing, CommitFailsLogging
    <2>2. CASE CommitFailsApplying(t)
      BY <2>2 DEF CommitFailsApplying, Overlaid
    <2>3. CASE CommitFailsSyncing(t)
      BY <2>3 DEF CommitFailsSyncing, Overlaid
    <2>4. QED BY <1>4, <2>1, <2>2, <2>3 DEF CommitFails
  <1>5. ASSUME NEW t \in Txns, abortTransaction(t) \/ AbortFails(t) PROVE FALSE
    BY <1>5 DEF abortTransaction, AbortFails
  <1>6. ~UNCHANGED vars
    BY DEF vars
  <1>7. QED BY <1>1, <1>2, <1>3, <1>4, <1>5, <1>6 DEF Next

(* The stores only ever take, from the one writer, what its own calls      *)
(* wrote; and a commit that ends has put there all of it and nothing else. *)
(* No capture is written back, however many commits and rollbacks of other *)
(* transactions fail half-way in between.                                  *)
THEOREM CommitAppliesOwnWrites == Spec => StoresTakeOwnWrites
  <1> DEFINE Taken == \A c \in Cells : base'[c] # base[c] =>
                         /\ active_writer # NoTxn
                         /\ own[active_writer][c] # NoEntry
                         /\ base'[c] = own[active_writer][c]
             Ended == \A t \in Txns : commitTransaction(t) =>
                         base' = [c \in Cells |-> IF own[t][c] # NoEntry THEN own[t][c] ELSE base[c]]
  <1>1. ASSUME Inv, [Next]_vars PROVE Taken
    <2> SUFFICES ASSUME NEW c \in Cells, base'[c] # base[c]
                 PROVE  /\ active_writer # NoTxn
                        /\ own[active_writer][c] # NoEntry
                        /\ base'[c] = own[active_writer][c]
      OBVIOUS
    <2>1. PICK t \in Overlaid : staged[t] /\ \E C \in SUBSET Written(t) : base' = Applied(t, C)
      BY <1>1, StoresChangeAtCommit
    <2>2. PICK C \in SUBSET Written(t) : base' = Applied(t, C)
      BY <2>1
    <2>3. QED BY <1>1, <2>1, <2>2, AppliedIsOwn
  <1>2. ASSUME Inv, [Next]_vars PROVE Ended
    <2> SUFFICES ASSUME NEW t \in Txns, commitTransaction(t)
                 PROVE  base' = [c \in Cells |-> IF own[t][c] # NoEntry THEN own[t][c] ELSE base[c]]
      OBVIOUS
    <2>1. t \in Overlaid
      BY DEF commitTransaction, Overlaid
    <2>2. CASE staged[t]
      <3>1. base' = Applied(t, Written(t))
        BY <2>2 DEF commitTransaction
      <3>2. QED BY <1>2, <2>1, <2>2, <3>1, AppliedIsOwn
    <2>3. CASE ~staged[t]
      <3>1. own[t] = EmptyOverlay /\ base' = base /\ base \in [Cells -> States]
        BY <1>2, <2>3 DEF commitTransaction, Inv, SlotConsistent, TypeOK
      <3>2. QED BY <3>1 DEF EmptyOverlay
    <2>4. QED BY <2>2, <2>3
  <1>3. Inv /\ [Next]_vars => [Taken /\ Ended]_vars
    BY <1>1, <1>2
  <1>4. QED BY <1>3, Invariance, PTL DEF Spec, StoresTakeOwnWrites

-----------------------------------------------------------------------------
(* A rollback that fails is the only call that retires a handle and keeps  *)
(* its overlay.                                                            *)
NoOrphans == \A t \in Txns : status[t] # "orphaned"

LEMMA NoOrphansNext ==
    ASSUME "abort" \notin Failures, Inv, NoOrphans, [Next]_vars
    PROVE  NoOrphans'
  <1> USE DEF Inv, TypeOK, NoOrphans
  <1>1. ASSUME NEW t \in Txns, NEW m \in Modes, beginTransaction(t, m) PROVE NoOrphans'
    BY <1>1 DEF beginTransaction
  <1>2. ASSUME NEW t \in Txns, WriteStep(t) PROVE NoOrphans'
    BY <1>2, WriteStages DEF Stage
  <1>3. ASSUME NEW t \in Txns, commitTransaction(t) \/ abortTransaction(t) PROVE NoOrphans'
    BY <1>3 DEF commitTransaction, abortTransaction, Finish
  <1>4. ASSUME NEW t \in Txns, CommitFails(t) PROVE NoOrphans'
    BY <1>4 DEF CommitFails, CommitFailsCapturing, CommitFailsLogging,
                CommitFailsApplying, CommitFailsSyncing
  <1>5. ASSUME NEW t \in Txns, AbortFails(t) PROVE NoOrphans'
    BY <1>5 DEF AbortFails
  <1>6. CASE UNCHANGED vars
    BY <1>6 DEF vars
  <1>7. QED BY <1>1, <1>2, <1>3, <1>4, <1>5, <1>6 DEF Next

(* If the abort record can be written, the writer slot always belongs to a *)
(* transaction whose caller can still commit it or roll it back, whatever  *)
(* commits failed before: a later writer is never shut out for good.       *)
THEOREM SlotIsNeverStranded ==
    ASSUME "abort" \notin Failures
    PROVE  Spec => []SlotHolderCanEnd
  <1>1. Init => NoOrphans
    BY DEF Init, NoOrphans
  <1>2. Inv /\ NoOrphans /\ [Next]_vars => NoOrphans'
    BY NoOrphansNext
  <1>3. Inv /\ NoOrphans => SlotHolderCanEnd
    BY DEF Inv, SlotConsistent, NoOrphans, SlotHolderCanEnd, Overlaid
  <1>4. QED BY <1>1, <1>2, <1>3, Invariance, PTL DEF Spec

-----------------------------------------------------------------------------
(* A capture does not change what a transaction reads, except documents:   *)
(* the base state it saves is the one the transaction was reading.         *)
LEMMA CaptureKeepsView ==
    ASSUME TypeOK, NEW r \in Txns, NEW C, NEW c \in SnapshotCells
    PROVE  (IF CaptureInto(r, C)[c] # NoEntry THEN CaptureInto(r, C)[c] ELSE base[c])
              = Visible(r, c)
  BY SentinelsAssumption DEF TypeOK, CaptureInto, Captured, Visible, SnapshotCells, States

(* After the whole capture, replacing the writer's cells in the base       *)
(* changes nothing a captured reader reads.                                *)
LEMMA CaptureHidesCommit ==
    ASSUME TypeOK, NEW t \in Txns, NEW r \in Others(t), NEW c \in SnapshotCells,
           NEW C \in SUBSET Written(t)
    PROVE  (IF CaptureAll(t)[r][c] # NoEntry THEN CaptureAll(t)[r][c] ELSE Applied(t, C)[c])
              = Visible(r, c)
  BY SentinelsAssumption
     DEF TypeOK, CaptureAll, CaptureInto, Captured, Visible, SnapshotCells, States,
         Applied, Others, Overlaid, Written

(* A failed commit leaves what any transaction reads unchanged; the one    *)
(* exception is a writer that had begun to apply its own changes.          *)
LEMMA FailedCommitKeepsView ==
    ASSUME Inv, NEW t \in Txns, CommitFails(t), NEW r \in Overlaid,
           ~(staged[r] /\ CommitFailsApplying(r)), ~(staged[r] /\ CommitFailsSyncing(r)),
           NEW c \in SnapshotCells
    PROVE  Visible(r, c)' = Visible(r, c)
  <1> USE DEF Inv
  <1>1. CASE CommitFailsCapturing(t)
    <2>1. CASE r = t
      BY <1>1, <2>1 DEF CommitFailsCapturing, Visible, Others
    <2>2. CASE r # t
      <3>1. r \in Others(t)
        BY <2>2 DEF Others
      <3>2. PICK D : overlay'[r] = CaptureInto(r, D) /\ base' = base
        BY <1>1, <3>1 DEF CommitFailsCapturing, Overlaid
      <3>3. QED BY <3>2, CaptureKeepsView DEF Visible, Overlaid
    <2>3. QED BY <2>1, <2>2
  <1>2. CASE CommitFailsLogging(t)
    <2>1. CASE r = t
      BY <1>2, <2>1 DEF CommitFailsLogging, CaptureAll, Visible, Others, Overlaid
    <2>2. CASE r # t
      <3>1. overlay'[r] = CaptureInto(r, Written(t)) /\ base' = base
        BY <1>2, <2>2 DEF CommitFailsLogging, CaptureAll, Others, Overlaid
      <3>2. QED BY <3>1, CaptureKeepsView DEF Visible, Overlaid
    <2>3. QED BY <2>1, <2>2
  <1>3. CASE CommitFailsApplying(t)
    <2>1. t # r
      BY <1>3 DEF CommitFailsApplying
    <2>2. QED BY <1>3, <2>1, CaptureHidesCommit DEF CommitFailsApplying, Visible, Others
  <1>4. CASE CommitFailsSyncing(t)
    <2>1. CASE staged[t]
      <3>1. t # r
        BY <1>4, <2>1
      <3>2. QED BY <1>4, <2>1, <3>1, CaptureHidesCommit DEF CommitFailsSyncing, Visible, Others
    <2>2. CASE ~staged[t]
      BY <1>4, <2>2 DEF CommitFailsSyncing, Visible
    <2>3. QED BY <2>1, <2>2
  <1>5. QED BY <1>1, <1>2, <1>3, <1>4 DEF CommitFails

(* Any step but a transaction's own writes leaves what it reads unchanged  *)
(* while it stays open, failed commits of others included.                 *)
LEMMA ViewKept ==
    ASSUME Inv, [Next]_vars, NEW r \in Overlaid, r \in Overlaid', ~WriteStep(r),
           ~(staged[r] /\ CommitFailsApplying(r)), ~(staged[r] /\ CommitFailsSyncing(r)),
           NEW c \in SnapshotCells
    PROVE  Visible(r, c)' = Visible(r, c)
  <1> USE DEF Inv
  <1>1. ASSUME NEW t \in Txns, NEW m \in Modes, beginTransaction(t, m)
        PROVE  Visible(r, c)' = Visible(r, c)
    BY <1>1 DEF beginTransaction, Visible
  <1>2. ASSUME NEW t \in Txns, WriteStep(t) PROVE Visible(r, c)' = Visible(r, c)
    <2>1. PICK C : \E w \in States : Stage(t, C, w)
      BY <1>2, WriteStages
    <2>2. t # r
      BY <1>2
    <2>3. QED BY <2>1, <2>2 DEF Stage, Visible, TypeOK, Overlaid
  <1>3. ASSUME NEW t \in Txns, commitTransaction(t) PROVE Visible(r, c)' = Visible(r, c)
    <2>1. t # r /\ r \in Others(t)
      BY <1>3 DEF commitTransaction, Finish, TypeOK, Overlaid, Others
    <2>2. CASE staged[t]
      <3>1. overlay'[r] = CaptureAll(t)[r] /\ base' = Applied(t, Written(t))
        BY <1>3, <2>1, <2>2 DEF commitTransaction, CaptureAll, TypeOK, Overlaid
      <3>2. QED BY <3>1, <2>1, CaptureHidesCommit DEF Visible
    <2>3. CASE ~staged[t]
      BY <1>3, <2>1, <2>3 DEF commitTransaction, Visible, TypeOK, Overlaid
    <2>4. QED BY <2>2, <2>3
  <1>4. ASSUME NEW t \in Txns, CommitFails(t) PROVE Visible(r, c)' = Visible(r, c)
    BY <1>4, FailedCommitKeepsView
  <1>5. ASSUME NEW t \in Txns, abortTransaction(t) PROVE Visible(r, c)' = Visible(r, c)
    <2>1. t # r
      BY <1>5 DEF abortTransaction, Finish, TypeOK, Overlaid
    <2>2. QED BY <1>5, <2>1 DEF abortTransaction, Visible, TypeOK, Overlaid
  <1>6. ASSUME NEW t \in Txns, AbortFails(t) PROVE Visible(r, c)' = Visible(r, c)
    BY <1>6 DEF AbortFails, Visible
  <1>7. CASE UNCHANGED vars
    BY <1>7 DEF vars, Visible
  <1>8. QED BY <1>1, <1>2, <1>3, <1>4, <1>5, <1>6, <1>7 DEF Next

(* A read-only transaction reads one state of every node, edge and vector  *)
(* from its begin to its end, whatever the others commit or fail to.       *)
THEOREM ReadersKeepTheirSnapshot == Spec => ReaderSnapshot
  <1>1. Inv /\ [Next]_vars =>
           [\A t \in Active : mode[t] = "read_only" /\ status'[t] = "active" =>
                \A c \in SnapshotCells : Visible(t, c)' = Visible(t, c)]_vars
    <2> SUFFICES ASSUME Inv, [Next]_vars, NEW t \in Active, mode[t] = "read_only",
                        status'[t] = "active", NEW c \in SnapshotCells
                 PROVE  Visible(t, c)' = Visible(t, c)
      OBVIOUS
    <2>1. t \in Overlaid /\ t \in Overlaid' /\ ~staged[t]
      BY DEF Active, Overlaid, Inv, SlotConsistent
    <2>2. ~WriteStep(t)
      BY <2>1, WriteStages DEF Stage, Active
    <2>3. QED BY <2>1, <2>2, ViewKept
  <1>2. QED BY <1>1, Invariance, PTL DEF Spec, ReaderSnapshot

-----------------------------------------------------------------------------
(* The refinement *)

LEMMA RefinementInit == Init => Store!Init
  BY SentinelsAssumption
     DEF Init, Store!Init, Store!Empty, Overlaid, SnapshotCells, SnapView, SnapTouched

(* A step in which only transaction t's view and touched set may change.   *)
LEMMA OthersKept ==
    ASSUME Inv, NEW t \in Txns,
           WriteStep(t) \/ commitTransaction(t) \/ abortTransaction(t)
    PROVE  \A u \in Txns \ {t} : SnapView(u)' = SnapView(u)
  <1> SUFFICES ASSUME NEW u \in Txns \ {t}, NEW c \in SnapshotCells
               PROVE  (IF u \in Overlaid' THEN Visible(u, c)' ELSE Absent)
                         = (IF u \in Overlaid THEN Visible(u, c) ELSE Absent)
    BY DEF SnapView, SnapshotCells, Cells
  <1>1. u \in Overlaid' <=> u \in Overlaid
    <2>1. CASE WriteStep(t)
      BY <2>1, WriteStages DEF Stage, Overlaid
    <2>2. CASE commitTransaction(t)
      BY <2>2 DEF commitTransaction, Finish, Overlaid, Inv, TypeOK
    <2>3. CASE abortTransaction(t)
      BY <2>3 DEF abortTransaction, Finish, Overlaid, Inv, TypeOK
    <2>4. QED BY <2>1, <2>2, <2>3
  <1>2. ASSUME u \in Overlaid PROVE Visible(u, c)' = Visible(u, c)
    <2>1. CASE WriteStep(t)
      <3>1. PICK C : \E w \in States : Stage(t, C, w)
        BY <2>1, WriteStages
      <3>2. QED BY <3>1 DEF Stage, Visible, Inv, TypeOK
    <2>2. CASE commitTransaction(t)
      <3>1. CASE staged[t]
        <4>1. u \in Others(t)
          BY <1>2 DEF Others
        <4>2. overlay'[u] = CaptureAll(t)[u] /\ base' = Applied(t, Written(t))
          BY <2>2, <3>1 DEF commitTransaction, CaptureAll
        <4>3. QED BY <4>1, <4>2, CaptureHidesCommit DEF Visible, Inv
      <3>2. CASE ~staged[t]
        BY <2>2, <3>2 DEF commitTransaction, Visible, Inv, TypeOK
      <3>3. QED BY <3>1, <3>2
    <2>3. CASE abortTransaction(t)
      BY <2>3 DEF abortTransaction, Visible, Inv, TypeOK
    <2>4. QED BY <2>1, <2>2, <2>3
  <1>3. QED BY <1>1, <1>2

(* Provided a commit that has started to apply does not fail, every step   *)
(* of the engine is a step of the abstract store or leaves it alone.       *)
THEOREM ImplementsSnapshotStore ==
    ASSUME "apply" \notin Failures, "sync" \notin Failures
    PROVE  Spec => SnapshotIsolation
  <1>1. Init => Store!Init
    BY RefinementInit
  <1>2. Inv /\ TypeOK' /\ [Next]_vars => [Store!Next]_(Store!vars)
    <2> SUFFICES ASSUME Inv, TypeOK', [Next]_vars PROVE [Store!Next]_(Store!vars)
      OBVIOUS
    <2> USE DEF Inv
    <2>1. ASSUME NEW t \in Txns, NEW m \in Modes, beginTransaction(t, m)
          PROVE  Store!Begin(t)
      <3>1. t \notin Overlaid /\ Overlaid' = Overlaid \cup {t}
        BY <2>1 DEF beginTransaction, Overlaid, TypeOK
      <3>2. \A c \in SnapshotCells : Visible(t, c)' = base[c]
        <4>1. overlay'[t] = EmptyOverlay
          BY <2>1, <3>1 DEF beginTransaction, SlotConsistent
        <4>2. QED BY <2>1, <4>1 DEF beginTransaction, Visible, EmptyOverlay, SnapshotCells
      <3>3. \A u \in Txns \ {t} : SnapView(u)' = SnapView(u)
        BY <2>1, <3>1 DEF beginTransaction, SnapView, Visible
      <3>4. \A u \in Txns : SnapTouched(u)' = SnapTouched(u)
        BY <2>1 DEF beginTransaction, SnapTouched, Written
      <3>5. SnapView(t)' = [c \in SnapshotCells |-> base[c]]
        BY <3>1, <3>2 DEF SnapView
      <3>6. base' = base
        BY <2>1 DEF beginTransaction
      <3>7. QED
        BY <3>1, <3>3, <3>4, <3>5, <3>6 DEF Store!Begin, SnapView, SnapTouched
    <2>2. ASSUME NEW t \in Txns, WriteStep(t) PROVE Store!Write(t)
      <3>1. PICK C : \E w \in States : Stage(t, C, w)
        BY <2>2, WriteStages
      <3>2. PICK w \in States : Stage(t, C, w)
        BY <3>1
      <3>3. /\ t \in Overlaid /\ Overlaid' = Overlaid /\ base' = base
            /\ staged'[t] /\ \A u \in Txns \ {t} : staged'[u] = staged[u]
            /\ \A c \in Cells : overlay'[t][c] = IF c \in C THEN w ELSE overlay[t][c]
            /\ \A u \in Txns \ {t} : overlay'[u] = overlay[u]
        BY <3>2 DEF Stage, Overlaid, TypeOK
      <3>4. \A u \in Overlaid \ {t} : SnapTouched(u) = {}
        <4>1. mode[t] = "read_write"
          BY <3>2 DEF Stage
        <4>2. QED BY <3>3, <4>1 DEF SingleWriter, SnapTouched
      <3>5. \A u \in Txns \ {t} : SnapView(u)' = SnapView(u) /\ SnapTouched(u)' = SnapTouched(u)
        BY <2>2, <3>3, OthersKept DEF SnapTouched, Written
      <3>6. SnapTouched(t)' = SnapTouched(t) \cup (C \cap SnapshotCells)
        <4>1. ~staged[t] => Written(t) = {}
          BY <3>2, <3>3, WriterStartsClean DEF Stage
        <4>2. w # NoEntry
          BY SentinelsAssumption DEF States
        <4>3. Written(t)' = Written(t) \cup (C \cap Cells)
          BY <3>3, <4>2 DEF Written
        <4>4. QED BY <3>3, <4>1, <4>3 DEF SnapTouched, SnapshotCells
      <3>7. \A c \in SnapshotCells \ C : SnapView(t)'[c] = SnapView(t)[c]
        BY <3>3 DEF SnapView, Visible, SnapshotCells
      <3>8. \A u \in Txns : SnapView(u)' \in [SnapshotCells -> States]
        <4>1. \A u \in Txns, c \in SnapshotCells : Visible(u, c)' \in States
          BY DEF Visible, SnapshotCells, TypeOK, States
        <4>2. QED BY <4>1 DEF SnapView, States, SnapshotCells, Cells
      <3> DEFINE views == [u \in Txns |-> SnapView(u)]
                 touches == [u \in Txns |-> SnapTouched(u)]
      <3>9. views' = [u \in Txns |-> SnapView(u)'] /\ touches' = [u \in Txns |-> SnapTouched(u)']
        OBVIOUS
      <3>10. views' \in [Txns -> [SnapshotCells -> Values \cup {Absent}]]
        BY <3>8, <3>9 DEF States
      <3>11. \A u \in Txns \ {t} : views'[u] = views[u]
        BY <3>5, <3>9
      <3>12. \A u \in Overlaid \ {t} : touches[u] = {}
        BY <3>4 DEF Overlaid
      <3>13. \E D \in SUBSET SnapshotCells :
                /\ \A c \in SnapshotCells \ D : views'[t][c] = views[t][c]
                /\ touches' = [touches EXCEPT ![t] = @ \cup D]
        <4>1. \A c \in SnapshotCells \ (C \cap SnapshotCells) : views'[t][c] = views[t][c]
          BY <3>7, <3>9
        <4>2. touches' = [touches EXCEPT ![t] = @ \cup (C \cap SnapshotCells)]
          BY <3>5, <3>6, <3>9
        <4>3. QED BY <4>1, <4>2
      <3>14. [c \in SnapshotCells |-> base[c]]' = [c \in SnapshotCells |-> base[c]]
        BY <3>3 DEF SnapshotCells, Cells
      <3> HIDE DEF views, touches
      <3>15. QED
        BY <3>3, <3>10, <3>11, <3>12, <3>13, <3>14 DEF Store!Write, views, touches
    <2>3. ASSUME NEW t \in Txns, commitTransaction(t) PROVE Store!Commit(t)
      <3>1. t \in Overlaid /\ Overlaid' = Overlaid \ {t}
        BY <2>3 DEF commitTransaction, Finish, Overlaid, TypeOK
      <3>2. \A u \in Txns \ {t} : SnapView(u)' = SnapView(u)
        BY <2>3, OthersKept
      <3>3. \A u \in Txns \ {t} : SnapTouched(u)' = SnapTouched(u)
        <4>1. \A u \in Txns \ {t} : ~(staged[t] /\ staged[u])
          BY DEF SlotConsistent, SingleWriter, TypeOK
        <4>2. \A u \in Txns \ {t} : staged'[u] = staged[u]
          BY <2>3 DEF commitTransaction, Finish, TypeOK
        <4>3. CASE staged[t]
          BY <4>1, <4>2, <4>3 DEF SnapTouched
        <4>4. CASE ~staged[t]
          BY <2>3, <4>2, <4>4 DEF commitTransaction, SnapTouched, Written, TypeOK
        <4>5. QED BY <4>3, <4>4
      <3>4. SnapView(t)' = [c \in SnapshotCells |-> Absent] /\ SnapTouched(t)' = {}
        BY <2>3, <3>1 DEF commitTransaction, Finish, SnapView, SnapTouched, TypeOK, SnapshotCells, Cells
      <3>5. \A c \in SnapshotCells :
                base'[c] = IF c \in SnapTouched(t) THEN SnapView(t)[c] ELSE base[c]
        <4>1. CASE staged[t]
          BY <2>3, <3>1, <4>1
             DEF commitTransaction, Applied, SnapTouched, SnapView, Visible, Written, SnapshotCells
        <4>2. CASE ~staged[t]
          BY <2>3, <4>2 DEF commitTransaction, SnapTouched
        <4>3. QED BY <4>1, <4>2
      <3>6. SnapshotCells' = SnapshotCells
        BY DEF SnapshotCells, Cells
      <3>7. QED
        BY <3>1, <3>2, <3>3, <3>4, <3>5, <3>6
           DEF Store!Commit, Store!End, Store!Empty, SnapView, SnapTouched
    <2>4. ASSUME NEW t \in Txns, CommitFails(t) PROVE UNCHANGED Store!vars
      <3>1. CommitFailsCapturing(t) \/ CommitFailsLogging(t)
        BY <2>4 DEF CommitFails, CommitFailsApplying, CommitFailsSyncing
      <3>2. staged[t] /\ Overlaid' = Overlaid /\ base' = base /\ staged' = staged
        BY <3>1 DEF CommitFailsCapturing, CommitFailsLogging, Overlaid
      <3>3. \A u \in Txns : SnapView(u)' = SnapView(u)
        <4>1. \A u \in Overlaid, c \in SnapshotCells : Visible(u, c)' = Visible(u, c)
          BY <2>4, FailedCommitKeepsView DEF CommitFailsApplying, CommitFailsSyncing
        <4>2. QED BY <3>2, <4>1 DEF SnapView, SnapshotCells, Cells
      <3>4. \A u \in Txns : SnapTouched(u)' = SnapTouched(u)
        <4>1. \A u \in Txns \ {t} : ~staged[u]
          BY <3>2 DEF SlotConsistent, SingleWriter, TypeOK
        <4>2. overlay'[t] = overlay[t]
          BY <3>1 DEF CommitFailsCapturing, CommitFailsLogging, CaptureAll, Others
        <4>3. QED BY <3>2, <4>1, <4>2 DEF SnapTouched, Written
      <3>5. QED BY <3>2, <3>3, <3>4 DEF Store!vars, SnapView, SnapTouched, SnapshotCells, Cells
    <2>5. ASSUME NEW t \in Txns, abortTransaction(t) PROVE Store!Abort(t)
      <3>1. t \in Overlaid /\ Overlaid' = Overlaid \ {t} /\ base' = base
        BY <2>5 DEF abortTransaction, Finish, Overlaid, TypeOK
      <3>2. \A u \in Txns \ {t} : SnapView(u)' = SnapView(u)
        BY <2>5, OthersKept
      <3>3. \A u \in Txns \ {t} : SnapTouched(u)' = SnapTouched(u)
        BY <2>5 DEF abortTransaction, Finish, SnapTouched, Written, TypeOK
      <3>4. SnapView(t)' = [c \in SnapshotCells |-> Absent] /\ SnapTouched(t)' = {}
        BY <2>5, <3>1 DEF abortTransaction, Finish, SnapView, SnapTouched, TypeOK, SnapshotCells, Cells
      <3>5. QED
        BY <3>1, <3>2, <3>3, <3>4
           DEF Store!Abort, Store!End, Store!Empty, SnapView, SnapTouched
    <2>6. ASSUME NEW t \in Txns, AbortFails(t) PROVE UNCHANGED Store!vars
      <3>1. Overlaid' = Overlaid /\ UNCHANGED <<base, overlay, staged>>
        BY <2>6 DEF AbortFails, Overlaid, TypeOK
      <3>2. QED BY <3>1 DEF Store!vars, SnapView, SnapTouched, Visible, Written
    <2>7. CASE UNCHANGED vars
      BY <2>7 DEF vars, Store!vars, SnapView, SnapTouched, Overlaid, Visible, Written
    <2>8. QED BY <2>1, <2>2, <2>3, <2>4, <2>5, <2>6, <2>7 DEF Next, Store!Next
  <1>3. QED BY <1>1, <1>2, Invariance, TypeCorrect, PTL DEF Spec, SnapshotIsolation, Store!Spec
=============================================================================
