SPECIFICATION Spec
CONSTANTS
    Absent = Absent
    NoEntry = NoEntry
    NoTxn = NoTxn
    Txns = {t1, t2, t3}
    Nodes = {n1, n2}
    Values = {v1, v2}
    MaxOpen = 3
    Kinds = {"state", "vector"}
    Failures = {"capture", "log"}
INVARIANTS
    TypeOK
    SingleWriter
    WriterOverlayIsItsWrites
    SlotHolderCanEnd
PROPERTIES
    SnapshotIsolation
SYMMETRY Symmetry
CHECK_DEADLOCK FALSE
