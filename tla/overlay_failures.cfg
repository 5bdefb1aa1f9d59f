SPECIFICATION Spec
CONSTANTS
    Absent = Absent
    NoEntry = NoEntry
    NoTxn = NoTxn
    Txns = {t1, t2, t3}
    Nodes = {n1}
    Values = {v1, v2}
    MaxOpen = 3
    Kinds = {"state", "vector", "fts"}
    Failures = {"capture", "log", "apply", "sync", "abort"}
PROPERTIES
    ReaderSnapshot
    StoresTakeOwnWrites
SYMMETRY Symmetry
CHECK_DEADLOCK FALSE
