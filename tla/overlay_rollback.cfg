SPECIFICATION MCSpec
CONSTANTS
    Absent = Absent
    NoEntry = NoEntry
    NoTxn = NoTxn
    Txns = {t1, t2, t3}
    Nodes = {n1}
    Values = {v1, v2}
    MaxOpen = 3
    Kinds = {"state"}
    Failures = {"sync"}
INVARIANTS
    RollbackLeavesNothing
CHECK_DEADLOCK FALSE
