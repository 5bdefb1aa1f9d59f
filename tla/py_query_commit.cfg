SPECIFICATION Spec
CONSTANTS
    Threads = {t1, t2}
    Dbs = {d1, d2}
    Txs = {1, 2}
    DbIds = {1, 2}
    TxnIds = {1, 2, 3}
    Items = {w1}
    None = None
    t1 = t1
    t2 = t2
    d1 = d1
    d2 = d2
    Options <- MCOptions
    Libraries <- MCLibraries
    Faults = {"query_commit"}
    Reopen = FALSE
    Reenter = FALSE
INVARIANTS
    QuietMeansFree
CHECK_DEADLOCK FALSE
