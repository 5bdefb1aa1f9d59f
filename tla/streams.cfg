SPECIFICATION Spec
CONSTANTS
    MaxTxn = 2
    MaxSeq = 2
    Absent = Absent
    Faults = {}
INVARIANTS
    TypeOK
    StreamsAsCommitted
    NothingSkipped
    LoopingReaderIsWoken
PROPERTIES
    ReadReturns
CHECK_DEADLOCK FALSE
