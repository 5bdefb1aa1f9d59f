SPECIFICATION Spec
CONSTANTS
    Absent = Absent
    NoEntry = NoEntry
    Cells = {c1, c2}
    Unlogged = {}
    Values = {v}
    MaxTxn = 2
    MaxSessions = 2
    FrameCap = 2
    AutoFrames = 3
    MaxLsn = 5
    Faults = {"log", "power"}
INVARIANTS
    TypeOK CommittedSurvives RecoverableNow TornTailIsTheEnd LogIsOrdered
SYMMETRY Symmetry
CHECK_DEADLOCK FALSE
