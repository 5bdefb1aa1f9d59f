SPECIFICATION Spec
CONSTANTS
    IntBits = 2
    Nodes = {1, 2}
    Edges = {1}
    Labels <- MCLabels
    Values <- MCValues
    None = None
    PythonToValue <- Encode
    ValueToPython <- Decode
    Refused <- Invalid
    MayFail = TRUE
    MaxWrites = 4
INVARIANTS
    TypeOK
    ReadsAgree
    OnlyWholeCommitted
