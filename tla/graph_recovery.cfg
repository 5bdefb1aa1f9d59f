SPECIFICATION Spec
CONSTANTS
    Absent = Absent
    Labels <- TwoLabels
    Values = {v}
    MaxNode = 1
    MaxEdge = 1
    MaxLog = 3
    Relabel = FALSE
INVARIANTS
    TypeOK
    NodesRecovered
    EdgesRecovered
    LabelsIndexed
    PropertiesIndexed
    CommittedEdgeIdsNotReused
