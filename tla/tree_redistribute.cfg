SPECIFICATION Spec
CONSTANTS
    Keys <- SixKeys
    LeafCap = 4
    MaxPages = 3
    MaxLog = 2
    Windows = {}
INVARIANTS
    CommittedFound
