SPECIFICATION Spec
CONSTANTS
    Keys <- FourKeys
    LeafCap = 2
    MaxPages = 5
    MaxLog = 2
    Windows = {}
INVARIANTS
    TypeOK
    CommittedFound
    TreeIsSound
