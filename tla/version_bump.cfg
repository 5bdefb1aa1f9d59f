SPECIFICATION Spec
CONSTANTS
    header = header
    capi = capi
    gomod = gomod
    lock = lock
    Order <- MCOrder
    Marks <- MCMarks
    Strict = {"require"}
    Optional = {"root"}
    Parts = {"MAJOR_MINOR_PATCH"}
    First = "LATTICE_VERSION"
    Versions = {v1, v2}
    Odd = Odd
    Missing = Missing
    Empty = Empty
    None = None
INVARIANTS
    TypeOK
    SuccessMeansConsistent
    WritesAPrefix
    FailsForCause
