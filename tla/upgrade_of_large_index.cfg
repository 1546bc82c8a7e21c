CONSTANTS
    NumChunks = 2
    PagesPerChunk = 2
    LazyfreeChunks = 0
    AnonChunks = 2
    DiskChunks = 0
    LeftoverBytes = {}
    Key = {k1, k2}
    ZeroKey = zero
    Handle = {h1}
    TailValue = {1}
    IndexRange = 1
    Absent = Absent
    NoKey = NoKey
    Garbage = Garbage
SPECIFICATION Spec
SYMMETRY Symmetry
CHECK_DEADLOCK FALSE
INVARIANT UpgradedPageOwned
