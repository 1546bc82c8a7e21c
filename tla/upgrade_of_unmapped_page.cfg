CONSTANTS
    NumChunks = 3
    PagesPerChunk = 1
    LazyfreeChunks = 1
    AnonChunks = 2
    DiskChunks = 0
    LeftoverBytes = {}
    Key = {k1, k2, k3}
    ZeroKey = zero
    Handle = {h1, h2}
    TailValue = {1}
    IndexRange = 65536
    Absent = Absent
    NoKey = NoKey
    Garbage = Garbage
SPECIFICATION Spec
SYMMETRY Symmetry
CHECK_DEADLOCK FALSE
INVARIANT UpgradedPageMapped
