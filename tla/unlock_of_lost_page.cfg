CONSTANTS
    NumChunks = 2
    PagesPerChunk = 1
    LazyfreeChunks = 2
    AnonChunks = 0
    DiskChunks = 0
    LeftoverBytes = {}
    Key = {k1, k2}
    ZeroKey = zero
    Handle = {h1, h2}
    TailValue = {1}
    IndexRange = 65536
    Absent = Absent
    NoKey = NoKey
    Garbage = Garbage
SPECIFICATION Spec
SYMMETRY Symmetry
CHECK_DEADLOCK FALSE
INVARIANT ReadUnlockReports
