CONSTANTS
    NumChunks = 2
    PagesPerChunk = 2
    LazyfreeChunks = 0
    AnonChunks = 2
    DiskChunks = 0
    LeftoverBytes = {}
    Key = {zero, k1}
    ZeroKey = zero
    Handle = {h1}
    TailValue = {1}
    IndexRange = 65536
    Absent = Absent
    NoKey = NoKey
    Garbage = Garbage
SPECIFICATION Spec
SYMMETRY Symmetry
CHECK_DEADLOCK FALSE
PROPERTY DropRemoves
