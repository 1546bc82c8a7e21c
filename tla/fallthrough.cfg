CONSTANTS
    NumChunks = 2
    PagesPerChunk = 1
    LazyfreeChunks = 1
    AnonChunks = 0
    DiskChunks = 1
    LeftoverBytes = {}
    Key = {k1, k2, k3}
    ZeroKey = zero
    Handle = {lock}
    lock = lock
    TailValue = {0, 1}
    IndexRange = 65536
SPECIFICATION FtSpec
CHECK_DEADLOCK FALSE
INVARIANTS FtTypeOK FreshAnswer ExitsOnlyOnLoss
PROPERTIES ResidentHits CallsReturn
