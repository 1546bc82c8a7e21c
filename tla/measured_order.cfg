CONSTANTS
    NumChunks = 2
    PagesPerChunk = 2
    LazyfreeChunks = 2
    AnonChunks = 0
    DiskChunks = 0
    LeftoverBytes = {}
    Key <- TestKeys
    ZeroKey = 0
    Handle = {lock}
    lock = lock
    TailValue = {0, 1}
    IndexRange = 65536
    NumEntries = 4
    SmokeTestCnt = 2
    WarmUpGets = 4
    HotCnt = 3
    ColdCnt = 1
    JunkCnt = 1
    Suites = {"hot_cold"}
SPECIFICATION TestSpec
CHECK_DEADLOCK FALSE
INVARIANT MeasuredOnce
