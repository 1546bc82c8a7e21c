CONSTANTS
    NumChunks = 2
    PagesPerChunk = 2
    LazyfreeChunks = 1
    AnonChunks = 0
    DiskChunks = 1
    LeftoverBytes = {1}
    Key = {k1, k2}
    ZeroKey = zero
    Handle = {h1, h2}
    TailValue = {0, 1}
    IndexRange = 65536
    Absent = Absent
    NoKey = NoKey
    Garbage = Garbage
SPECIFICATION Spec
SYMMETRY Symmetry
CHECK_DEADLOCK FALSE
INVARIANTS TypeOK FreeListsSound OwnersSound MapSound FreePagesCounted NoDoubleDrop ValidLockIsCurrent WriteLockExclusive EvictsExactlyWhenFull
PROPERTY ImplementsMap
