SPECIFICATION Spec
CONSTANTS
    PageSize = 3
    HeadByte = {0, 2}
    TailByte = {0, 1, 2}
    MaxEnd = 4
INVARIANTS
    TypeOK
    LivePageIntact
    AcceptedReadIsPayload
    WriterKeepsPage
    NoLockFailures
PROPERTY
    LossIsReclaim
CHECK_DEADLOCK FALSE
