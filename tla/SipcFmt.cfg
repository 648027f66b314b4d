SPECIFICATION FairSpec
CONSTANTS
    Size = 16
    Ovh = 2
    TxMin = 1
    BlockMax = 11
    Lens = {1, 11, 24}
    Addrs = {a1, a2}
    NULL = NULL
    MaxPackets = 4
    MaxNoMem = 1
    MaxResets = 1
INVARIANTS
    TypeOK
    RingAgrees
    Intact
    InOrder
    BlocksFit
    BugNeedsLong
    RingAnnounced
PROPERTIES
    Delivered
CHECK_DEADLOCK FALSE
