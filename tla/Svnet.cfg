SPECIFICATION FairSpec
CONSTANTS
    Room = 1
    RxRate = 0
    MaxTx = 2
    MaxMails = 2
    MaxIn = 2
    MaxOpens = 2
    Kinds = {"data", "bad", "cmd"}
    Crashes = {"RESET", "EXIT"}
INVARIANTS
    TypeOK
    PacketsHaveWork
    StoppedHasWork
    EventsHaveWork
    RfsHasWork
PROPERTIES
    TxDrains
    RfsDrains
CHECK_DEADLOCK FALSE
