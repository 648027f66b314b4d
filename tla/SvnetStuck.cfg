SPECIFICATION FairSpec
CONSTANTS
    Room = 1
    RxRate = 0
    MaxTx = 1
    MaxMails = 1
    MaxIn = 1
    MaxOpens = 1
    Kinds = {"data"}
    Crashes = {}
PROPERTIES
    PacketsLeave
CHECK_DEADLOCK FALSE
