SPECIFICATION FairSpec
CONSTANTS
    Workers = {svnetd}
    Debuggers = {}
    Users = {user}
    MaxRetry = 1
    MaxOps = 1
    CpMails = {"REQ_SEM", "RES_SEM", "DATA"}
    MmapFails = FALSE
    CpRetries = TRUE
INVARIANTS
    RefCounts
PROPERTIES
    CpServed
