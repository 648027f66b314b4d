SPECIFICATION FairSpec
CONSTANTS
    Workers = {svnetd}
    Debuggers = {reader}
    Users = {}
    MaxRetry = 1
    MaxOps = 2
    CpMails = {"REQ_SEM", "RES_SEM", "DATA"}
    MmapFails = FALSE
    CpRetries = FALSE
PROPERTIES
    RequestHonoured
