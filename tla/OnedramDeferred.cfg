SPECIFICATION FairSpec
CONSTANTS
    Workers = {svnetd}
    Debuggers = {}
    Users = {user}
    MaxRetry = 1
    MaxOps = 1
    CpMails = {"REQ_SEM", "RES_SEM", "PHONE_START", "DATA"}
    MmapFails = FALSE
    CpRetries = FALSE
PROPERTIES
    CpServed
