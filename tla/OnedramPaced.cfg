SPECIFICATION Spec
CONSTANTS
    Workers = {svnetd}
    Debuggers = {}
    Users = {}
    MaxRetry = 1
    MaxOps = 0
    CpMails = {"REQ_SEM", "RES_SEM", "PHONE_START", "DATA"}
    MmapFails = FALSE
    CpRetries = TRUE
PROPERTIES
    SendsArePaced
