SPECIFICATION Spec
CONSTANTS
    Workers = {svnetd}
    Debuggers = {reader}
    Users = {user}
    MaxRetry = 1
    MaxOps = 2
    CpMails = {"REQ_SEM", "RES_SEM", "PHONE_START", "DATA"}
    MmapFails = TRUE
    CpRetries = TRUE
INVARIANTS
    TypeOK
    AccessUnderAuthority
PROPERTIES
    AuthSpec
