SPECIFICATION FairSpec
CONSTANTS
    Main = main
    Unknown = unknown
    Locks = {main, modem, alarm, unknown}
    TimerLocks = {}
    MaxTimeout = 2
    UnknownTime = 1
    MaxOps = 4
    MaxFaults = 2
INVARIANTS
    TypeOK
    NoSleepWhenLocked
    TimerCovers
    SuspendOnItsWay
PROPERTIES
    SleepsAgain
