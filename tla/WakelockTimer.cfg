SPECIFICATION Spec
CONSTANTS
    Main = main
    Unknown = unknown
    Locks = {main, modem, alarm, unknown}
    TimerLocks = {alarm}
    MaxTimeout = 2
    UnknownTime = 1
    MaxOps = 4
    MaxFaults = 0
INVARIANTS
    NoSleepWhenLocked
