SPECIFICATION FairSpec
CONSTANTS
    screen = screen
    touch = touch
    fb = fb
    Handlers <- MCHandlers
    Level <- MCLevel
INVARIANTS
    TypeOK
    SleepsOnRequest
    CallsAlternate
    HandlersAgree
    LevelOrder
    NothingOwed
PROPERTIES
    SleepComes
    ResumeComes
