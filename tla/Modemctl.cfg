SPECIFICATION Spec
CONSTANTS
    Writers = {w1, w2}
    Debounce = 1
    WakeTime = 2
SYMMETRY SomeWriter
INVARIANTS
    TypeOK
    AwakeInDebounce
    SimKnown
    ChangeReported
    PhoneFollowed
PROPERTY
    LinesSettle
