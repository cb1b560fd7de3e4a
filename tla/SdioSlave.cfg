SPECIFICATION MCSpec
CONSTANTS
    Bufs = {1, 2, 3}
    NoBuf = 0
    RxSize = 3
    MaxLen = 10
    MaxBytes = 14
    SlowHost = TRUE
INVARIANTS
    TypeOK
    BuffersConserved
    TailsRight
    NeverWedged
PROPERTIES
    Delivered
    StreamSpec
CHECK_DEADLOCK FALSE
