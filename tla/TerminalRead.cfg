SPECIFICATION Spec
CONSTANTS
    BUFFERSIZE = 4
    NUM_COLS = 2
    TabWidth = 2
    MaxTyped = 4
    MaxEnters = 2
INVARIANTS
    TypeOK
    DeliveredInOrder
    CompleteLine
    EnterPerRead
PROPERTY EnterEndsRead
CHECK_DEADLOCK FALSE
