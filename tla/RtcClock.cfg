SPECIFICATION Spec
CONSTANTS
    BASE = 8
    Frequencies <- AnyFrequencies
INVARIANTS
    TypeOK
    NeverLate
PROPERTIES
    RaisedOnTime
    ReadReturns
    NegativeStarves
CHECK_DEADLOCK FALSE
