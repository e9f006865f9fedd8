SPECIFICATION Spec
CONSTANTS
    BASE = 4
    Frequencies = {2}
INVARIANT OpenKeepsClock
