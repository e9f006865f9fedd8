SPECIFICATION Spec
CONSTANTS
    NUM_ROWS = 2
    NUM_COLS = 2
    Chars = {"a"}
    KeysDuringOutput = TRUE
    Below = 0
INVARIANT NeverBelowLastLine
