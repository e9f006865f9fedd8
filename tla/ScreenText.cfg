SPECIFICATION Spec
CONSTANTS
    NUM_ROWS = 3
    NUM_COLS = 2
    Chars = {"a"}
    KeysDuringOutput = TRUE
    Below = 0
INVARIANTS
    TypeOK
    ShowsText
