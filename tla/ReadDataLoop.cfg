SPECIFICATION Spec
CONSTANTS
    FOUR_KB = 2
    TableSize = 2
    inode_count = 1
    data_count = 2
    MaxRequest = 5
INVARIANTS
    TypeOK
    ReadsTheFile
    FailsForAReason
CHECK_DEADLOCK FALSE
