SPECIFICATION Spec
CONSTANTS
    Letters = {"c", "t"}
    LineMax = 5
    MAX_BUFFER_UPPER = 5
    SIZE_OF_NAME = 1
    ARG_UPPER = 1
    ARG_NUM = 4
    Inode <- MCInode
    Content <- MCContent
    Exit <- MCExit
    Counts = {1, 4}
INVARIANTS TypeOK ArgumentAsTyped RefusedForAReason
