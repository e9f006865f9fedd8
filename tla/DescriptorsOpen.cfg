SPECIFICATION Spec
CONSTANTS
    MAX_PROC = 2
    MAX_FILE_DESCRIPTOR = 4
    Directory <- MCDirectory
    length_of_file <- MCLength
    Cut = {1}
    FILENAME_LEN = 2
    Names <- MCNames
    StdinNames <- MCStdinNames
    StdoutNames <- MCStdoutNames
    Requests = {1, 2}
INVARIANTS
    TypeOK
    UsableDescriptors
    EveryNameOnce
PROPERTY ImplementsHandles
