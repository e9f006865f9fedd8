SPECIFICATION PSpec
CONSTANTS
    MAX_PROC = 2
    MAX_FILE_DESCRIPTOR = 5
    FILENAME_LEN = 3
    Directory <- MCDirectory
    length_of_file <- MCLength
    Cut = {2}
    Names <- MCNames
    StdinNames <- MCStdinNames
    StdoutNames <- MCStdoutNames
    Requests = {1, 4}
    LineCounts = {1}
    AlmostNames <- MCAlmost
    SBUFSIZE = 4
    CatBuffer = 2
    BUFSIZE = 3
    TextChars = {"a", "b", "NEWLINE", "NUL"}
    Pattern <- MCPattern
INVARIANTS PTypeOK SyserrPasses WritesWhatIsThere GrepPrintsMatches
PROPERTY ProgramsEnd
