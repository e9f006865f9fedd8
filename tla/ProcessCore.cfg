SPECIFICATION Spec
CONSTANTS
    MAX_PROC = 3
    MAX_FILE_DESCRIPTOR = 4
    Programs = {shell, cat}
    Shell = shell
    BadCommands = {absent}
    Arguments = {none, a}
    NoArgument = none
    Quiet = quiet
    Statuses = {0, 5, 31}
    BootRam = {FALSE}
INVARIANTS
    TypeOK
    TableIsPrefix
    OneRunningProcess
    ResumeChain
PROPERTIES
    WaitingUntouched
    ImplementsProcStack
