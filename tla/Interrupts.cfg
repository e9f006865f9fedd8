SPECIFICATION Spec
CONSTANTS
    Keyboard = {42, 170, 54, 182, 58, 29, 157, 38, 2, 28, 156, 57}
    QueueSize = 2
    MaxNesting = 2
    BASE = 1024
    Frequencies = {0, 2, 2000}
INVARIANTS TypeOK InServiceIsRunning NotReentered NeverDeaf TypesWhatIsPressed
PROPERTIES KeysAreRead TicksAreRead
