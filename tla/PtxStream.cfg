SPECIFICATION Spec
CONSTANTS
    Data = {a, b}
    Size = 3
    Threshold = 2
    MaxChunk = 2
    MaxRead = 2
    JoinReaders = TRUE
    SharedBus = FALSE
INVARIANTS
    NoSleepOverData
PROPERTIES
    ImplementsQueue
    ReadsReturn
CHECK_DEADLOCK FALSE
