SPECIFICATION Spec
CONSTANTS
    Data = {a, b}
    Size = 3
    Threshold = 2
    MaxChunk = 2
    MaxRead = 2
    JoinReaders = FALSE
    SharedBus = FALSE
INVARIANTS
    ResetExclusive
CHECK_DEADLOCK FALSE
