SPECIFICATION Spec
CONSTANTS
    Mixed = Mixed
    Unset = Unset
    Chip = 0
    SwResetClears = TRUE
    Workloads <- MCWorkloads
    Tsids <- MCTsids
INVARIANT
    TunedAsAsked
    NoCableResidue
    NeighboursMatched
    CaptureExact
    LnbExact
    NullFilterRight
