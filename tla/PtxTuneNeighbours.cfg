SPECIFICATION Spec
CONSTANTS
    Mixed = Mixed
    Unset = Unset
    Chip = 0
    SwResetClears = TRUE
    Workloads <- MCNeighbours
    Tsids <- MCTsids
INVARIANT
    AllNeighboursMatched
