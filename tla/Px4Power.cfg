SPECIFICATION Spec
CONSTANTS
    Receivers = {0, 1, 2}
    Mode = "S_ONLY"
    CardUnits = {0}
INVARIANTS
    TypeOK
    KeepsPower
    PowerJustified
    RefsExact
    Initialised
    InterlockHeld
