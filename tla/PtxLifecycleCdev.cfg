SPECIFICATION Spec
CONSTANTS
    Openers = {o1, o2}
    Receivers = {r1, r2}
    Nobody = Nobody
INVARIANTS
    CdevOutlivesFiles
CHECK_DEADLOCK FALSE
