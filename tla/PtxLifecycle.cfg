SPECIFICATION Spec
CONSTANTS
    Openers = {o1, o2, o3}
    Receivers = {r1, r2}
    Nobody = Nobody
INVARIANTS
    TypeOK
    DriverUsesAlive
    MinorsHeldWhileOpen
PROPERTIES
    DisconnectCompletes
CHECK_DEADLOCK FALSE
