SPECIFICATION Spec
CONSTANTS
    Units = {u1, u2}
    Base <- SameBase
    Files = {f1, f2}
    MaxCards = 3
    MaxDevices = 2
    Nobody = Nobody
INVARIANTS
    CardRefsExact
    BackendAlive
    PowerEndsWithSession
PROPERTIES
    OpensTheReaderAskedFor
    RemovalCompletes
