SPECIFICATION SyncSpec
CONSTANTS
    PacketLen = 3
    SyncCount = 2
    Scenarios <- MCScenarios
INVARIANTS
    RemainFits
    NoOverlap
    CleanDelivered
    Resyncs
