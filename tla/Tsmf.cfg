SPECIFICATION Spec
CONSTANTS
    SlotNum = 3
    DetectPackets = 6
    StalePackets = 2
    TlvMax = 3
    MaxLost = 3
    MaxDamaged = 1
    Carriers <- MCCarriers
    Indexes <- MCIndexes
INVARIANT
    OutputSound
    TlvSound
PROPERTY
    WholeFrameOutput
    Decides
