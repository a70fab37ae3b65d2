SPECIFICATION Spec
CONSTANTS
    MaxFrames = 3
    Sizes <- MCSizes
    SeqMod = 4
    FrameMod = 3
    QueueCap = 1
    Threshold = 1
    MaxBuffer = 2
    PartialLimits <- MCPartialLimits
    PacketCap = 2
    FrameCap = 1
    MaxFaults = 1
    OpenLate = TRUE
INVARIANTS NeverOvercommitted FrameIntegrity InOrder IntactIsDelivered
CHECK_DEADLOCK FALSE
