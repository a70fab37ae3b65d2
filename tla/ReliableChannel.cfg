SPECIFICATION FairSpec
CONSTANTS
    MaxPackets = 3
    Threshold = 0
    MaxFaults = 1
INVARIANTS OrderedUntilResume ReplayCovers
PROPERTIES PublishReturns
CHECK_DEADLOCK FALSE
