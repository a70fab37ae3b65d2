SPECIFICATION FairSpec
CONSTANTS
    MaxPackets = 3
    Threshold = 0
    MaxFaults = 2
INVARIANT RetryComplete
CHECK_DEADLOCK FALSE
