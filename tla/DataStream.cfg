SPECIFICATION FairSpec
CONSTANTS
    MaxWrites = 3
    Totals <- MCTotals
    MaxCancels = 1
    MaxFaults = 1
INVARIANTS ReadInOrder LengthKept NormalEndIsWhole
PROPERTIES ReaderEnds
CHECK_DEADLOCK FALSE
