SPECIFICATION Spec
CONSTANTS
    Calls = {c1}
    ServerInfos <- MCServerInfos
    MaxFaults = 2
INVARIANTS Released RunAsTold TimeoutMeansNoAnswer
CHECK_DEADLOCK FALSE
