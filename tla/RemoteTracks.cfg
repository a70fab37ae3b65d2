SPECIFICATION Spec
CONSTANTS
    s1 = s1
    s2 = s2
    k1 = k1
    k2 = k2
    Subscribers <- MCSubscribers
    Tracks <- MCTracks
    InCap = 2
    OutCap = 2
    MaxSids = 2
    MaxHandles = 2
    MaxCalls = 2
    MaxNoise = 1
INVARIANTS RoutingSound PendingRequested CatalogAgrees DeadPipelineReleased CallsOwed
CHECK_DEADLOCK FALSE
