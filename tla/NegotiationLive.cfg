SPECIFICATION FairSpec
CONSTANTS
    c1 = c1
    t1 = t1
    t2 = t2
    i1 = i1
    Callers <- MCCallers
    Tasks <- MCTasks
    Candidates <- MCCandidates
    MaxNeeds = 2
    MaxRestarts = 1
    MaxFaults = 1
INVARIANTS OneNegotiationTask DeferredKept
PROPERTIES AcceptedIsAnswered CandidateApplied
CHECK_DEADLOCK FALSE
