SPECIFICATION FairSpec
CONSTANTS
    MaxCalls = 2
    MaxHandle = 1
    InCap = 3
    OutCap = 2
    MaxFaults = 2
INVARIANTS AnswerComing PublishedOrAsked
PROPERTIES PublishReturns EndedIsUnpublished
CHECK_DEADLOCK FALSE
