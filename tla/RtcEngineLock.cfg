SPECIFICATION FairSpec
CONSTANTS
  MaxSessions = 2
  MaxAttempts = 2
  MaxFaults = 2
PROPERTIES
  ReconnectTaskRuns
CHECK_DEADLOCK FALSE
