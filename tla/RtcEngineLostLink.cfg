SPECIFICATION FairSpec
CONSTANTS
  MaxSessions = 3
  MaxAttempts = 2
  MaxFaults = 2
PROPERTIES
  LostLinkRecovers
CHECK_DEADLOCK FALSE
