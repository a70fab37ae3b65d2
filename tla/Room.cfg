SPECIFICATION RoomFairSpec
CONSTANTS
  MaxSessions = 2
  MaxAttempts = 3
  MaxFaults = 2
  HasTracks = TRUE
INVARIANTS ApiUsesLatest InstalledServed ResumesServedSession RoomAgrees
PROPERTIES EscalationSticks ImplementsLifecycle ReconnectionEnds ClosedIsTold RoomNotStuck
CHECK_DEADLOCK FALSE
