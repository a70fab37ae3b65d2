SPECIFICATION FairSpec
CONSTANTS
  NumSignals = 3
  PassThrough = {3}
  Pings = {2}
  MaxRestarts = 2
INVARIANTS Accounted PassThroughNeverQueued
PROPERTIES SendReturns RestartEnds
CHECK_DEADLOCK FALSE
