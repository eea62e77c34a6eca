SPECIFICATION FairSpec
CONSTANTS
  e1 = e1
  e2 = e2
  Entries = {e1, e2}
  Modes <- AllModes
  InitialStates <- RestingStates
  MaxRequests = 1
  NoEntry = NoEntry
INVARIANTS TypeOK SuspendedIsIdle ReleasedClean ReleaseAwaitsRequests
PROPERTIES ReleaseFrees
CHECK_DEADLOCK FALSE
