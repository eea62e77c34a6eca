SPECIFICATION FairSpec
CONSTANTS
  e1 = e1
  e2 = e2
  Entries = {e1, e2}
  Modes <- WorkerModes
  InitialStates <- OneUploaded
  MaxRequests = 1
  NoEntry = NoEntry
PROPERTIES ReleaseUnloads
CHECK_DEADLOCK FALSE
