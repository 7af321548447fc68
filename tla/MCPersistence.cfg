SPECIFICATION FairSpec
CONSTANTS
  a = a
  b = b
  Symbols = {a, b}
  Batches <- MCBatches
  MAX_EVENTS = 3
  MAX_STARTS = 2
  MAX_INPUTS = 2
  MAX_TIMEOUTS = 2
  MAX_FAILURES = 1
INVARIANTS
  AckedIsCaptured
  CaughtUpIsStored
  CleanStopLosesNothing
PROPERTIES
  WarmStartSpec
  ShutdownCompletes
  WatchlistSettles
CHECK_DEADLOCK FALSE
