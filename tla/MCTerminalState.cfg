SPECIFICATION Spec
CONSTANTS
  I32_MIN <- MinBps
  I32_MAX <- MaxBps
  None = None
  Symbols = {AAPL, NVDA}
  StoredSymbols = {AAPL}
  Snapshots <- MCSnapshots
  Signals <- MCSignals
  Fundamentals = {fundamentals}
  MIN_GAP_BPS = 2000
  MAX_AGE_SECONDS = 30
  TAPE_CAPACITY = 2
  MAX_PRICE_HISTORY = 2
  MAX_SEQUENCE = 3
INVARIANTS
  JournalExplainsSymbols
  ScreenAgrees
  AlertsFollowQualification
  NumberingAgrees
  ThresholdIsExact
