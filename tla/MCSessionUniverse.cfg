SPECIFICATION SessionSpec
CONSTANTS
  Tickers <- MCTickers
  Default <- MCDefault
  OneOffs <- MCOneOffs
  MAX_STARTS = 3
  MAX_FAILURES = 2
INVARIANTS
  SettledUniverseIsSaved
PROPERTY PlainSessionsKeepSymbols
CHECK_DEADLOCK FALSE
