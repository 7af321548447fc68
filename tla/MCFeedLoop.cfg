SPECIFICATION FairSpec
CONSTANTS
  Universes <- SmallUniverses
  Symbols <- SmallSymbols
  Outcomes = {"Provider", "Throttled", "Transient", "Hard"}
  INITIAL_FEED_REFRESH_BUDGET = 2
  MIN_STEADY_FEED_REFRESH_BUDGET = 1
  START_STEADY_FEED_REFRESH_BUDGET = 2
  MAX_STEADY_FEED_REFRESH_BUDGET = 2
  STEADY_STEP = 1
  MIN_FEED_FETCH_CONCURRENCY = 1
  START_FEED_FETCH_CONCURRENCY = 2
  MAX_FEED_FETCH_CONCURRENCY = 2
  MAX_RETRY_SYMBOLS_PER_CYCLE = 1
  FEED_RECOVERY_COOLDOWN_CYCLES = 2
  WEIGHTED_TARGET_REFRESH_BUDGET_PER_CYCLE = 1
  MAX_TICKS = 1
  MAX_FAILURES = 3
INVARIANTS
  TypeOK
  FailuresAreRetried
  WindowLeavesNoGap
PROPERTIES
  RecoveryIsSlow
  EverySymbolIsRefreshed
