SPECIFICATION FairSpec
CONSTANTS
  Universes <- TenSymbols
  Symbols <- TenSymbolSet
  Outcomes = {"Provider"}
  INITIAL_FEED_REFRESH_BUDGET = 32
  MIN_STEADY_FEED_REFRESH_BUDGET = 16
  START_STEADY_FEED_REFRESH_BUDGET = 32
  MAX_STEADY_FEED_REFRESH_BUDGET = 64
  STEADY_STEP = 8
  MIN_FEED_FETCH_CONCURRENCY = 1
  START_FEED_FETCH_CONCURRENCY = 2
  MAX_FEED_FETCH_CONCURRENCY = 4
  MAX_RETRY_SYMBOLS_PER_CYCLE = 16
  FEED_RECOVERY_COOLDOWN_CYCLES = 3
  WEIGHTED_TARGET_REFRESH_BUDGET_PER_CYCLE = 8
  MAX_TICKS = 1
  MAX_FAILURES = 0
PROPERTY EveryTargetIsRefreshed
