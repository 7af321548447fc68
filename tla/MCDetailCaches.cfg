CONSTANTS
  s1 = s1
  day = day
  week = week
  SymbolOrder <- MCSymbolOrder
  RangeOrder <- MCRangeOrder
  Inputs = {a, b}
  NoInput = NoInput
  BACKGROUND_CHART_REQUEST_BUDGET_PER_CYCLE = 1
  MAX_FAILURES = 1
  MAX_QUEUED = 2

SPECIFICATION Spec
INVARIANTS RequestsAreUnderWay ChartsAgree AnalysisIsOfItsInput
PROPERTIES FreshChartsStay EveryChartArrives
