CONSTANTS
  v2 = v2
  v3 = v3
  sp500 = sp500
  dow = dow
  qa = qa
  Models = {v2, v3}
  DefaultModel = v3
  Profiles = {sp500, dow, qa}
  DefaultProfile = sp500
  QaProfile = qa
  Starts <- MCStarts
  None = None

SPECIFICATION Spec
INVARIANTS ChoicesAreTold
PROPERTIES OldUniverseStaysCleared PublishedRowsFit RowsSettle
