SPECIFICATION Spec
CONSTANTS
  amzn = amzn
  goog = goog
  v1 = v1
  v2 = v2
  None = None
  NoCommand = NoCommand
  Securities = {amzn, goog}
  Tickers = {"AMZN", "amzn", "GOOG"}
  Upper <- MCUpper
  Bundles <- MCBundles
  Revisions <- MCRevisions
  Commands <- MCCommands
  Importers = {1, 2}
  MAX_FAILURES = 1
INVARIANTS
  ProjectionIsAccountedFor
  RetiredOnce
  LineageIsWhole
PROPERTY ShownUntilSuperseded
