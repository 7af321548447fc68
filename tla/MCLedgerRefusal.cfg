SPECIFICATION Spec
CONSTANTS
  amzn = amzn
  goog = goog
  v1 = v1
  v2 = v2
  None = None
  NoCommand = NoCommand
  Securities = {amzn, goog}
  Tickers = {"AMZN", "amzn", "GOOG"}
  Upper <- MCUpper
  Bundles <- MCBundles
  Revisions <- MCRevisions
  Commands <- AmznCommands
  Importers = {1}
  MAX_FAILURES = 0
PROPERTY TrustedRefusalInvalidates
