SPECIFICATION FairSpec
CONSTANTS
  acme = acme
  V = V
  d1 = d1
  d2 = d2
  auditor = auditor
  None = None
  Symbols = {acme, V}
  PaymentNetworks = {V}
  Texts = {"operating", "financial", "missing"}
  Instances <- MCInstances
  DemandWorkers = {d1, d2}
  Auditor = auditor
  MAX_VERSION = 2
  MAX_QUOTES = 1
  MAX_GENERATION = 2
INVARIANTS
  ValuationFits
  InflightHasWorker
PROPERTIES
  FailureKeepsValues
  AskedIsAnswered
CHECK_DEADLOCK FALSE
