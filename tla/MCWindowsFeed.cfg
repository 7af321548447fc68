SPECIFICATION Spec
CONSTANTS
  s1 = s1
  s2 = s2
  large = large
  small = small
  None = None
  Profiles = {large, small}
  Members <- MCMembers
  DefaultProfile = large
  ProfileLocked = FALSE
  PriceOnly = {s2}
  Instances <- MCInstances
  REFRESH_CONCURRENCY = 2
  MAX_RETRY_ROUNDS = 1
  MAX_GENERATION = 2
INVARIANTS
  NoStaleData
  StatusIsOfTheProfile
  MarkedPassIsComplete
  EnrolledOnce
PROPERTIES
  HistoryIsOfTheProfile
CHECK_DEADLOCK FALSE
