SPECIFICATION Spec
CONSTANTS
  None = None
  Daemons = {"d1", "d2"}
  Readers = {"r1"}
  ServerOf <- OneReaderServers
  LimitOf <- MixedLimits
  MaxIds = 2
  QueueCapacity = 2
  MaxAttempts = 1
  MaxCrashes = 1
  MaxQuestions = 1
CHECK_DEADLOCK FALSE
INVARIANT LiveRowsAreTrue
PROPERTIES RetentionIsFair RecordsStand
