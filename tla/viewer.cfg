SPECIFICATION FairViewer
CONSTANTS
  None = None
  Daemons = {}
  Readers = {"ui", "cli"}
  Ui = "ui"
  ServerOf <- TwoServers
  LimitOf <- TenThousand
  Origin <- TwoOrigins
  Sourceless <- NoneSourceless
  Matching <- OneMatches
  HiddenBefore <- TheOldest
  MaxIds = 2
  QueueCapacity = 1
  MaxAttempts = 2
  MaxCrashes = 0
  MaxQuestions = 1
  ActionCapacity = 1
  MaxKeys = 4
CHECK_DEADLOCK FALSE
INVARIANT ListIsTrue
PROPERTIES KeysMeanWhatIsSeen EditsAreDecided
