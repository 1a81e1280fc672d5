SPECIFICATION FairSpec
CONSTANTS
  None = None
  Conns = {1, 2}
  Ids = {i1, i2}
  Payloads = {small, large}
  Large = {large}
  StripeOf <- OneStripe
  MaxConnections = 2
  MaxInflight = 2
  MaxInflightPerConnection = 1
  CacheCapacity = 1
  CacheTtl = 1
  MaxFrames = 3
  MaxClock = 1
CHECK_DEADLOCK FALSE
INVARIANT AnswersAreOwn
PROPERTIES RetriesRunOnce AcceptedIsCompleted WorkEnds
