SPECIFICATION FairSpec
CONSTANTS
  None = None
  d1 = d1
  d2 = d2
  toast = toast
  modal = modal
  other = other
  Displays = {d1, d2}
  Contents = {toast, modal, other}
  ContentsOf <- MCContentsOf
  Modal = {modal, other}
  MaxSessions = 1
  ChannelCapacity = 1
  MaxPendingFrames = 1
  MaxMessagesPerTick = 1
  MaxGenerations = 2
  MaxEvents = 3
CHECK_DEADLOCK FALSE
INVARIANTS SessionsAreExact StreamsAreTrue
PROPERTY DisplaysSettle
