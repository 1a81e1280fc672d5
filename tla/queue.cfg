SPECIFICATION Spec
CONSTANTS
  None = None
  Never = Never
  Keys = {k1}
  Texts = {t1}
  Durations = {1, 2}
  Drafts <- QueueDrafts
  Updates <- QueueUpdates
  LimitsSet <- QueueLimits
  CloseReasons = {"Dismissed"}
  MaxSubmits = 4
  MaxTime = 0
  MaxJumps = 1
INVARIANTS IndexesExact QueuesInOrder
PROPERTIES RanksDecide RevisionFollowsPlan CloseRecordKept ImplementsLifecycle
