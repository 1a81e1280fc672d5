SPECIFICATION Spec
CONSTANTS
  None = None
  Never = Never
  Keys = {k1}
  Texts = {t1}
  Durations = {1, 2}
  Drafts <- TimerDrafts
  Updates <- TimerUpdates
  LimitsSet <- TimerLimits
  CloseReasons = {"Dismissed", "RenderFailed"}
  MaxSubmits = 2
  MaxTime = 2
  MaxJumps = 2
INVARIANTS TypeOK PinHasHolder
PROPERTIES TimeoutsAreExact PlacesAreKept
