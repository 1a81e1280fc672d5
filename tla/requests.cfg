SPECIFICATION Spec
CONSTANTS
  None = None
  Never = Never
  Cleanup = Cleanup
  Keys = {k1}
  Texts = {t1, t2}
  Durations = {1}
  Clients = {c1, c2}
  Renderers = {r1}
  Commands <- AllCommands
  LimitsSet <- OneLimit
  MaxSubmits = 2
  MaxTime = 1
  MaxReloads = 0
  HistoryCapacity = 2
INVARIANTS HistoryIsTold PinLostOnlyByClock
PROPERTY ClientCloseIsFinal
SYMMETRY ClientSymmetry
