SPECIFICATION Spec
CONSTANTS
  None = None
  Never = Never
  Cleanup = Cleanup
  Keys = {k1}
  Texts = {t1, t2}
  Durations = {1}
  Clients = {c1}
  Renderers = {r1}
  Commands <- AttentionCommands
  LimitsSet <- OneLimit
  MaxSubmits = 2
  MaxTime = 1
  MaxReloads = 0
  HistoryCapacity = 2
INVARIANT JumpIsDecided
