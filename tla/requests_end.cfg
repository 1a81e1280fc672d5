SPECIFICATION FairSpec
CONSTANTS
  None = None
  Never = Never
  Cleanup = Cleanup
  Keys = {k1}
  Texts = {t1}
  Durations = {1}
  Clients = {c1}
  Renderers = {r1}
  Commands <- ActionCommands
  LimitsSet <- TwoLimits
  MaxSubmits = 2
  MaxTime = 0
  MaxReloads = 1
  HistoryCapacity = 1
PROPERTIES AllEnds SettingsApplied
