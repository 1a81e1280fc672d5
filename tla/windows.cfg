SPECIFICATION FairSpec
CONSTANTS
  Windows = {w1, w2}
  Ids = {n1, n2}
  Contents = {toast, modal}
  Modal = {modal}
  Capacities = {0, 2}
  Styles = {animated, plain}
  Animated = {animated}
  MaxAttempts = 2
  MaxChanges = 1
  MaxFailures = 1
INVARIANT PausedWhileDisconnected
PROPERTIES EnterOnlyWhenNew FailuresAreLocal Converges
