SPECIFICATION Spec
CONSTANTS
  Clients = {c1, c2}
  Workers = {w1, w2}
  Width = 2
  Programs = {{"async", "barrier_async", "sync", "barrier_sync"}, {"barrier_sync", "apply", "suspend"}, {"async", "suspend"}}
  Suspenders = {c1}
  MaxOps = 2
  ApplyWidth = 1
  DQ = DQ
  None = None
INVARIANTS StateWordTruthful NothingLeftBehind
PROPERTIES AbsSpec
CHECK_DEADLOCK FALSE
