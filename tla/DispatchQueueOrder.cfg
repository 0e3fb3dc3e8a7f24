SPECIFICATION Spec
CONSTANTS
  Clients = {c1, c2}
  Workers = {w1, w2}
  Width = 1
  Programs = {{"async", "sync"}}
  Suspenders = {}
  MaxOps = 2
  ApplyWidth = 1
  DQ = DQ
  None = None
INVARIANTS SubmissionOrder
CHECK_DEADLOCK FALSE
