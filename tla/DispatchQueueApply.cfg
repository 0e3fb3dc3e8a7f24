SPECIFICATION Spec
CONSTANTS
  Clients = {c1, c2}
  Workers = {w1, w2}
  Width = 2
  Programs = {{"async", "apply"}}
  Suspenders = {}
  MaxOps = 2
  ApplyWidth = 1
  DQ = DQ
  None = None
INVARIANTS NeverStranded
CHECK_DEADLOCK FALSE
