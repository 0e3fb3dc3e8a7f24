SPECIFICATION Spec
CONSTANTS
  Clients = {c1, c2}
  Workers = {w1, w2}
  Width = 1
  Programs = {{"async", "suspend"}}
  Suspenders = {c1, c2}
  MaxOps = 2
  ApplyWidth = 1
  DQ = DQ
  None = None
INVARIANTS NeverStranded
CHECK_DEADLOCK FALSE
