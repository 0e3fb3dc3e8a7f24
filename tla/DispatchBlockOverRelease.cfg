CONSTANTS
  t1 = t1
  t2 = t2
  t3 = t3
  Threads = {t1, t2, t3}
  MaxRuns = 1
  MaxWaits = 2
  MaxNotes = 1
SPECIFICATION Spec
CHECK_DEADLOCK FALSE
INVARIANTS NeverOverReleased
