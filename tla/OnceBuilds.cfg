CONSTANTS
  t1 = t1
  t2 = t2
  t3 = t3
  t4 = t4
  NoThread = NoThread
  DONE = DONE
  Threads = {t1, t2, t3, t4}
  Recursive = {t4}
SPECIFICATION BuildSpec
CHECK_DEADLOCK FALSE
INVARIANTS NoDeadNode BlockedHasWaker
PROPERTIES AbsSpec EveryCallReturns
