CONSTANTS
  t1 = t1
  t2 = t2
  t3 = t3
  Threads = {t1, t2, t3}
  NoPort = NoPort
  DeadPort = DeadPort
  Orig = 1
  LongMax = 3
  Timeouts = {"now", "finite", "forever"}
SPECIFICATION LockSpec
CHECK_DEADLOCK FALSE
INVARIANTS Inv MutualExclusion
PROPERTIES DisposeTrapsIffUnbalanced AbsSpec EveryWaitReturns
