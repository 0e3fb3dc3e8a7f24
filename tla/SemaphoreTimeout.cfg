CONSTANTS
  t1 = t1
  t2 = t2
  t3 = t3
  Threads = {t1, t2, t3}
  NoPort = NoPort
  DeadPort = DeadPort
  Orig = 0
  LongMax = 3
  Timeouts = {"now", "forever"}
SPECIFICATION FairSpec
CHECK_DEADLOCK FALSE
PROPERTIES TimedWaitReturns
