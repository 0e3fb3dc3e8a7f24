CONSTANTS
  t1 = t1
  t2 = t2
  t3 = t3
  c1 = c1
  c2 = c2
  NULL = NULL
  Threads = {t1, t2, t3}
  Conts = {c1, c2}
  Casts = {{t1, t2, c1}, {c1, c2}}
  LongMax = 2
  Timeouts = {"now", "finite", "forever"}
SPECIFICATION FairSpec
CHECK_DEADLOCK FALSE
INVARIANTS Accounting NoUseAfterDispose NothingLeftBehind NotifyAtMostOnce
PROPERTIES EverythingServed
