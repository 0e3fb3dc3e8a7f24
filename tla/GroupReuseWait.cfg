CONSTANTS
  t1 = t1
  t2 = t2
  c1 = c1
  NULL = NULL
  Threads = {t1, t2}
  Conts = {c1}
  Casts = {{t1, c1}}
  LongMax = 2
  Timeouts = {"forever"}
SPECIFICATION ReuseSpec
CHECK_DEADLOCK FALSE
PROPERTIES WaitSawEmpty
