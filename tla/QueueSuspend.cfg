\* Three threads and an inline count of six values: transfers to and from the side
\* count, with other threads in between; or a setter that locks the object.
SPECIFICATION Spec
CONSTANTS
  Threads = {t1, t2, t3}
  Setters = {t1}
  Half = 3
  Uses = {{"source"}, {"setters"}}
  MaxHeld = 3
  SetterHeld = 1
  None = None
INVARIANTS CountConserved ResumedMeansRunnable SetterExcludesActivation
CHECK_DEADLOCK FALSE
