\* A setter locks an object whose inline count is at its limit.
SPECIFICATION Spec
CONSTANTS
  Threads = {t1}
  Setters = {t1}
  Half = 2
  Uses = {{"setters"}}
  MaxHeld = 3
  SetterHeld = 3
  None = None
INVARIANTS NoFalseOverResume
CHECK_DEADLOCK FALSE
