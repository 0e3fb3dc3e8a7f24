\* A source is resumed and activated while a third thread sets a handler.
SPECIFICATION Spec
CONSTANTS
  Threads = {t1, t2, t3}
  Setters = {t1}
  Half = 4
  Uses = {{"source", "setters"}}
  MaxHeld = 1
  SetterHeld = 1
  None = None
INVARIANTS SetterExcludesActivation
CHECK_DEADLOCK FALSE
