CONSTANTS
  t1 = t1
  t2 = t2
  t3 = t3
  Lockers = {t1, t2, t3}
  None = None
SPECIFICATION FairLockSpec
CHECK_DEADLOCK FALSE
INVARIANTS LockInv
PROPERTIES FailedTrylockReported BlockedAreServed
