CONSTANTS
  t1 = t1
  t2 = t2
  t3 = t3
  Threads = {t1, t2, t3}
  MaxRuns = 3
  MaxWaits = 2
  MaxNotes = 2
SPECIFICATION FairSpec
CHECK_DEADLOCK FALSE
INVARIANTS QueueBalanced CompletionSound
PROPERTIES EveryNotificationFires
