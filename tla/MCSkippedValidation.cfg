\* Lazy acquisition with the global commit counter.
CONSTANTS
  Threads = {t1, t2}
  Objects = {o1, o2}
  NoThread = NoThread
  Modes <- LazyCounting
  MaxAttempts = 1
  MaxOpens = 2
  MaxOthers = 1
SPECIFICATION Spec
INVARIANT SkippedValidationIsSafe
CHECK_DEADLOCK FALSE
