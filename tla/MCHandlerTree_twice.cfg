SPECIFICATION Spec
CONSTANTS
  Handlers = {h1}
  Threads = {t1}
  Root = Root
  None = None
  TornUpdates = TRUE
  MaxLong = 1
  MaxInt = 1
  Timed = {}
  MaxTimers = 0
INVARIANTS OnDestroyOnce
CHECK_DEADLOCK FALSE
