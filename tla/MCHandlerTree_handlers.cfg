SPECIFICATION Spec
CONSTANTS
  Handlers = {h1, h2}
  Threads = {t1, t2}
  Root = Root
  None = None
  TornUpdates = FALSE
  MaxLong = 1
  MaxInt = 1
  Timed = {h1}
  MaxTimers = 2
SYMMETRY Symmetry
INVARIANTS TypeOK OnDestroyOnce NoOrphan DestroyedIsWatched ParentOutlives NoTimerOfDead TimersStayHome TimerIdsUnique HeldIsReachable
CHECK_DEADLOCK FALSE
