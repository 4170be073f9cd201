SPECIFICATION Spec
CONSTANTS
  Timers = {p, q}
  OneShot = {q}
  Intervals = {0, 3, 6}
  SIZE1 = 2
  SIZE2 = 2
  WHEEL_NUM = 3
  MaxTime = 9
INVARIANTS TypeOK ListedIsMapped NoOverdueTimer ShortSleepIsSafe
CHECK_DEADLOCK FALSE
PROPERTY EarlyByLessThanLag
