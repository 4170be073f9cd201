SPECIFICATION Spec
CONSTANTS
  A = A
  B = B
  C = C
  Loopers = {A, B}
  Threads = {t}
  TlsLoopers = {s}
  None = None
  Parent <- Unrelated
  Timed = {}
  PostKinds = {"user", "quit"}
  MaxMsg = 3
  MaxCallbacks = 0
  SockCap = 1
  RecvMax = 1
CHECK_DEADLOCK FALSE
INVARIANT SenderValidAtWakeup
