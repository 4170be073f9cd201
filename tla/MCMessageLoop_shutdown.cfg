SPECIFICATION FairSpec
CONSTANTS
  A = A
  B = B
  C = C
  Loopers = {A, B}
  Threads = {t}
  TlsLoopers = {s}
  None = None
  Parent <- Chain
  Timed = {A}
  PostKinds = {"user", "quit"}
  MaxMsg = 2
  MaxCallbacks = 1
  SockCap = 1
  RecvMax = 1
INVARIANTS StoppedIsDrained AwaitedIsPending ChildrenFirst
PROPERTIES ImplementsMailbox SendReturns
CHECK_DEADLOCK FALSE
