SPECIFICATION Spec
CONSTANTS
  A = A
  B = B
  C = C
  Loopers = {A, B}
  Threads = {t}
  TlsLoopers = {s}
  None = None
  Parent <- Unrelated
  Timed = {}
  PostKinds = {"user"}
  MaxMsg = 3
  MaxCallbacks = 0
  SockCap = 3
  RecvMax = 2
INVARIANTS TypeOK AwaitedIsPending NoLostRing NoStrandedSender
PROPERTY ImplementsMailbox
CHECK_DEADLOCK FALSE
