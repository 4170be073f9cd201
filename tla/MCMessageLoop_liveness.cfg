SPECIFICATION FairSpec
CONSTANTS
  A = A
  B = B
  C = C
  Loopers = {A, B}
  Threads = {}
  TlsLoopers = {}
  None = None
  Parent <- Chain
  Timed = {B}
  PostKinds = {"quit"}
  MaxMsg = 2
  MaxCallbacks = 2
  SockCap = 1
  RecvMax = 1
PROPERTIES SendReturns QuitCompletes
CHECK_DEADLOCK FALSE
