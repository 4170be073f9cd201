SPECIFICATION Spec
CONSTANTS
  Clients = {c, s}
  Accepted = {s}
  Server = Server
  None = None
  Names = {n}
  Ips = {i}
  MaxConnects = 2
  Nesting = FALSE
INVARIANTS TypeOK ConnectsToLatest NoStuckSend NothingLost BatchIsAlive RequestIsPolled
CHECK_DEADLOCK FALSE
