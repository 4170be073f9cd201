SPECIFICATION Spec
CONSTANTS
  Clients = {c, s}
  Accepted = {s}
  Server = Server
  None = None
  Names = {n1}
  Ips = {}
  MaxConnects = 1
  Nesting = TRUE
INVARIANT BatchIsAlive
CHECK_DEADLOCK FALSE
