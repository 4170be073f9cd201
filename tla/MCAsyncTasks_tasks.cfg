SPECIFICATION Spec
CONSTANTS
  Tasks = {a, b, c, d}
  Inner = {d}
  None = None
INVARIANTS TypeOK NoTaskLeft
PROPERTIES ImplementsSerial OneLooper QuitStops
CHECK_DEADLOCK FALSE
