SPECIFICATION Spec
CONSTANTS
  Tasks = {a}
  Inner = {}
  None = None
PROPERTY MainStops
CHECK_DEADLOCK FALSE
