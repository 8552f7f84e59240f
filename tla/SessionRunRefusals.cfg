\* Another caller builds a link while run() waits.
CONSTANTS
  Retry = 1
  Ceiling = 2
  Grace = 2
  Horizon = 4
  None = None
SPECIFICATION Spec
PROPERTY RefusalsLastedGrace
CHECK_DEADLOCK FALSE
