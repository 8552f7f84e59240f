\* One connect over a pinned or an unknown hub.
CONSTANTS
  MaxAttempts = 1
SPECIFICATION Spec
PROPERTY RefusalReported
CHECK_DEADLOCK FALSE
