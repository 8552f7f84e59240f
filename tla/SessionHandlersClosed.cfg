\* One handler, registered while the session is closed.
CONSTANTS
  Handlers = {h1}
  Callbacks = {}
  Relays = {r1}
  MaxEvents = 1
  None = None
SPECIFICATION Spec
INVARIANT ClosedOwnsNoTask
CHECK_DEADLOCK FALSE
