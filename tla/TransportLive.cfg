\* One caller who connects and one who waits in stopped(); the bounds of the
\* other components are in the module.
CONSTANTS
  Callers = {c1}
  Watchers = {w1}
  MaxAttempts = 1
  MaxDisconnects = 1
  None = None
  Cleanup = Cleanup
SPECIFICATION LinksSpec
PROPERTY CancelledLinksClose
PROPERTY StopIsHeard
PROPERTY EndReleasesConnect
PROPERTY DeadLinkIsTold
CHECK_DEADLOCK FALSE
