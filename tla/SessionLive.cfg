\* The ladder 1, 2, 4, 5, 5, ... of the supervisor: like the default 10 s .. 120
\* s, its ceiling is not a doubling of its first step.  The clock allows two
\* whole graces and a climb past the ceiling.  The
\* run() of two graces; the bounds of the session are in the module.
CONSTANTS
  Retry = 1
  Ceiling = 5
  Grace = 4
  Horizon = 9
  RunRetry = 1
  RunCeiling = 2
  RunGrace = 2
  RunHorizon = 2
  Callers = {c1}
  Warmers = {w1}
  None = None
SPECIFICATION LiveSpec
PROPERTY GraceIsExact
PROPERTY StaleLookIsHarmless
PROPERTY CloseEndsRun
PROPERTY DropRedialledAtOnce
PROPERTY OperationsEnd
PROPERTY EventsReachBus
CHECK_DEADLOCK FALSE
