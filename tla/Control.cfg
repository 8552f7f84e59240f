\* Two planes that hold tokens of two kinds, a client other programs change
\* twice, two writers of one configuration, two callers with one hub, and two
\* changes of skills with two waits for them.
CONSTANTS
  MaxVersion = 3
  Poll = 1
  Timeout = 4
  Waits = {None, 2, 3, 9}
  Planes = {p1, p2}
  ApiTokens = {t1, t2}
  Sessions = {s1}
  Codes = {d1}
  Natives = {n1}
  Interval = 1
  SlowDown = 1
  SignInTimeout = 2
  SignInCalls = 4
  MaxSlow = 1
  Writers = {w1, w2}
  Leaves = {l1, l2}
  Exact = {a}
  Inexact = {x}
  Attempts = 3
  MaxRevision = 4
  Callers = {c1, c2}
  Blank = Blank
  RequestVersions = 2
  RequestCalls = 2
  SkillPoll = 2
  Timeouts = {0, 1, 3}
  MaxTime = 5
  MaxWaits = 2
  MaxChanges = 2
  None = None
SPECIFICATION ControlSpec
INVARIANT UnwantedGoneOrTold
INVARIANT WaitsAreTrue
INVARIANT NoLostUpdate
INVARIANT DoneOnce
PROPERTY TokensAreTrue
CHECK_DEADLOCK FALSE
