\* Two callers that contend for the session, and two links that deliver more
\* events than the relay's buffer holds.
CONSTANTS
  Callers = {c1, c2}
  Warmers = {w1, w2}
  MaxLinks = 2
  MaxEvents = 2
  Buffer = 1
  Retry = 1
  Ceiling = 2
  None = None
SPECIFICATION Spec
SYMMETRY Symmetry
INVARIANT OneOwner
INVARIANT ClosedForGood
PROPERTY NoSilentSwap
PROPERTY BusInOrder
