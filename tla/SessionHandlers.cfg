\* Two handlers, one callback and two links: the relay of the first may still
\* dispatch when the second is up.
CONSTANTS
  Handlers = {h1, h2}
  Callbacks = {s1}
  Relays = {r1, r2}
  MaxEvents = 2
  None = None
SPECIFICATION Spec
SYMMETRY Symmetry
INVARIANT HandlersAreExact
PROPERTY CallbacksAlternate
CHECK_DEADLOCK FALSE
