\* Two callers, two attempts and a disconnect() of the lifecycle: the cleanup of
\* the first attempt, of the disconnect() and the second attempt may meet.  Two
\* processes share a store; two tasks send over two sessions.
CONSTANTS
  Callers = {c1, c2}
  Watchers = {}
  MaxAttempts = 2
  MaxDisconnects = 1
  HttpAttempts = 3
  HttpPolls = 3
  HttpEvents = 2
  ChunkSize = 2
  MaxReassembly = 6
  MaxLength = 7
  MaxMessages = 2
  Procs = {p1, p2}
  Nodes = {n1, n2}
  HubKeys = {k1, k2}
  StoreOps = 2
  StorePreseed = FALSE
  Senders = {s1, s2}
  SendsReader = SendsReader
  SendsFrames = 2
  SendsSessions = 2
  WssAttempts = 2
  MqttRequests = 1
  Receives = 1
  MqttFrames = 2
  MqttAttempts = 2
  MqttEvents = 2
  StreamCapacity = 1
  StreamEvents = 3
  Limits = {0, 1, 2}
  StreamLinks = 2
  Suites <- NoiseSuites
  MaxConnects = 2
  Readers = {"reader"}
  Writers = {"writer"}
  Sources = {"hub"}
  Hosts = {"a", "b"}
  Ttl = 0
  MaxFiles = 2
  MaxTime = 1
  None = None
  Cleanup = Cleanup
SPECIFICATION TransportSpec
INVARIANT NoOrphan
INVARIANT OnlyOwnLink
INVARIANT HealthIsReal
INVARIANT NoOrphanPeer
INVARIANT NoSilentGap
INVARIANT StoreAgrees
INVARIANT SendsAreWhole
INVARIANT NothingSkipped
INVARIANT NegotiationAgrees
PROPERTY DeliversInOrder
PROPERTY TellsWhy
PROPERTY PinIsKept
CHECK_DEADLOCK FALSE
