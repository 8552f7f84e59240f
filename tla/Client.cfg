\* Two operations that may use one id, four session ids for two conversations,
\* two requests of the hub.
CONSTANTS
  Requests = {r1, r2}
  Timeout = 2
  Bound = 3
  MaxTime = 5
  Ops = {o1, o2}
  Ids = {i1, i2}
  ReplyTimeout = 3
  EmptyWait = 2
  Settle = 1
  Grace = 1
  Ring = 1
  MaxStart = 0
  ReplyTime = 3
  MaxEvents = 2
  SessionIds = {s1, s2, s3, s4}
  Carries = {Nothing, f1, f2}
  Nothing = Nothing
  MaxConversations = 2
  MaxAliases = 2
  MaxTurns = 3
  Wanted <- ThreeKeys
  Batch = 2
  Deadline = 2
  Capacity = 2
  MaxCopies = 2
  Asked <- CanadianAndAmerican
  Tags <- HubTags
  Usual <- UsualForms
  Language <- LanguageOf
  Distance <- LocaleDistance
  Languages = {"en-US", "fr-FR"}
  Sentences = {"s1", "s2"}
  MaxRows = 3
  None = None
SPECIFICATION ClientSpec
SYMMETRY Symmetry
INVARIANT OneAnswerInContract
INVARIANT AnswersAreTrue
INVARIANT DescribedByOwn
INVARIANT ListingIsSteady
PROPERTY NothingStartedLate
PROPERTY RefusalNotStolen
PROPERTY OneMemory
CHECK_DEADLOCK FALSE
