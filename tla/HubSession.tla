----------------------------- MODULE HubSession -----------------------------
(***************************************************************************)
(* A managed hub session: HubSession of src/session.rs.                    *)
(*                                                                         *)
(* Any number of tasks use one session: calls (ask, emit, reply), connect, *)
(* probe, the re-check run() makes of a held link, the single warm task,   *)
(* and close.  Each is an async function; a step here is what such a       *)
(* function does between two of its awaits, or between two critical        *)
(* sections another thread can enter in the middle of.  A caller may drop  *)
(* its future at any await (Cancel).  The relay of each link, a task of    *)
(* its own, forwards the link's events to the session's subscribers.       *)
(*                                                                         *)
(* A link is one client the factory built.  Links are numbered in the      *)
(* order they are built.  run()'s own loop is SessionRun; the handlers the *)
(* relay dispatches to are SessionHandlers.                                *)
(***************************************************************************)
EXTENDS Integers, FiniteSets

CONSTANTS
  Callers,    \* tasks that use the session
  Warmers,    \* tasks warm() may spawn
  MaxLinks,   \* bound: links the factory builds before it only fails
  MaxEvents,  \* bound: events one link delivers
  Buffer,     \* capacity of the transport's broadcast channel
  Retry,      \* policy.retry
  Ceiling,    \* policy.retry_ceiling
  None

Procs == Callers \cup Warmers
Links == 1 .. MaxLinks

ASSUME SessionAssumption ==
  /\ Callers \cap Warmers = {}
  /\ MaxLinks \in Nat /\ MaxEvents \in Nat /\ Buffer \in Nat \ {0}
  /\ Retry \in Nat \ {0} /\ Ceiling \in Nat /\ Retry <= Ceiling
  /\ None \notin Procs /\ None \notin Nat

VARIABLES
  pc, op, mine,     \* per task: its step, its operation, the client it builds
  lock,             \* the task that holds `held', or None
  client, retired,  \* Held.client and Held.retired
  closed,           \* Inner.closed
  hasClient,        \* Inner.has_client, as last announced
  warming,          \* Inner.warming
  quiet, retryWait, \* Retry: is retry.at in the future; retry.wait
  current,          \* the link whose generation is Events.generation, or None
  senderOpen,       \* Events.sender is Some
  status,           \* per link: unbuilt, alive, dead, or released (closed)
  abandoned,        \* links a cancelled task dropped without closing
  relay,            \* per link: its relay task
  sent, taken,      \* per link: events delivered, events its relay received
  bus,              \* what the session's subscribers saw last
  closeResult       \* history: none, or what the last close() returned

taskVars  == <<pc, op, mine, lock>>
heldVars  == <<client, retired, hasClient>>
flagVars  == <<closed, warming>>
retryVars == <<quiet, retryWait>>
busVars   == <<current, senderOpen, relay, sent, taken, bus>>
linkVars  == <<status, abandoned>>
vars == <<taskVars, heldVars, flagVars, retryVars, busVars, linkVars,
          closeResult>>

Operations == {"call", "connect", "probe", "recheck", "warm", "close"}

\* Steps at which a task waits for the lock or runs without it.
Outside == {"idle", "closing", "lock", "rewarm"}

\* Steps at which a task holds a client it has just built.
Building == {"dialed", "settle", "settled", "count"}

\* Steps at which a task holds the lock.
Inside == {"alive", "cleanPre", "close", "cleanPost", "establish",
           "cleanEst", "dial", "cleanLost", "cleanRefused", "operate"}
          \cup Building

\* The awaits: where a caller that drops its future stops the operation.
Awaits == {"lock", "alive", "cleanPre", "cleanPost", "cleanEst", "dial",
           "settle", "cleanLost", "cleanRefused", "operate"}

NoEvent == [link |-> 0, n |-> 0, kind |-> "none"]

Init ==
  /\ pc = [p \in Procs |-> "idle"]
  /\ op = [p \in Procs |-> "none"]
  /\ mine = [p \in Procs |-> None]
  /\ lock = None
  /\ client = None /\ retired = None /\ hasClient = FALSE
  /\ closed = FALSE /\ warming = FALSE
  /\ quiet = FALSE /\ retryWait = Retry
  /\ current = None /\ senderOpen = TRUE
  /\ status = [l \in Links |-> "unbuilt"]
  /\ abandoned = {}
  /\ relay = [l \in Links |-> "none"]
  /\ sent = [l \in Links |-> 0]
  /\ taken = [l \in Links |-> 0]
  /\ bus = NoEvent
  /\ closeResult = "none"

Alive(l) == status[l] = "alive"

HeldIsDead == client # None /\ ~Alive(client)

Step(p, from, to) ==
  /\ pc[p] = from
  /\ pc' = [pc EXCEPT ![p] = to]

(* The end of an operation that holds the lock: the guard is dropped.      *)
Finish(p) ==
  /\ pc' = [pc EXCEPT ![p] = "idle"]
  /\ op' = [op EXCEPT ![p] = "none"]
  /\ lock' = None
  /\ warming' = (warming /\ p \notin Warmers)

(* A step that ends the operation or goes on under the lock.               *)
GoOn(p, to) ==
  /\ pc' = [pc EXCEPT ![p] = to]
  /\ UNCHANGED <<op, lock, warming>>

(* A probe that found no client lets go of the lock before it warms.       *)
LetGo(p) ==
  /\ pc' = [pc EXCEPT ![p] = "rewarm"]
  /\ lock' = None
  /\ UNCHANGED <<op, warming>>

-----------------------------------------------------------------------------
(* Starting an operation, and the lock.                                    *)

Start(p, o) ==
  /\ p \in Callers
  /\ Step(p, "idle", IF o = "close" THEN "closing" ELSE "lock")
  /\ o \in {"call", "connect", "recheck", "close"}
  /\ op' = [op EXCEPT ![p] = o]
  /\ closed' = (closed \/ o = "close")
  /\ UNCHANGED <<mine, lock, heldVars, warming, retryVars, busVars, linkVars,
                 closeResult>>

(* close() takes the sender before it waits for the lock.                  *)
CloseSender(p) ==
  /\ Step(p, "closing", "lock")
  /\ senderOpen' = FALSE
  /\ UNCHANGED <<op, mine, lock, heldVars, flagVars, retryVars, current,
                 relay, sent, taken, bus, linkVars, closeResult>>

(* probe() never waits: a busy session, or a closed one, is left alone.    *)
Probe(p) ==
  /\ p \in Callers
  /\ lock = None /\ ~closed
  /\ Step(p, "idle", "alive")
  /\ op' = [op EXCEPT ![p] = "probe"]
  /\ lock' = p
  /\ UNCHANGED <<mine, heldVars, flagVars, retryVars, busVars, linkVars,
                 closeResult>>

(* warm(): its three guards, read before the task is spawned.              *)
MayWarm == ~closed /\ ~quiet /\ ~warming

Spawn(w) ==
  /\ pc[w] = "idle"
  /\ warming' = TRUE

Warm(w) ==
  /\ MayWarm
  /\ Spawn(w)
  /\ pc' = [pc EXCEPT ![w] = "lock"]
  /\ op' = [op EXCEPT ![w] = "warm"]
  /\ UNCHANGED <<mine, lock, heldVars, closed, retryVars, busVars, linkVars,
                 closeResult>>

(* The warm() a probe ends with, once it has let go of the lock.           *)
Rewarm(p) ==
  /\ pc[p] = "rewarm"
  /\ \/ /\ MayWarm
        /\ \E w \in Warmers :
             /\ Spawn(w)
             /\ pc' = [pc EXCEPT ![p] = "idle", ![w] = "lock"]
             /\ op' = [op EXCEPT ![p] = "none", ![w] = "warm"]
     \/ /\ ~MayWarm
        /\ pc' = [pc EXCEPT ![p] = "idle"]
        /\ op' = [op EXCEPT ![p] = "none"]
        /\ UNCHANGED warming
  /\ UNCHANGED <<mine, lock, heldVars, closed, retryVars, busVars, linkVars,
                 closeResult>>

Acquire(p) ==
  /\ lock = None
  /\ Step(p, "lock", IF op[p] = "close" THEN "close"
                     ELSE IF op[p] = "warm" THEN "establish" ELSE "alive")
  /\ lock' = p
  /\ UNCHANGED <<op, mine, heldVars, flagVars, retryVars, busVars, linkVars,
                 closeResult>>

-----------------------------------------------------------------------------
(* Letting go of a client.                                                 *)

(* drop_client, up to its cleanup: the generation moves on, the relay is   *)
(* aborted (it stops where it next awaits), the client is announced down   *)
(* and kept until it is closed.                                            *)
DropClient ==
  /\ current' = None
  /\ relay' = [l \in Links |->
               IF l = client /\ relay[l] = "idle" THEN "off" ELSE relay[l]]
  /\ client' = None
  /\ hasClient' = FALSE
  /\ retired' = IF client = None THEN retired ELSE client
  /\ UNCHANGED <<senderOpen, sent, taken, bus>>

(* cleanup: close the retired client.  It stays retired until that works.  *)
CleanupWorks ==
  /\ retired' = None
  /\ status' = [l \in Links |-> IF l = retired THEN "released" ELSE status[l]]

CleanupFails ==
  /\ retired # None
  /\ UNCHANGED <<retired, status>>

NextWait(w) == IF 2 * w <= Ceiling THEN 2 * w ELSE Ceiling

BackOff ==
  /\ quiet' = TRUE
  /\ retryWait' = NextWait(retryWait)

(* call, connect, probe and run()'s re-check first look whether the held   *)
(* client is alive.                                                        *)
LookAlive(p) ==
  /\ pc[p] = "alive"
  /\ \/ /\ HeldIsDead
        /\ DropClient
        /\ GoOn(p, IF op[p] = "recheck" THEN "cleanPost" ELSE "cleanPre")
     \/ /\ ~HeldIsDead
        /\ \/ /\ op[p] = "call" \/ (op[p] = "connect" /\ client = None)
              /\ GoOn(p, "establish")
           \/ /\ op[p] = "probe" /\ client = None
              /\ LetGo(p)
           \/ /\ op[p] = "recheck" \/ client # None
              /\ op[p] # "call"
              /\ Finish(p)
        /\ UNCHANGED <<heldVars, busVars>>
  /\ UNCHANGED <<mine, closed, retryVars, linkVars, closeResult>>

(* A dead client dropped before the operation: its cleanup comes first.    *)
CleanPre(p) ==
  /\ pc[p] = "cleanPre"
  /\ \/ /\ CleanupWorks
        /\ \/ /\ op[p] = "probe"
              /\ LetGo(p)
           \/ /\ op[p] # "probe"
              /\ GoOn(p, "establish")
     \/ /\ CleanupFails
        /\ Finish(p)
  /\ UNCHANGED <<mine, client, hasClient, closed, retryVars, busVars,
                 abandoned, closeResult>>

(* close() under the lock.                                                 *)
CloseDrops(p) ==
  /\ pc[p] = "close"
  /\ DropClient
  /\ GoOn(p, "cleanPost")
  /\ UNCHANGED <<mine, closed, retryVars, linkVars, closeResult>>

(* A client dropped at the end of an operation.                            *)
CleanPost(p) ==
  /\ pc[p] = "cleanPost"
  /\ \/ /\ CleanupWorks
        /\ closeResult' = IF op[p] = "close" THEN "ok" ELSE closeResult
     \/ /\ CleanupFails
        /\ closeResult' = IF op[p] = "close" THEN "failed" ELSE closeResult
  /\ Finish(p)
  /\ UNCHANGED <<mine, client, hasClient, closed, retryVars, busVars,
                 abandoned>>

-----------------------------------------------------------------------------
(* establish(): the held client, or a new one.                             *)

Establish_Unchecked(p) ==
  /\ pc[p] = "establish"
  /\ GoOn(p, "cleanEst")
  /\ UNCHANGED <<mine, heldVars, closed, retryVars, busVars, linkVars,
                 closeResult>>

Establish(p) ==
  /\ pc[p] = "establish"
  /\ \/ closed /\ Finish(p)
     \/ ~closed /\ GoOn(p, "cleanEst")
  /\ UNCHANGED <<mine, heldVars, closed, retryVars, busVars, linkVars,
                 closeResult>>

CleanEst_SkipsCleanup(p) ==
  /\ pc[p] = "cleanEst"
  /\ \/ client = None /\ GoOn(p, "dial")
     \/ client # None /\ op[p] = "call" /\ GoOn(p, "operate")
     \/ client # None /\ op[p] # "call" /\ Finish(p)
  /\ UNCHANGED <<mine, heldVars, closed, retryVars, busVars, linkVars,
                 closeResult>>

CleanEst_RedialsDead(p) ==
  /\ pc[p] = "cleanEst"
  /\ \/ /\ CleanupWorks
        /\ \/ (client = None \/ HeldIsDead) /\ GoOn(p, "dial")
           \/ client # None /\ ~HeldIsDead /\ Finish(p)
     \/ /\ CleanupFails
        /\ Finish(p)
  /\ UNCHANGED <<mine, client, hasClient, closed, retryVars, busVars,
                 abandoned, closeResult>>

(* No client is built while one is still to be closed.                     *)
CleanEst(p) ==
  /\ pc[p] = "cleanEst"
  /\ \/ /\ CleanupWorks
        /\ \/ client = None /\ GoOn(p, "dial")
           \/ client # None /\ op[p] = "call" /\ GoOn(p, "operate")
           \/ client # None /\ op[p] # "call" /\ Finish(p)
     \/ /\ CleanupFails
        /\ Finish(p)
  /\ UNCHANGED <<mine, client, hasClient, closed, retryVars, busVars,
                 abandoned, closeResult>>

(* The factory: a client, or an error.                                     *)
Dial(p) ==
  /\ pc[p] = "dial"
  /\ \/ \E l \in Links :
          /\ status[l] = "unbuilt"
          /\ \A k \in 1 .. l - 1 : status[k] # "unbuilt"
          /\ status' = [status EXCEPT ![l] = "alive"]
          /\ mine' = [mine EXCEPT ![p] = l]
          /\ GoOn(p, "dialed")
          /\ UNCHANGED retryVars
     \/ /\ BackOff
        /\ Finish(p)
        /\ UNCHANGED <<mine, status>>
  /\ UNCHANGED <<heldVars, closed, busVars, abandoned, closeResult>>

(* A new client that will not count: retired, and closed.                  *)
RetireMine(p) ==
  /\ retired' = mine[p]
  /\ mine' = [mine EXCEPT ![p] = None]

(* The factory returned.  From here on the session is subscribed to the    *)
(* client's events; connect() holds it to the settle window.               *)
Dialed(p) ==
  /\ pc[p] = "dialed"
  /\ \/ /\ closed
        /\ RetireMine(p)
        /\ GoOn(p, "cleanLost")
     \/ /\ ~closed
        /\ GoOn(p, IF op[p] = "connect" THEN "settle" ELSE "count")
        /\ UNCHANGED <<mine, retired>>
  /\ UNCHANGED <<client, hasClient, closed, retryVars, busVars, linkVars,
                 closeResult>>

Settle_NoTimeout(p) ==
  /\ pc[p] = "settle"
  /\ ~Alive(mine[p])
  /\ RetireMine(p)
  /\ GoOn(p, "cleanRefused")
  /\ UNCHANGED <<client, hasClient, closed, retryVars, busVars, linkVars,
                 closeResult>>

Settle(p) ==
  /\ pc[p] = "settle"
  /\ \/ /\ ~Alive(mine[p])
        /\ RetireMine(p)
        /\ GoOn(p, "cleanRefused")
     \/ /\ GoOn(p, "settled")
        /\ UNCHANGED <<mine, retired>>
  /\ UNCHANGED <<client, hasClient, closed, retryVars, busVars, linkVars,
                 closeResult>>

Settled(p) ==
  /\ pc[p] = "settled"
  /\ \/ /\ closed
        /\ RetireMine(p)
        /\ GoOn(p, "cleanLost")
     \/ /\ ~closed
        /\ GoOn(p, "count")
        /\ UNCHANGED <<mine, retired>>
  /\ UNCHANGED <<client, hasClient, closed, retryVars, busVars, linkVars,
                 closeResult>>

Count_SubscribesLate(p) ==
  /\ pc[p] = "count"
  /\ current' = mine[p]
  /\ relay' = [relay EXCEPT ![mine[p]] = "idle"]
  /\ taken' = [taken EXCEPT ![mine[p]] = sent[mine[p]]]
  /\ client' = mine[p]
  /\ mine' = [mine EXCEPT ![p] = None]
  /\ hasClient' = TRUE
  /\ quiet' = FALSE /\ retryWait' = Retry
  /\ \/ op[p] = "call" /\ GoOn(p, "operate")
     \/ op[p] # "call" /\ Finish(p)
  /\ UNCHANGED <<retired, closed, senderOpen, sent, bus, linkVars,
                 closeResult>>

(* The new client counts: its generation, its relay, the retry ladder, and *)
(* the announcement that the link is up.                                   *)
Count(p) ==
  /\ pc[p] = "count"
  /\ current' = mine[p]
  /\ relay' = [relay EXCEPT ![mine[p]] = "idle"]
  /\ client' = mine[p]
  /\ mine' = [mine EXCEPT ![p] = None]
  /\ hasClient' = TRUE
  /\ quiet' = FALSE /\ retryWait' = Retry
  /\ \/ op[p] = "call" /\ GoOn(p, "operate")
     \/ op[p] # "call" /\ Finish(p)
  /\ UNCHANGED <<retired, closed, senderOpen, sent, taken, bus, linkVars,
                 closeResult>>

(* The session was closed while the client was built.                      *)
CleanLost(p) ==
  /\ pc[p] = "cleanLost"
  /\ CleanupWorks \/ CleanupFails
  /\ Finish(p)
  /\ UNCHANGED <<mine, client, hasClient, closed, retryVars, busVars,
                 abandoned, closeResult>>

(* The link did not outlive its settle window.                             *)
CleanRefused(p) ==
  /\ pc[p] = "cleanRefused"
  /\ CleanupWorks \/ CleanupFails
  /\ BackOff
  /\ Finish(p)
  /\ UNCHANGED <<mine, client, hasClient, closed, busVars, abandoned,
                 closeResult>>

(* call()'s operation on the client.  An error other than the hub's own    *)
(* answer drops the client.                                                *)
Operate(p) ==
  /\ pc[p] = "operate"
  /\ \/ /\ Finish(p)
        /\ UNCHANGED <<heldVars, busVars>>
     \/ /\ DropClient
        /\ GoOn(p, "cleanPost")
  /\ UNCHANGED <<mine, closed, retryVars, linkVars, closeResult>>

(* The caller drops the future, or aborts the warm task.  A client in its  *)
(* settle window is neither held nor retired then.                         *)
Cancel(p) ==
  /\ pc[p] \in Awaits
  /\ pc' = [pc EXCEPT ![p] = "idle"]
  /\ op' = [op EXCEPT ![p] = "none"]
  /\ lock' = IF lock = p THEN None ELSE lock
  /\ warming' = (warming /\ p \notin Warmers)
  /\ abandoned' = IF mine[p] = None THEN abandoned ELSE abandoned \cup {mine[p]}
  /\ mine' = [mine EXCEPT ![p] = None]
  /\ UNCHANGED <<heldVars, closed, retryVars, busVars, status,
                 closeResult>>

-----------------------------------------------------------------------------
(* The links, the time, and the relays.                                    *)

LinkDies(l) ==
  /\ Alive(l)
  /\ status' = [status EXCEPT ![l] = "dead"]
  /\ UNCHANGED <<taskVars, heldVars, flagVars, retryVars, busVars, abandoned,
                 closeResult>>

(* retry.at passes.                                                        *)
QuietEnds ==
  /\ quiet
  /\ quiet' = FALSE
  /\ UNCHANGED <<taskVars, heldVars, flagVars, retryWait, busVars, linkVars,
                 closeResult>>

\* The link's settle window has opened, or it is the held client.
Subscribed(l) ==
  \/ client = l
  \/ \E p \in Procs : mine[p] = l /\ pc[p] \in {"settle", "settled", "count"}

EventArrives(l) ==
  /\ Alive(l) /\ Subscribed(l)
  /\ sent[l] < MaxEvents
  /\ sent' = [sent EXCEPT ![l] = @ + 1]
  /\ UNCHANGED <<taskVars, heldVars, flagVars, retryVars, linkVars, current,
                 senderOpen, relay, taken, bus, closeResult>>

(* The relay's recv(): the next event, or how many it lagged behind.       *)
RelayReceives(l) ==
  /\ relay[l] = "idle" /\ taken[l] < sent[l]
  /\ \/ /\ sent[l] - taken[l] <= Buffer
        /\ taken' = [taken EXCEPT ![l] = @ + 1]
        /\ relay' = [relay EXCEPT ![l] = "event"]
     \/ /\ sent[l] - taken[l] > Buffer
        /\ taken' = [taken EXCEPT ![l] = sent[l] - Buffer]
        /\ relay' = [relay EXCEPT ![l] = "lagged"]
  /\ UNCHANGED <<taskVars, heldVars, flagVars, retryVars, linkVars, current,
                 senderOpen, sent, bus, closeResult>>

(* The check and the send, in one critical section of the events lock.     *)
MayForward(l) == current = l /\ ~closed /\ senderOpen

RelayForwards_StopsOnLag(l) ==
  /\ relay[l] \in {"event", "lagged"}
  /\ \/ /\ MayForward(l)
        /\ bus' = [link |-> l, n |-> taken[l], kind |-> relay[l]]
        /\ relay' = [relay EXCEPT ![l] =
                       IF relay[l] = "lagged" THEN "off" ELSE "idle"]
     \/ /\ ~MayForward(l)
        /\ relay' = [relay EXCEPT ![l] = "off"]
        /\ UNCHANGED bus
  /\ UNCHANGED <<taskVars, heldVars, flagVars, retryVars, linkVars, current,
                 senderOpen, sent, taken, closeResult>>

RelayForwards(l) ==
  /\ relay[l] \in {"event", "lagged"}
  /\ \/ /\ MayForward(l)
        /\ bus' = [link |-> l, n |-> taken[l], kind |-> relay[l]]
        /\ relay' = [relay EXCEPT ![l] = "idle"]
     \/ /\ ~MayForward(l)
        /\ relay' = [relay EXCEPT ![l] = "off"]
        /\ UNCHANGED bus
  /\ UNCHANGED <<taskVars, heldVars, flagVars, retryVars, linkVars, current,
                 senderOpen, sent, taken, closeResult>>

-----------------------------------------------------------------------------
(* What the runtime drives once it is begun.                               *)
Progress(p) ==
  \/ CloseSender(p) \/ Rewarm(p) \/ LookAlive(p)
  \/ CleanPre(p) \/ CloseDrops(p) \/ CleanPost(p)
  \/ Establish(p) \/ CleanEst(p) \/ Dial(p) \/ Dialed(p)
  \/ Settle(p) \/ Settled(p) \/ Count(p)
  \/ CleanLost(p) \/ CleanRefused(p) \/ Operate(p)

Environment ==
  \/ \E p \in Callers : Probe(p) \/ (\E o \in Operations : Start(p, o))
  \/ \E w \in Warmers : Warm(w)
  \/ \E p \in Procs : Cancel(p)
  \/ \E l \in Links : LinkDies(l) \/ EventArrives(l)
  \/ QuietEnds

Relay(l) == RelayReceives(l) \/ RelayForwards(l)

Next ==
  \/ \E p \in Procs : Acquire(p) \/ Progress(p)
  \/ \E l \in Links : Relay(l)
  \/ Environment

(* Every await inside the lock ends: the factory connects under a timeout, *)
(* asks have a deadline, the settle window is a timer, and a close answers *)
(* within its own deadline.  tokio's mutex is first come, first served, so *)
(* a waiting task that is often enough let at the lock gets it.            *)
Fairness ==
  /\ \A p \in Procs : WF_vars(Progress(p)) /\ SF_vars(Acquire(p))
  /\ \A l \in Links : WF_vars(Relay(l))

Spec == Init /\ [][Next]_vars
FairSpec == Spec /\ Fairness

-----------------------------------------------------------------------------
TaskTypes ==
  /\ pc \in [Procs -> Outside \cup Inside]
  /\ op \in [Procs -> Operations \cup {"none"}]
  /\ mine \in [Procs -> Links \cup {None}]
  /\ lock \in Procs \cup {None}

SessionTypes ==
  /\ client \in Links \cup {None}
  /\ retired \in Links \cup {None}
  /\ hasClient \in BOOLEAN /\ closed \in BOOLEAN /\ warming \in BOOLEAN
  /\ senderOpen \in BOOLEAN
  /\ current \in Links \cup {None}
  /\ closeResult \in {"none", "ok", "failed"}

RetryTypes ==
  /\ quiet \in BOOLEAN
  /\ retryWait \in Retry .. Ceiling

LinkTypes ==
  /\ status \in [Links -> {"unbuilt", "alive", "dead", "released"}]
  /\ abandoned \subseteq Links

RelayTypes ==
  /\ relay \in [Links -> {"none", "idle", "event", "lagged", "off"}]
  /\ sent \in [Links -> 0 .. MaxEvents]
  /\ taken \in [Links -> 0 .. MaxEvents]
  /\ bus \in [link : Links \cup {0}, n : 0 .. MaxEvents,
              kind : {"none", "event", "lagged"}]

(* The steps, flags and places of the session, and a ladder that stays     *)
(* between its first step and its ceiling (HubSessionPolicy::next_wait).   *)
TypeOK ==
  TaskTypes /\ SessionTypes /\ RetryTypes /\ LinkTypes /\ RelayTypes

(* Links the factory built, nobody closed, and no cancelled caller let go. *)
Open == {l \in Links : status[l] \in {"alive", "dead"} /\ l \notin abandoned}

Owned == {l \in Links : l \in {client, retired}
                        \/ \E p \in Procs : mine[p] = l}

(* The session never has two links open: it builds one only once the last  *)
(* is closed, whoever builds it and however the last attempts ended.       *)
OneLink == \A l, m \in Open : l = m

(* No link is lost: one that is open is held, or kept to be closed, or in  *)
(* the hands of the task that builds it.  Only cancelling connect() in its *)
(* settle window abandons one.                                             *)
NothingLost == Open \subseteq Owned

(* Every link has one owner: whoever builds, drops or closes one, two are  *)
(* never open and none is forgotten.                                       *)
OneOwner == OneLink /\ NothingLost

(* A held client excludes a retry delay: whoever failed to connect did so  *)
(* before the client was built, and the client cleared it.                 *)
HeldNeedsNoRetry == client # None => ~quiet /\ retryWait = Retry

(* A close() that returned Ok left nothing open, and nothing that comes    *)
(* after it -- a caller that was waiting, a warm task, a probe -- opens    *)
(* another link.                                                           *)
ClosedForGood == closeResult = "ok" => Open = {}

(* At most one warm task is under way, and the flag says whether one is.   *)
WarmCoalesced ==
  /\ warming <=> \E w \in Warmers : pc[w] # "idle"
  /\ \A v, w \in Warmers : pc[v] # "idle" /\ pc[w] # "idle" => v = w

(* Subscribers see the links in the order they were built and the events   *)
(* of a link in order, none twice, none missing but those a lag announces; *)
(* what arrives in the settle window is not missing either.                *)
BusInOrder ==
  [][bus' # bus =>
       LET before == IF bus'.link = bus.link THEN bus.n ELSE 0 IN
       /\ bus'.link >= bus.link
       /\ bus'.n > before
       /\ bus'.kind = "event" => bus'.n = before + 1]_vars

(* Nothing of a link is forwarded once it was announced down.              *)
DownIsSilent == [][bus' # bus => client = bus'.link /\ hasClient]_vars

(* A client is never replaced behind the back of the state callbacks: it   *)
(* is announced down before another is announced up.                       *)
NoSilentSwap ==
  [][client # None /\ client' # client => client' = None /\ ~hasClient']_vars

(* Every operation ends: nobody holds the lock for ever.                   *)
OperationsEnd == \A p \in Procs : (pc[p] # "idle") ~> (pc[p] = "idle")

(* An event of the held link reaches the subscribers, in full or as a lag, *)
(* unless the link is dropped or the session closed.                       *)
EventsReachBus ==
  \A l \in Links :
    (client = l /\ taken[l] < sent[l])
      ~> (client # l \/ closed \/ (bus.link = l /\ bus.n = sent[l]))
=============================================================================
