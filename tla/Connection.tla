----------------------------- MODULE Connection -----------------------------
(***************************************************************************)
(* The life of one transport: RuntimeTransport::connect_with_timeout,      *)
(* disconnect and stopped, ConnectionControl and ConnectionAttempt of      *)
(* src/transport.rs, over a WSS transport.                                 *)
(*                                                                         *)
(* Callers connect and disconnect one transport together and may stop      *)
(* waiting at any await.  The gate is a tokio mutex; the flags are atomics *)
(* written with and without it.  A step is what a task does between two    *)
(* awaits or two accesses to such a flag.  Both attempts of                *)
(* connect_kk_then_xx are taken; what the hub says in them is WssLink.     *)
(***************************************************************************)
EXTENDS Integers, FiniteSets

CONSTANTS
  Callers,        \* tasks that connect and disconnect
  Watchers,       \* tasks that wait in stopped()
  MaxAttempts,    \* bound: attempts, and so generations
  MaxDisconnects, \* bound: calls of disconnect()
  None, Cleanup   \* holders of the gate: nobody, a cleanup

ASSUME ConnectionAssumption ==
  /\ MaxAttempts \in Nat /\ MaxDisconnects \in Nat
  /\ None # Cleanup /\ {None, Cleanup} \cap Callers = {}

Generations == 0 .. MaxAttempts

VARIABLES
  pc,            \* per caller: its step
  joining,       \* per caller: connect_with_timeout's `joining'
  gen,           \* per caller: the generation of its attempt
  second,        \* per caller: is it in the XX attempt that follows a KK one
  woken,         \* callers whose attempt `retired' has woken
  gate,          \* who holds ConnectionControl.gate
  generation, cancelled, attempting, \* ConnectionControl (active_attempt)
  pending,       \* per generation: cleanup tasks that wait for the gate
  cleaning,      \* the cleanup that holds it: its step and its generation
  gaveUp,        \* history: a cleanup of this generation ran out of budget
  disconnects,   \* how often disconnect() was called
  reader, writer, \* the generation whose reader runs and whose socket is kept
  reading,       \* the reader's step
  session,       \* does the Noise channel have a session
  valid,         \* session_valid
  phase, shaken, \* health: connection.phase and handshake_complete
  watch, rung    \* per watcher: its step, and was its Notified woken

callVars    == <<joining, gen, second>>
controlVars == <<generation, cancelled, attempting>>
cleanVars   == <<pending, cleaning, gaveUp>>
readVars    == <<reader, reading>>
noiseVars   == <<session, valid>>
healthVars  == <<phase, shaken>>
linkVars    == <<readVars, writer, noiseVars, healthVars>>
watchVars   == <<watch, rung>>
vars == <<pc, callVars, woken, gate, controlVars, cleanVars, disconnects,
          linkVars, watchVars>>

\* The awaits of an attempt, where it may be cut off.
Cuttable == {"reader", "writer", "mark", "open", "dial", "spawn", "shake",
             "failReader", "failWriter", "failMark", "ready"}

\* Its steps from the enabled `retired' on, and all its steps.
Armed      == Cuttable \cup {"check"}
Attempting == Armed \cup {"reset", "arm", "drop", "dropped", "complete"}

Idle == [step |-> "idle", gen |-> 0]

Init ==
  /\ pc = [c \in Callers |-> "idle"]
  /\ joining = [c \in Callers |-> FALSE]
  /\ gen = [c \in Callers |-> 0]
  /\ second = [c \in Callers |-> FALSE]
  /\ woken = {} /\ gate = None
  /\ generation = 0 /\ cancelled = FALSE /\ attempting = FALSE
  /\ pending = [g \in Generations |-> 0]
  /\ cleaning = Idle /\ gaveUp = FALSE /\ disconnects = 0
  /\ reader = 0 /\ reading = "next" /\ writer = 0
  /\ session = FALSE /\ valid = FALSE
  /\ phase = "idle" /\ shaken = FALSE
  /\ watch = [w \in Watchers |-> "off"]
  /\ rung = {}

Step(c, from, to) ==
  /\ pc[c] = from
  /\ pc' = [pc EXCEPT ![c] = to]

Connected == phase \in {"handshake", "ready"}

(* noise_health: what healthcheck() reports.                               *)
HandshakeComplete == shaken /\ valid /\ ~cancelled
Healthy == Connected /\ HandshakeComplete
SeenDown ==
  \/ phase \in {"closed", "error"}
  \/ cancelled
  \/ ~valid /\ phase = "ready"

-----------------------------------------------------------------------------
(* What taking a link down consists of.                                    *)

WakeStopped_Sleepers ==
  rung' = rung \cup {w \in Watchers : watch[w] = "asleep"}

WakeStopped ==
  rung' = rung \cup {w \in Watchers : watch[w] \in {"armed", "looked", "asleep"}}

(* mark_disconnected and mark_error, reset_noise included.                 *)
Mark(as) ==
  /\ session' = FALSE /\ valid' = FALSE
  /\ shaken' = FALSE /\ phase' = as
  /\ WakeStopped

(* disconnect_inner: the reader is aborted and awaited, the socket closed, *)
(* the health marked.  It may be cut off between these.                    *)
AbortReader == reader' = 0 /\ reading' = "next"

-----------------------------------------------------------------------------
(* connect_with_timeout up to its attempt.                                 *)

TryLock(c) ==
  /\ \/ /\ gate = None
        /\ gate' = c /\ Step(c, "idle", "health")
        /\ joining' = [joining EXCEPT ![c] = FALSE]
     \/ /\ gate # None
        /\ Step(c, "idle", "join")
        /\ UNCHANGED <<gate, joining>>
  /\ UNCHANGED <<gen, second, woken, controlVars, cleanVars, disconnects,
                 linkVars, watchVars>>

Join(c) ==
  /\ Step(c, "join", "wait")
  /\ joining' = [joining EXCEPT ![c] = attempting]
  /\ UNCHANGED <<gen, second, woken, gate, controlVars, cleanVars,
                 disconnects, linkVars, watchVars>>

Acquire(c) ==
  /\ gate = None
  /\ gate' = c
  /\ Step(c, "wait", "health")
  /\ UNCHANGED <<callVars, woken, controlVars, cleanVars, disconnects,
                 linkVars, watchVars>>

(* The deadline passes, or the caller stops waiting, for the gate or for   *)
(* the health.                                                             *)
StopWaiting(c) ==
  /\ \/ Step(c, "wait", "idle") /\ UNCHANGED gate
     \/ Step(c, "health", "idle") /\ gate' = None
  /\ joining' = [joining EXCEPT ![c] = FALSE]
  /\ UNCHANGED <<gen, second, woken, controlVars, cleanVars, disconnects,
                 linkVars, watchVars>>

(* The link is there (Ok), or the attempt it joined has failed (Err).      *)
ReturnEarly(c) ==
  /\ Healthy \/ joining[c]
  /\ Step(c, "health", "idle")
  /\ gate' = None
  /\ joining' = [joining EXCEPT ![c] = FALSE]
  /\ UNCHANGED <<gen, second, woken, controlVars, cleanVars, disconnects,
                 linkVars, watchVars>>

Begin(c) ==
  /\ ~Healthy /\ ~joining[c]
  /\ generation < MaxAttempts
  /\ Step(c, "health", "reset")
  /\ generation' = generation + 1
  /\ gen' = [gen EXCEPT ![c] = generation']
  /\ gaveUp' = FALSE
  /\ UNCHANGED <<joining, second, woken, gate, cancelled, attempting, pending,
                 cleaning, disconnects, linkVars, watchVars>>

Reset(c) ==
  /\ Step(c, "reset", "arm")
  /\ cancelled' = FALSE
  /\ UNCHANGED <<callVars, woken, gate, generation, attempting, cleanVars,
                 disconnects, linkVars, watchVars>>

(* active_attempt, and the `retired' the attempt listens to.               *)
Arm(c) ==
  /\ Step(c, "arm", "check")
  /\ attempting' = TRUE
  /\ woken' = woken \ {c}
  /\ UNCHANGED <<callVars, gate, generation, cancelled, cleanVars,
                 disconnects, linkVars, watchVars>>

Check(c) ==
  /\ pc[c] = "check"
  /\ pc' = [pc EXCEPT ![c] = IF cancelled THEN "drop" ELSE "reader"]
  /\ UNCHANGED <<callVars, woken, gate, controlVars, cleanVars, disconnects,
                 linkVars, watchVars>>

-----------------------------------------------------------------------------
(* The attempt.  Each poll looks at `retired' first (biased).              *)

Poll(c, from, to) == c \notin woken /\ Step(c, from, to)

(* The deadline, the caller or `retired' cut it off.                       *)
CutOff(c) ==
  /\ pc[c] \in Cuttable
  /\ pc' = [pc EXCEPT ![c] = "drop"]
  /\ UNCHANGED <<callVars, woken, gate, controlVars, cleanVars, disconnects,
                 linkVars, watchVars>>

(* disconnect_inner, before the attempt dials ...                          *)
StopsReader(c) ==
  /\ Poll(c, "reader", "writer") \/ Poll(c, "failReader", "failWriter")
  /\ AbortReader
  /\ UNCHANGED <<callVars, woken, gate, controlVars, cleanVars, disconnects,
                 writer, noiseVars, healthVars, watchVars>>

ClosesSocket(c) ==
  /\ Poll(c, "writer", "mark") \/ Poll(c, "failWriter", "failMark")
  /\ writer' = 0
  /\ UNCHANGED <<callVars, woken, gate, controlVars, cleanVars, disconnects,
                 readVars, noiseVars, healthVars, watchVars>>

MarksClosed(c) ==
  /\ Poll(c, "mark", "open")
  /\ Mark("closed")
  /\ UNCHANGED <<callVars, woken, gate, controlVars, cleanVars, disconnects,
                 readVars, writer, watch>>

(* ... and after a handshake that did not complete: mark_disconnected and  *)
(* mark_error.  A KK that failed is followed by an XX.                     *)
MarksFailed(c) ==
  /\ \/ /\ Poll(c, "failMark", "drop")
        /\ UNCHANGED second
     \/ /\ ~second[c]
        /\ Poll(c, "failMark", "reader")
        /\ second' = [second EXCEPT ![c] = TRUE]
  /\ Mark("error")
  /\ UNCHANGED <<joining, gen, woken, gate, controlVars, cleanVars,
                 disconnects, readVars, writer, watch>>

(* A new channel and a default health, then the dial.                      *)
Opens(c) ==
  /\ Poll(c, "open", "dial")
  /\ phase' = "connecting" /\ shaken' = FALSE
  /\ session' = FALSE
  /\ UNCHANGED <<callVars, woken, gate, controlVars, cleanVars, disconnects,
                 readVars, writer, valid, watchVars>>

DialFails(c) ==
  /\ Poll(c, "dial", "drop")
  /\ Mark("error")
  /\ UNCHANGED <<callVars, woken, gate, controlVars, cleanVars, disconnects,
                 readVars, writer, watch>>

Dials(c) ==
  /\ Poll(c, "dial", "spawn")
  /\ writer' = gen[c]
  /\ phase' = "handshake"
  /\ UNCHANGED <<callVars, woken, gate, controlVars, cleanVars, disconnects,
                 readVars, noiseVars, shaken, watchVars>>

SpawnsReader(c) ==
  /\ Poll(c, "spawn", "shake")
  /\ reader' = gen[c] /\ reading' = "next"
  /\ UNCHANGED <<callVars, woken, gate, controlVars, cleanVars, disconnects,
                 writer, noiseVars, healthVars, watchVars>>

(* handshake_notify or its twenty seconds wake it.                         *)
Shaken(c) ==
  /\ \/ Poll(c, "shake", "ready") /\ HandshakeComplete
     \/ Poll(c, "shake", "failReader") /\ ~HandshakeComplete
  /\ UNCHANGED <<callVars, woken, gate, controlVars, cleanVars, disconnects,
                 linkVars, watchVars>>

MarksReady(c) ==
  /\ Poll(c, "ready", "complete")
  /\ phase' = "ready"
  /\ UNCHANGED <<callVars, woken, gate, controlVars, cleanVars, disconnects,
                 readVars, writer, noiseVars, shaken, watchVars>>

(* ConnectionAttempt::drop of a complete attempt, and of one that failed   *)
(* or was dropped: it is cancelled, and leaves a cleanup behind.           *)
Completes(c) ==
  /\ Step(c, "complete", "dropped")
  /\ attempting' = FALSE
  /\ UNCHANGED <<callVars, woken, gate, generation, cancelled, cleanVars,
                 disconnects, linkVars, watchVars>>

Drops_WithoutCleanup(c) ==
  /\ Step(c, "drop", "dropped")
  /\ attempting' = FALSE /\ cancelled' = TRUE /\ valid' = FALSE
  /\ UNCHANGED <<callVars, woken, gate, generation, cleanVars, disconnects,
                 readVars, writer, session, healthVars, watchVars>>

Drops(c) ==
  /\ Step(c, "drop", "dropped")
  /\ attempting' = FALSE /\ cancelled' = TRUE /\ valid' = FALSE
  /\ pending' = [pending EXCEPT ![gen[c]] = @ + 1]
  /\ UNCHANGED <<callVars, woken, gate, generation, cleaning, gaveUp,
                 disconnects, readVars, writer, session, healthVars,
                 watchVars>>

Unlocks(c) ==
  /\ Step(c, "dropped", "idle")
  /\ gate' = None
  /\ gen' = [gen EXCEPT ![c] = 0]
  /\ second' = [second EXCEPT ![c] = FALSE]
  /\ woken' = woken \ {c}
  /\ UNCHANGED <<joining, controlVars, cleanVars, disconnects,
                 linkVars, watchVars>>

-----------------------------------------------------------------------------
(* disconnect(), and the cleanups.                                         *)

Disconnect(c) ==
  /\ disconnects < MaxDisconnects
  /\ disconnects' = disconnects + 1
  /\ Step(c, "idle", "notify")
  /\ cancelled' = TRUE
  /\ UNCHANGED <<callVars, woken, gate, generation, attempting, cleanVars,
                 linkVars, watchVars>>

Notifies(c) ==
  /\ Step(c, "notify", "invalidate")
  /\ woken' = woken \cup {a \in Callers : pc[a] \in Armed}
  /\ UNCHANGED <<callVars, gate, controlVars, cleanVars, disconnects,
                 linkVars, watchVars>>

Invalidates(c) ==
  /\ Step(c, "invalidate", "spawnCleanup")
  /\ valid' = FALSE
  /\ UNCHANGED <<callVars, woken, gate, controlVars, cleanVars, disconnects,
                 readVars, writer, session, healthVars, watchVars>>

SpawnsCleanup_InCaller(c) ==
  /\ Step(c, "spawnCleanup", "idle")
  /\ \/ pending' = [pending EXCEPT ![generation] = @ + 1]
     \/ UNCHANGED pending
  /\ UNCHANGED <<callVars, woken, gate, controlVars, cleaning, gaveUp,
                 disconnects, linkVars, watchVars>>

(* It waits for its worker for two seconds at most; the worker goes on.    *)
SpawnsCleanup(c) ==
  /\ Step(c, "spawnCleanup", "idle")
  /\ pending' = [pending EXCEPT ![generation] = @ + 1]
  /\ UNCHANGED <<callVars, woken, gate, controlVars, cleaning, gaveUp,
                 disconnects, linkVars, watchVars>>

CleanupLocks(g) ==
  /\ gate = None /\ pending[g] > 0
  /\ gate' = Cleanup
  /\ pending' = [pending EXCEPT ![g] = @ - 1]
  /\ cleaning' = [step |-> "check", gen |-> g]
  /\ UNCHANGED <<pc, callVars, woken, controlVars, gaveUp, disconnects,
                 linkVars, watchVars>>

CleanupChecks_Nothing ==
  /\ cleaning.step = "check"
  /\ cleaning' = [cleaning EXCEPT !.step = "reader"]
  /\ UNCHANGED <<gate, pc, callVars, woken, controlVars, pending, gaveUp, disconnects,
                 linkVars, watchVars>>

CleanupChecks ==
  /\ cleaning.step = "check"
  /\ \/ /\ generation = cleaning.gen
        /\ cleaning' = [cleaning EXCEPT !.step = "reader"]
        /\ UNCHANGED gate
     \/ /\ generation # cleaning.gen
        /\ cleaning' = Idle /\ gate' = None
  /\ UNCHANGED <<pc, callVars, woken, controlVars, pending, gaveUp,
                 disconnects, linkVars, watchVars>>

CleanupStopsReader ==
  /\ cleaning.step = "reader"
  /\ cleaning' = [cleaning EXCEPT !.step = "writer"]
  /\ AbortReader
  /\ UNCHANGED <<pc, callVars, woken, gate, controlVars, pending, gaveUp,
                 disconnects, writer, noiseVars, healthVars, watchVars>>

CleanupClosesSocket ==
  /\ cleaning.step = "writer"
  /\ cleaning' = [cleaning EXCEPT !.step = "mark"]
  /\ writer' = 0
  /\ UNCHANGED <<pc, callVars, woken, gate, controlVars, pending, gaveUp,
                 disconnects, readVars, noiseVars, healthVars, watchVars>>

CleanupEnds ==
  /\ cleaning.step = "mark"
  /\ cleaning' = Idle /\ gate' = None
  /\ Mark("closed")
  /\ UNCHANGED <<pc, callVars, woken, controlVars, pending, gaveUp,
                 disconnects, readVars, writer, watch>>

(* Its budget runs out while it waits for the writer's lock, which a send  *)
(* may hold, for the close to be written or for the channel to be dropped. *)
CleanupGivesUp ==
  /\ cleaning.step \in {"writer", "mark"}
  /\ cleaning' = Idle /\ gate' = None
  /\ gaveUp' = TRUE
  /\ UNCHANGED <<pc, callVars, woken, controlVars, pending, disconnects,
                 linkVars, watchVars>>

-----------------------------------------------------------------------------
(* The reader: a frame is checked and handled, tells session_valid under   *)
(* the writer's lock and the health afterwards.                            *)

ReaderTakes ==
  /\ reader # 0 /\ reading = "next"
  /\ session => valid
  /\ reading' = "handling"
  /\ UNCHANGED <<pc, callVars, woken, gate, controlVars, cleanVars,
                 disconnects, reader, writer, noiseVars, healthVars,
                 watchVars>>

(* Any frame of a session, or the one that completes the handshake.        *)
ReaderValidates ==
  /\ reading = "handling"
  /\ session' = TRUE /\ valid' = TRUE
  /\ reading' = "telling"
  /\ UNCHANGED <<pc, callVars, woken, gate, controlVars, cleanVars,
                 disconnects, reader, writer, healthVars, watchVars>>

ReaderTells ==
  /\ reading = "telling"
  /\ shaken' = TRUE
  /\ reading' = "next"
  /\ UNCHANGED <<pc, callVars, woken, gate, controlVars, cleanVars,
                 disconnects, reader, writer, noiseVars, phase, watchVars>>

LinkEnds_Unmarked ==
  /\ reader # 0 /\ reading \in {"next", "handling"}
  /\ AbortReader
  /\ UNCHANGED <<pc, callVars, woken, gate, controlVars, cleanVars,
                 disconnects, writer, noiseVars, healthVars, watchVars>>

(* The hub closes the link, the socket fails, or a frame is not what it    *)
(* should be.                                                              *)
LinkEnds ==
  /\ reader # 0 /\ reading \in {"next", "handling"}
  /\ AbortReader
  /\ Mark("closed") \/ Mark("error")
  /\ UNCHANGED <<pc, callVars, woken, gate, controlVars, cleanVars,
                 disconnects, writer, watch>>

(* A send that stops half way spoils the session (NoiseSendGuard); it and  *)
(* the handling of a frame exclude each other.                             *)
SendFails ==
  /\ session /\ valid /\ reading # "handling"
  /\ valid' = FALSE
  /\ UNCHANGED <<pc, callVars, woken, gate, controlVars, cleanVars,
                 disconnects, readVars, writer, session, healthVars,
                 watchVars>>

-----------------------------------------------------------------------------
(* stopped(): enabled, then a look, then the wait.                         *)

WatchArms(w) ==
  /\ \/ watch[w] = "off"
     \/ watch[w] = "asleep" /\ w \in rung
  /\ watch' = [watch EXCEPT ![w] = "armed"]
  /\ rung' = rung \ {w}
  /\ UNCHANGED <<pc, callVars, woken, gate, controlVars, cleanVars,
                 disconnects, linkVars>>

WatchLooks(w) ==
  /\ watch[w] = "armed"
  /\ watch' = [watch EXCEPT ![w] = IF SeenDown THEN "stopped" ELSE "looked"]
  /\ UNCHANGED <<pc, callVars, woken, gate, controlVars, cleanVars,
                 disconnects, linkVars, rung>>

WatchSleeps(w) ==
  /\ watch[w] = "looked"
  /\ watch' = [watch EXCEPT ![w] = "asleep"]
  /\ UNCHANGED <<pc, callVars, woken, gate, controlVars, cleanVars,
                 disconnects, linkVars, rung>>

-----------------------------------------------------------------------------
Connecting(c) ==
  \/ Join(c) \/ StopWaiting(c) \/ ReturnEarly(c) \/ Begin(c) \/ Reset(c) \/ Arm(c) \/ Check(c)
  \/ CutOff(c) \/ StopsReader(c) \/ ClosesSocket(c) \/ MarksClosed(c)
  \/ MarksFailed(c) \/ Opens(c) \/ DialFails(c) \/ Dials(c)
  \/ SpawnsReader(c) \/ Shaken(c) \/ MarksReady(c) \/ Completes(c)
  \/ Drops(c) \/ Unlocks(c)

Disconnecting(c) == Notifies(c) \/ Invalidates(c) \/ SpawnsCleanup(c)

Cleaning ==
  \/ CleanupChecks \/ CleanupStopsReader \/ CleanupClosesSocket
  \/ CleanupEnds \/ CleanupGivesUp

Reading == ReaderTakes \/ ReaderValidates \/ ReaderTells \/ LinkEnds

Watching(w) == WatchArms(w) \/ WatchLooks(w) \/ WatchSleeps(w)

Next ==
  \/ \E c \in Callers :
       \/ TryLock(c) \/ Acquire(c) \/ Connecting(c)
       \/ Disconnect(c) \/ Disconnecting(c)
  \/ \E g \in Generations : CleanupLocks(g)
  \/ Cleaning \/ Reading \/ SendFails
  \/ \E w \in Watchers : Watching(w)

(* Every await under the gate has a deadline, so whoever holds it goes on; *)
(* the gate is first come, first served.  Nothing is assumed of the hub.   *)
Fairness ==
  /\ \A c \in Callers : WF_vars(Connecting(c)) /\ WF_vars(Disconnecting(c))
  /\ \A g \in Generations : SF_vars(CleanupLocks(g))
  /\ WF_vars(Cleaning)
  /\ \A w \in Watchers : WF_vars(Watching(w))

Spec == Init /\ [][Next]_vars
FairSpec == Spec /\ Fairness

-----------------------------------------------------------------------------
Disconnects == {"notify", "invalidate", "spawnCleanup"}

CallTypes ==
  /\ pc \in [Callers -> {"idle", "join", "wait", "health"}
                        \cup Attempting \cup Disconnects]
  /\ joining \in [Callers -> BOOLEAN]
  /\ gen \in [Callers -> Generations]
  /\ second \in [Callers -> BOOLEAN]
  /\ woken \subseteq Callers

ControlTypes ==
  /\ gate \in Callers \cup {None, Cleanup}
  /\ generation \in Generations
  /\ cancelled \in BOOLEAN /\ attempting \in BOOLEAN
  /\ pending \in [Generations -> Nat]
  /\ cleaning \in [step : {"idle", "check", "reader", "writer", "mark"},
                   gen : Generations]
  /\ gaveUp \in BOOLEAN /\ disconnects \in 0 .. MaxDisconnects

LinkTypes ==
  /\ reader \in Generations /\ writer \in Generations
  /\ reading \in {"next", "handling", "telling"}
  /\ session \in BOOLEAN /\ valid \in BOOLEAN
  /\ phase \in {"idle", "connecting", "handshake", "ready", "closed", "error"}
  /\ shaken \in BOOLEAN
  /\ watch \in [Watchers -> {"off", "armed", "looked", "asleep", "stopped"}]
  /\ rung \subseteq Watchers

(* The steps and flags of the lifecycle; and the two flags that say an     *)
(* attempt is under way agree with the steps.                              *)
TypeOK ==
  /\ CallTypes /\ ControlTypes /\ LinkTypes
  /\ attempting <=> \E c \in Callers :
                       pc[c] \in Attempting \ {"reset", "arm", "dropped"}

Linked == reader # 0 \/ writer # 0

(* A link that was cancelled, by disconnect() or by an abandoned connect,  *)
(* never stays behind: while any of it is up and no attempt is under way   *)
(* (which would take it down), a cleanup of its generation is on its way   *)
(* -- "the worker retains cleanup ownership" -- or ran out of its budget.  *)
NoOrphan ==
  cancelled /\ Linked /\ (\A c \in Callers : pc[c] \notin Attempting)
    => \/ gaveUp
       \/ pending[generation] > 0 \/ cleaning.gen = generation
       \/ \E d \in Callers : pc[d] \in Disconnects

(* A cleanup takes down no link of a later attempt ("retires only its own  *)
(* generation").                                                           *)
OnlyOwnLink ==
  cleaning.step \in {"reader", "writer", "mark"}
    => reader <= cleaning.gen /\ writer <= cleaning.gen

(* What healthcheck() calls connected is there: its socket is kept and its *)
(* reader runs, both of the last attempt.  (Not so while an attempt or a   *)
(* cleanup holds the gate; nor after a cleanup that gave up.)              *)
HealthIsReal ==
  gate = None /\ Healthy /\ ~gaveUp
    => reader = generation /\ writer = generation

(* An attempt that a disconnect() has struck goes no further: once the     *)
(* disconnect has woken whoever listens, no attempt polls on with          *)
(* cancelled set, whether it listened by then or looked later.             *)
StruckAttemptsStop ==
  [][\A c \in Callers :
       (/\ cancelled
        /\ pc[c] \in Armed /\ pc'[c] \in Cuttable \cup {"complete"}
        /\ pc'[c] # pc[c])
         => \E d \in Callers : pc[d] = "notify"]_vars

(* A cancelled link is closed in the end, whoever stopped waiting for it.  *)
CancelledLinksClose ==
  (cancelled /\ Linked) ~> (~Linked \/ ~cancelled \/ gaveUp)

(* Who waits in stopped() hears of every link that goes down.              *)
StopIsHeard ==
  \A w \in Watchers :
    (watch[w] # "off" /\ phase \in {"closed", "error"})
      ~> (watch[w] = "stopped" \/ phase \notin {"closed", "error"})
=============================================================================
