-------------------------- MODULE SessionHandlers --------------------------
(***************************************************************************)
(* The handlers and state callbacks of a HubSession (src/session.rs): on,  *)
(* on_state_change, off, the dispatch of the relay tasks, the task each    *)
(* event of each handler runs on, and what close() does to all of them.    *)
(*                                                                         *)
(* Two locks matter: that of Inner.handlers, the list, and that of one     *)
(* handler's Tasks.  A step here is one critical section of either, or     *)
(* what runs between two.  How links come and go is HubSession; here a     *)
(* link is its relay.                                                      *)
(***************************************************************************)
EXTENDS Integers, FiniteSets

CONSTANTS
  Handlers,   \* registrations, one on() each
  Callbacks,  \* state callbacks, one on_state_change() each
  Relays,     \* the links the session builds, each with its relay task
  MaxEvents,  \* bound: events the links deliver
  None

ASSUME HandlersAssumption == MaxEvents \in Nat /\ None \notin Relays

Events == 1 .. MaxEvents

VARIABLES
  stage,      \* per handler: where it is between on() and the end of retire()
  retired,    \* Tasks.retired
  entries,    \* Tasks.running: the events whose task is recorded
  live,       \* the events whose task has not ended
  aborted,    \* the events whose task was aborted
  toAbort,    \* retire()'s drained handles, not yet aborted
  closed,     \* Inner.closed
  closing,    \* the step of close()
  forgotten,  \* the registrations close() took from the list
  dialing,    \* is a client being built (the session's lock is held)
  current,    \* the relay of the held link, or None
  relay,      \* per relay: its step
  event,      \* per relay: the event it dispatches
  copied,     \* per relay: the handlers dispatch() copied, still to start
  delivered,  \* events delivered so far
  states,     \* state callbacks: new, listed or removed
  telling,    \* what announce() is telling: none, up or down
  toTell,     \* the callbacks it copied, still to call
  heard       \* history: what each callback was told last

taskVars  == <<retired, entries, live, aborted, toAbort>>
closeVars == <<closed, closing, forgotten>>
linkVars  == <<dialing, current, relay, event, copied, delivered>>
stateVars == <<states, telling, toTell, heard>>
vars == <<stage, taskVars, closeVars, linkVars, stateVars>>

Init ==
  /\ stage = [h \in Handlers |-> "absent"]
  /\ retired = [h \in Handlers |-> FALSE]
  /\ entries = [h \in Handlers |-> {}]
  /\ live = [h \in Handlers |-> {}]
  /\ aborted = [h \in Handlers |-> {}]
  /\ toAbort = [h \in Handlers |-> {}]
  /\ closed = FALSE /\ closing = "open" /\ forgotten = {}
  /\ dialing = FALSE /\ current = None
  /\ relay = [r \in Relays |-> "unused"]
  /\ event = [r \in Relays |-> 0]
  /\ copied = [r \in Relays |-> {}]
  /\ delivered = 0
  /\ states = [s \in Callbacks |-> "new"]
  /\ telling = "none" /\ toTell = {}
  /\ heard = [s \in Callbacks |-> "nothing"]

Move(h, from, to) ==
  /\ stage[h] = from
  /\ stage' = [stage EXCEPT ![h] = to]

Listed == {h \in Handlers : stage[h] = "listed"}

\* The session's lock: establish() and drop_client() run under it, the
\* callbacks they announce to included.
Unlocked == ~dialing /\ telling = "none"

-----------------------------------------------------------------------------
(* on(), off(), on_state_change().                                         *)

(* on() looks at `closed' before it takes the list's lock ...              *)
OnChecks(h) ==
  /\ ~closed
  /\ Move(h, "absent", "checked")
  /\ UNCHANGED <<taskVars, closeVars, linkVars, stateVars>>

(* ... and registers the handler under it.                                 *)
OnRegisters(h) ==
  /\ Move(h, "checked", "listed")
  /\ UNCHANGED <<taskVars, closeVars, linkVars, stateVars>>

(* off() of a registered handler takes it from the list, then retires it.  *)
Off(h) ==
  /\ Move(h, "listed", "removed")
  /\ UNCHANGED <<taskVars, closeVars, linkVars, stateVars>>

OnState(s) ==
  /\ states[s] = "new"
  /\ states' = [states EXCEPT ![s] = "listed"]
  /\ UNCHANGED <<stage, taskVars, closeVars, linkVars, telling, toTell, heard>>

OffState(s) ==
  /\ states[s] = "listed"
  /\ states' = [states EXCEPT ![s] = "removed"]
  /\ UNCHANGED <<stage, taskVars, closeVars, linkVars, telling, toTell, heard>>

(* retire(): under the handler's lock, mark it and drain its tasks.        *)
Retire(h) ==
  /\ Move(h, "removed", "aborting")
  /\ retired' = [retired EXCEPT ![h] = TRUE]
  /\ toAbort' = [toAbort EXCEPT ![h] = entries[h]]
  /\ entries' = [entries EXCEPT ![h] = {}]
  /\ UNCHANGED <<live, aborted, closeVars, linkVars, stateVars>>

(* Then, with no lock held, abort them one by one.                         *)
Abort(h) ==
  \E e \in toAbort[h] :
    /\ stage[h] = "aborting"
    /\ toAbort' = [toAbort EXCEPT ![h] = @ \ {e}]
    /\ aborted' = [aborted EXCEPT ![h] = @ \cup {e}]
    /\ UNCHANGED <<stage, retired, entries, live, closeVars, linkVars,
                   stateVars>>

Retired(h) ==
  /\ toAbort[h] = {}
  /\ Move(h, "aborting", "gone")
  /\ UNCHANGED <<taskVars, closeVars, linkVars, stateVars>>

-----------------------------------------------------------------------------
(* Links: their announcement and their relay.                              *)

Tell(what) ==
  LET callbacks == {s \in Callbacks : states[s] = "listed"} IN
  /\ toTell' = callbacks
  /\ telling' = IF callbacks = {} THEN "none" ELSE what

BeginDial ==
  /\ Unlocked /\ ~closed /\ current = None
  /\ dialing' = TRUE
  /\ UNCHANGED <<stage, taskVars, closeVars, current, relay, event, copied,
                 delivered, stateVars>>

(* The new client counts.  closed may have been set since the last look at *)
(* it: then close() waits for the lock this attempt holds.                 *)
LinkUp(r) ==
  /\ dialing /\ relay[r] = "unused"
  /\ dialing' = FALSE
  /\ current' = r
  /\ relay' = [relay EXCEPT ![r] = "idle"]
  /\ Tell("up")
  /\ UNCHANGED <<stage, taskVars, closeVars, event, copied, delivered, states,
                 heard>>

DialFails ==
  /\ dialing
  /\ dialing' = FALSE
  /\ UNCHANGED <<stage, taskVars, closeVars, current, relay, event, copied,
                 delivered, stateVars>>

DropLink_Unannounced ==
  /\ Unlocked
  /\ current' = None
  /\ relay' = [r \in Relays |->
               IF r = current /\ relay[r] = "idle" THEN "off" ELSE relay[r]]
  /\ UNCHANGED <<toTell, telling, dialing, event, copied, delivered, states,
                 heard>>

(* drop_client: the generation moves on, the relay is aborted (it stops at *)
(* its next await) and the callbacks hear the link go down.                *)
DropLink ==
  /\ Unlocked
  /\ current' = None
  /\ relay' = [r \in Relays |->
               IF r = current /\ relay[r] = "idle" THEN "off" ELSE relay[r]]
  /\ \/ current # None /\ Tell("down")
     \/ current = None /\ UNCHANGED <<toTell, telling>>
  /\ UNCHANGED <<dialing, event, copied, delivered, states, heard>>

(* A failed operation or a probe drops the link.                           *)
LinkDropped ==
  /\ current # None
  /\ DropLink
  /\ UNCHANGED <<stage, taskVars, closeVars>>

CallState(s) ==
  /\ s \in toTell
  /\ heard' = [heard EXCEPT ![s] = telling]
  /\ toTell' = toTell \ {s}
  /\ telling' = IF toTell' = {} THEN "none" ELSE telling
  /\ UNCHANGED <<stage, taskVars, closeVars, linkVars, states>>

(* The relay receives an event of the held link of an open session, sends  *)
(* it to the subscribers and lets go of the events lock.                   *)
RelayForwards(r) ==
  /\ relay[r] = "idle" /\ current = r /\ ~closed
  /\ delivered < MaxEvents
  /\ delivered' = delivered + 1
  /\ event' = [event EXCEPT ![r] = delivered']
  /\ relay' = [relay EXCEPT ![r] = "forwarded"]
  /\ UNCHANGED <<stage, taskVars, closeVars, dialing, current, copied,
                 stateVars>>

(* The next event finds the session closed: the relay ends.                *)
RelayEnds(r) ==
  /\ relay[r] = "idle" /\ closed
  /\ relay' = [relay EXCEPT ![r] = "off"]
  /\ UNCHANGED <<stage, taskVars, closeVars, dialing, current, event, copied,
                 delivered, stateVars>>

(* dispatch(): the handlers registered for the event's type, copied under  *)
(* the list's lock.                                                        *)
Dispatch(r) ==
  \E matching \in SUBSET Handlers :
    /\ relay[r] = "forwarded"
    /\ copied' = [copied EXCEPT ![r] = matching \cap Listed]
    /\ relay' = [relay EXCEPT ![r] = "starting"]
    /\ UNCHANGED <<stage, taskVars, closeVars, dialing, current, event,
                   delivered, stateVars>>

StartTask_Unchecked(r, h) ==
  /\ relay[r] = "starting" /\ h \in copied[r]
  /\ copied' = [copied EXCEPT ![r] = @ \ {h}]
  /\ entries' = [entries EXCEPT ![h] = @ \cup {event[r]}]
  /\ live' = [live EXCEPT ![h] = @ \cup {event[r]}]
  /\ UNCHANGED <<stage, retired, aborted, toAbort, closeVars, dialing,
                 current, relay, event, delivered, stateVars>>

(* start_task(), under the handler's lock.                                 *)
StartTask(r, h) ==
  /\ relay[r] = "starting" /\ h \in copied[r]
  /\ copied' = [copied EXCEPT ![r] = @ \ {h}]
  /\ \/ /\ ~retired[h]
        /\ entries' = [entries EXCEPT ![h] = @ \cup {event[r]}]
        /\ live' = [live EXCEPT ![h] = @ \cup {event[r]}]
     \/ /\ retired[h]
        /\ UNCHANGED <<entries, live>>
  /\ UNCHANGED <<stage, retired, aborted, toAbort, closeVars, dialing,
                 current, relay, event, delivered, stateVars>>

(* The handler panics before it returns its future: the event is skipped.  *)
HandlerPanics(r, h) ==
  /\ relay[r] = "starting" /\ h \in copied[r]
  /\ copied' = [copied EXCEPT ![r] = @ \ {h}]
  /\ UNCHANGED <<stage, taskVars, closeVars, dialing, current, relay, event,
                 delivered, stateVars>>

(* Back to the recv(): where an aborted relay stops.                       *)
Dispatched(r) ==
  /\ relay[r] = "starting" /\ copied[r] = {}
  /\ relay' = [relay EXCEPT ![r] = IF current = r THEN "idle" ELSE "off"]
  /\ UNCHANGED <<stage, taskVars, closeVars, dialing, current, event, copied,
                 delivered, stateVars>>

(* A task ends: it finished, panicked, or reached an await after its       *)
(* abort.  Its RunningEntry takes it off the map.                          *)
TaskEnds(h) ==
  \E e \in live[h] :
    /\ live' = [live EXCEPT ![h] = @ \ {e}]
    /\ entries' = [entries EXCEPT ![h] = @ \ {e}]
    /\ UNCHANGED <<stage, retired, aborted, toAbort, closeVars, linkVars,
                   stateVars>>

-----------------------------------------------------------------------------
(* close(): the flag; the link, under the lock; then the handlers.         *)

CloseMarks ==
  /\ closing = "open"
  /\ closing' = "marked" /\ closed' = TRUE
  /\ UNCHANGED <<stage, taskVars, forgotten, linkVars, stateVars>>

CloseDrops ==
  /\ closing = "marked"
  /\ closing' = "dropped"
  /\ DropLink
  /\ UNCHANGED <<stage, taskVars, closed, forgotten>>

(* The caller of close() drops its future while it waits for the lock, or  *)
(* for the cleanup of the client it dropped.  close() may be called again. *)
CloseCancelled ==
  /\ closing \in {"marked", "dropped"} /\ telling = "none"
  /\ closing' = "open"
  /\ UNCHANGED <<stage, taskVars, closed, forgotten, linkVars, stateVars>>

(* Cleaned up or not, forget every handler and callback.                   *)
CloseForgets ==
  /\ closing = "dropped" /\ telling = "none"
  /\ closing' = "forgot"
  /\ stage' = [h \in Handlers |-> IF h \in Listed THEN "removed" ELSE stage[h]]
  /\ forgotten' = Listed
  /\ states' = [s \in Callbacks |->
                IF states[s] = "listed" THEN "removed" ELSE states[s]]
  /\ UNCHANGED <<taskVars, closed, linkVars, telling, toTell, heard>>

CloseReturns ==
  /\ closing = "forgot"
  /\ \A h \in forgotten : stage[h] = "gone"
  /\ closing' = "returned"
  /\ UNCHANGED <<stage, taskVars, closed, forgotten, linkVars, stateVars>>

-----------------------------------------------------------------------------
Handling(h) ==
  \/ OnChecks(h) \/ OnRegisters(h) \/ Off(h)
  \/ Retire(h) \/ Abort(h) \/ Retired(h) \/ TaskEnds(h)

Relaying(r) ==
  \/ LinkUp(r) \/ RelayForwards(r) \/ RelayEnds(r)
  \/ Dispatch(r) \/ Dispatched(r)
  \/ \E h \in Handlers : StartTask(r, h) \/ HandlerPanics(r, h)

Closing ==
  CloseMarks \/ CloseDrops \/ CloseCancelled \/ CloseForgets \/ CloseReturns

Next ==
  \/ \E h \in Handlers : Handling(h)
  \/ \E r \in Relays : Relaying(r)
  \/ \E s \in Callbacks : OnState(s) \/ OffState(s) \/ CallState(s)
  \/ BeginDial \/ DialFails \/ LinkDropped
  \/ Closing

Spec == Init /\ [][Next]_vars

-----------------------------------------------------------------------------
(* The types; announce() is over once every callback was called; and a     *)
(* retired handler has no recorded task (retire() drains the map it marks).*)
TypeOK ==
  /\ stage \in [Handlers -> {"absent", "checked", "listed", "removed",
                             "aborting", "gone"}]
  /\ retired \in [Handlers -> BOOLEAN]
  /\ entries \in [Handlers -> SUBSET Events]
  /\ live \in [Handlers -> SUBSET Events]
  /\ aborted \in [Handlers -> SUBSET Events]
  /\ toAbort \in [Handlers -> SUBSET Events]
  /\ closed \in BOOLEAN
  /\ closing \in {"open", "marked", "dropped", "forgot", "returned"}
  /\ forgotten \subseteq Handlers
  /\ dialing \in BOOLEAN
  /\ current \in Relays \cup {None}
  /\ relay \in [Relays -> {"unused", "idle", "forwarded", "starting", "off"}]
  /\ event \in [Relays -> 0 .. MaxEvents]
  /\ copied \in [Relays -> SUBSET Handlers]
  /\ delivered \in 0 .. MaxEvents
  /\ states \in [Callbacks -> {"new", "listed", "removed"}]
  /\ telling \in {"none", "up", "down"}
  /\ toTell \subseteq Callbacks
  /\ heard \in [Callbacks -> {"nothing", "up", "down"}]
  /\ telling = "none" => toTell = {}
  /\ \A h \in Handlers : retired[h] => entries[h] = {}

(* Once off() has returned, or close() has retired the handler, every task *)
(* of the handler is aborted or over, and none starts any more: not even   *)
(* from a dispatch that copied the handler before (Tasks.retired).         *)
OffIsFinal ==
  \A h \in Handlers : stage[h] = "gone" => live[h] \subseteq aborted[h]

(* Until it is retired, a handler's map holds exactly the tasks it has     *)
(* running: off() misses none, and ended ones leave nothing behind         *)
(* (RunningEntry).                                                         *)
MapIsExact ==
  \A h \in Handlers : stage[h] \in {"listed", "removed"} => entries[h] = live[h]

(* A handler's tasks are known to the end: off() misses none, and none     *)
(* outlives it.                                                            *)
HandlersAreExact == OffIsFinal /\ MapIsExact

(* No callback still registered when close() forgot it was left thinking   *)
(* the link is up (close: "once they have heard the link go down").        *)
ToldDownBeforeForgotten ==
  [][(closing' = "forgot" /\ closing = "dropped")
       => \A s \in Callbacks : states[s] = "listed" => heard[s] # "up"]_vars

(* A callback is never told the same twice in a row.                       *)
CallbacksAlternate ==
  [][\A s \in Callbacks :
       s \in toTell /\ s \notin toTell' => heard[s] # heard'[s]]_vars

(* A closed session owns no detached task (the comment in close()).        *)
ClosedOwnsNoTask ==
  closing = "returned" => \A h \in Handlers : live[h] \subseteq aborted[h]
=============================================================================
