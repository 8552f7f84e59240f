----------------------- MODULE SessionHandlers_proof -----------------------
(***************************************************************************)
(* off() and close() are final, for any number of handlers, links and      *)
(* events.                                                                 *)
(*                                                                         *)
(* MapIsExact carries the argument: the map retire() drains holds every    *)
(* task that can be running.  From then on AbortInv accounts for each of   *)
(* them -- aborted, or among the handles still to abort -- and the retired *)
(* mark, set with the drain, lets no other start.                          *)
(***************************************************************************)
EXTENDS SessionHandlers, TLAPS

RetiredInv ==
  \A h \in Handlers : retired[h] <=> stage[h] \in {"aborting", "gone"}

AbortInv ==
  \A h \in Handlers :
    /\ stage[h] = "aborting" => live[h] \subseteq aborted[h] \cup toAbort[h]
    /\ stage[h] = "gone" => live[h] \subseteq aborted[h]

\* MapIsExact, and the same before the handler is registered.
ExactInv ==
  \A h \in Handlers :
    stage[h] \notin {"aborting", "gone"} => entries[h] = live[h]

EventInv ==
  \A r \in Relays : relay[r] \in {"forwarded", "starting"} => event[r] \in Events

IInv == TypeOK /\ RetiredInv /\ AbortInv /\ ExactInv /\ EventInv

TaskSets ==
  /\ entries \in [Handlers -> SUBSET Events]
  /\ live \in [Handlers -> SUBSET Events]
  /\ aborted \in [Handlers -> SUBSET Events]
  /\ toAbort \in [Handlers -> SUBSET Events]
  /\ retired \in [Handlers -> BOOLEAN]

HandlerStages ==
  stage \in [Handlers -> {"absent", "checked", "listed", "removed",
                         "aborting", "gone"}]

RelayTypes ==
  /\ relay \in [Relays -> {"unused", "idle", "forwarded", "starting", "off"}]
  /\ event \in [Relays -> 0 .. MaxEvents]
  /\ copied \in [Relays -> SUBSET Handlers]
  /\ delivered \in 0 .. MaxEvents
  /\ current \in Relays \cup {None}
  /\ dialing \in BOOLEAN

CloseTypes ==
  /\ closed \in BOOLEAN
  /\ closing \in {"open", "marked", "dropped", "forgot", "returned"}
  /\ forgotten \subseteq Handlers

StateTypes ==
  /\ states \in [Callbacks -> {"new", "listed", "removed"}]
  /\ telling \in {"none", "up", "down"}
  /\ toTell \subseteq Callbacks
  /\ heard \in [Callbacks -> {"nothing", "up", "down"}]
  /\ telling = "none" => toTell = {}

Types == TaskSets /\ HandlerStages /\ RelayTypes /\ CloseTypes /\ StateTypes

RetiredIsEmpty == \A h \in Handlers : retired[h] => entries[h] = {}

LEMMA ZeroEvents == 0 \in 0 .. MaxEvents
  BY HandlersAssumption DEF HandlersAssumption

LEMMA NextEvent ==
  ASSUME NEW n \in 0 .. MaxEvents, n < MaxEvents
  PROVE  n + 1 \in 0 .. MaxEvents /\ n + 1 \in 1 .. MaxEvents
  BY HandlersAssumption DEF HandlersAssumption

LEMMA TypeParts == TypeOK <=> Types /\ RetiredIsEmpty
  BY DEF TypeOK, Types, TaskSets, HandlerStages, RelayTypes, CloseTypes,
         StateTypes, RetiredIsEmpty

LEMMA TaskStep == Types /\ EventInv /\ [Next]_vars => TaskSets'
<1>. SUFFICES ASSUME Types, EventInv, [Next]_vars PROVE TaskSets'
  OBVIOUS
<1>. USE DEF Types, TaskSets, RelayTypes, EventInv, taskVars
<1>1. CASE UNCHANGED taskVars
  BY <1>1
<1>2. ASSUME NEW h \in Handlers, Retire(h) PROVE TaskSets'
  BY <1>2 DEF Retire, Move
<1>3. ASSUME NEW h \in Handlers, Abort(h) PROVE TaskSets'
  BY <1>3 DEF Abort
<1>4. ASSUME NEW h \in Handlers, TaskEnds(h) PROVE TaskSets'
  BY <1>4 DEF TaskEnds
<1>5. ASSUME NEW r \in Relays, NEW h \in Handlers, StartTask(r, h) PROVE TaskSets'
  BY <1>5 DEF StartTask
<1>. QED
  BY <1>1, <1>2, <1>3, <1>4, <1>5
  DEF Next, Handling, Relaying, Closing, vars, OnChecks, Move, OnRegisters,
      Off, Retired, LinkUp, Tell, RelayForwards, RelayEnds, Dispatch, Listed,
      Dispatched, HandlerPanics, OnState, OffState, CallState, BeginDial,
      DialFails, LinkDropped, DropLink, CloseMarks, CloseDrops,
      CloseCancelled, CloseForgets, CloseReturns

LEMMA StageStep == Types /\ [Next]_vars => HandlerStages'
<1>. SUFFICES ASSUME Types, [Next]_vars PROVE HandlerStages'
  OBVIOUS
<1>. USE DEF Types, HandlerStages
<1>1. CASE UNCHANGED stage
  BY <1>1
<1>2. ASSUME NEW h \in Handlers, OnChecks(h) PROVE HandlerStages'
  BY <1>2 DEF OnChecks, Move
<1>3. ASSUME NEW h \in Handlers, OnRegisters(h) PROVE HandlerStages'
  BY <1>3 DEF OnRegisters, Move
<1>4. ASSUME NEW h \in Handlers, Off(h) PROVE HandlerStages'
  BY <1>4 DEF Off, Move
<1>5. ASSUME NEW h \in Handlers, Retire(h) PROVE HandlerStages'
  BY <1>5 DEF Retire, Move
<1>6. ASSUME NEW h \in Handlers, Retired(h) PROVE HandlerStages'
  BY <1>6 DEF Retired, Move
<1>7. CASE CloseForgets
  BY <1>7 DEF CloseForgets, Listed
<1>. QED
  BY <1>1, <1>2, <1>3, <1>4, <1>5, <1>6, <1>7
  DEF Next, Handling, Relaying, Closing, vars, Abort, TaskEnds, LinkUp, Tell,
      RelayForwards, RelayEnds, Dispatch, Listed, Dispatched, StartTask,
      HandlerPanics, OnState, OffState, CallState, BeginDial, DialFails,
      LinkDropped, DropLink, CloseMarks, CloseDrops, CloseCancelled,
      CloseReturns

LEMMA RelayStep == Types /\ [Next]_vars => RelayTypes'
<1>. SUFFICES ASSUME Types, [Next]_vars PROVE RelayTypes'
  OBVIOUS
<1>. USE DEF Types, RelayTypes, linkVars
<1>1. CASE UNCHANGED linkVars
  BY <1>1
<1>2. ASSUME NEW r \in Relays, LinkUp(r) PROVE RelayTypes'
  BY <1>2 DEF LinkUp, Tell
<1>3. ASSUME NEW r \in Relays, RelayForwards(r) PROVE RelayTypes'
  BY <1>3, NextEvent DEF RelayForwards
<1>4. ASSUME NEW r \in Relays, RelayEnds(r) PROVE RelayTypes'
  BY <1>4 DEF RelayEnds
<1>5. ASSUME NEW r \in Relays, Dispatch(r) PROVE RelayTypes'
  BY <1>5 DEF Dispatch, Listed
<1>6. ASSUME NEW r \in Relays, Dispatched(r) PROVE RelayTypes'
  BY <1>6 DEF Dispatched
<1>7. ASSUME NEW r \in Relays, NEW h \in Handlers, StartTask(r, h) PROVE RelayTypes'
  BY <1>7 DEF StartTask
<1>8. ASSUME NEW r \in Relays, NEW h \in Handlers, HandlerPanics(r, h) PROVE RelayTypes'
  BY <1>8 DEF HandlerPanics
<1>9. CASE BeginDial
  BY <1>9 DEF BeginDial
<1>10. CASE DialFails
  BY <1>10 DEF DialFails
<1>11. CASE LinkDropped
  BY <1>11 DEF LinkDropped, DropLink, Tell
<1>12. CASE CloseDrops
  BY <1>12 DEF CloseDrops, DropLink, Tell
<1>. QED
  BY <1>1, <1>2, <1>3, <1>4, <1>5, <1>6, <1>7, <1>8, <1>9, <1>10, <1>11, <1>12
  DEF Next, Handling, Relaying, Closing, vars, OnChecks, Move, OnRegisters,
      Off, Retire, Abort, Retired, TaskEnds, OnState, OffState, CallState,
      CloseMarks, CloseCancelled, CloseForgets, Listed, CloseReturns

LEMMA CloseStep == Types /\ [Next]_vars => CloseTypes'
<1>. SUFFICES ASSUME Types, [Next]_vars PROVE CloseTypes'
  OBVIOUS
<1>. USE DEF Types, CloseTypes, closeVars
<1>1. CASE UNCHANGED closeVars
  BY <1>1
<1>2. CASE CloseMarks
  BY <1>2 DEF CloseMarks
<1>3. CASE CloseDrops
  BY <1>3 DEF CloseDrops, DropLink, Tell
<1>4. CASE CloseCancelled
  BY <1>4 DEF CloseCancelled
<1>5. CASE CloseForgets
  BY <1>5 DEF CloseForgets, Listed
<1>6. CASE CloseReturns
  BY <1>6 DEF CloseReturns
<1>. QED
  BY <1>1, <1>2, <1>3, <1>4, <1>5, <1>6
  DEF Next, Handling, Relaying, Closing, vars, OnChecks, Move, OnRegisters,
      Off, Retire, Abort, Retired, TaskEnds, LinkUp, Tell, RelayForwards,
      RelayEnds, Dispatch, Listed, Dispatched, StartTask, HandlerPanics,
      OnState, OffState, CallState, BeginDial, DialFails, LinkDropped,
      DropLink

LEMMA StateStep == Types /\ [Next]_vars => StateTypes'
<1>. SUFFICES ASSUME Types, [Next]_vars PROVE StateTypes'
  OBVIOUS
<1>. USE DEF Types, StateTypes, stateVars
<1>1. CASE UNCHANGED stateVars
  BY <1>1
<1>2. ASSUME NEW r \in Relays, LinkUp(r) PROVE StateTypes'
  BY <1>2 DEF LinkUp, Tell
<1>3. ASSUME NEW s \in Callbacks, OnState(s) PROVE StateTypes'
  BY <1>3 DEF OnState
<1>4. ASSUME NEW s \in Callbacks, OffState(s) PROVE StateTypes'
  BY <1>4 DEF OffState
<1>5. ASSUME NEW s \in Callbacks, CallState(s) PROVE StateTypes'
  BY <1>5 DEF CallState
<1>6. CASE LinkDropped
  BY <1>6 DEF LinkDropped, DropLink, Tell
<1>7. CASE CloseDrops
  BY <1>7 DEF CloseDrops, DropLink, Tell
<1>8. CASE CloseForgets
  BY <1>8 DEF CloseForgets, Listed
<1>. QED
  BY <1>1, <1>2, <1>3, <1>4, <1>5, <1>6, <1>7, <1>8
  DEF Next, Handling, Relaying, Closing, vars, OnChecks, Move, OnRegisters,
      Off, Retire, Abort, Retired, TaskEnds, RelayForwards, RelayEnds,
      Dispatch, Listed, Dispatched, StartTask, HandlerPanics, BeginDial,
      DialFails, CloseMarks, CloseCancelled, CloseReturns

LEMMA EventStep == Types /\ EventInv /\ [Next]_vars => EventInv'
<1>. SUFFICES ASSUME Types, EventInv, [Next]_vars PROVE EventInv'
  OBVIOUS
<1>. USE DEF Types, RelayTypes, EventInv, Events, linkVars
<1>1. CASE UNCHANGED <<relay, event>>
  BY <1>1
<1>2. ASSUME NEW r \in Relays, LinkUp(r) PROVE EventInv'
  BY <1>2 DEF LinkUp, Tell
<1>3. ASSUME NEW r \in Relays, RelayForwards(r) PROVE EventInv'
  BY <1>3, NextEvent DEF RelayForwards, RelayTypes
<1>4. ASSUME NEW r \in Relays, RelayEnds(r) PROVE EventInv'
  BY <1>4 DEF RelayEnds
<1>5. ASSUME NEW r \in Relays, Dispatch(r) PROVE EventInv'
  BY <1>5 DEF Dispatch, Listed
<1>6. ASSUME NEW r \in Relays, Dispatched(r) PROVE EventInv'
  BY <1>6 DEF Dispatched
<1>7. CASE LinkDropped
  BY <1>7 DEF LinkDropped, DropLink, Tell
<1>8. CASE CloseDrops
  BY <1>8 DEF CloseDrops, DropLink, Tell
<1>. QED
  BY <1>1, <1>2, <1>3, <1>4, <1>5, <1>6, <1>7, <1>8
  DEF Next, Handling, Relaying, Closing, vars, OnChecks, Move, OnRegisters,
      Off, Retire, Abort, Retired, TaskEnds, StartTask, HandlerPanics,
      OnState, OffState, CallState, BeginDial, DialFails, CloseMarks,
      CloseCancelled, CloseForgets, Listed, CloseReturns

LEMMA EmptyStep == Types /\ RetiredIsEmpty /\ [Next]_vars => RetiredIsEmpty'
<1>. SUFFICES ASSUME Types, RetiredIsEmpty, [Next]_vars PROVE RetiredIsEmpty'
  OBVIOUS
<1>. USE DEF Types, TaskSets, RetiredIsEmpty, taskVars
<1>1. CASE UNCHANGED taskVars
  BY <1>1
<1>2. ASSUME NEW h \in Handlers, Retire(h) PROVE RetiredIsEmpty'
  BY <1>2 DEF Retire, Move
<1>3. ASSUME NEW h \in Handlers, Abort(h) PROVE RetiredIsEmpty'
  BY <1>3 DEF Abort
<1>4. ASSUME NEW h \in Handlers, TaskEnds(h) PROVE RetiredIsEmpty'
  BY <1>4 DEF TaskEnds
<1>5. ASSUME NEW r \in Relays, NEW h \in Handlers, StartTask(r, h) PROVE RetiredIsEmpty'
  BY <1>5 DEF StartTask
<1>. QED
  BY <1>1, <1>2, <1>3, <1>4, <1>5
  DEF Next, Handling, Relaying, Closing, vars, OnChecks, Move, OnRegisters,
      Off, Retired, LinkUp, Tell, RelayForwards, RelayEnds, Dispatch, Listed,
      Dispatched, HandlerPanics, OnState, OffState, CallState, BeginDial,
      DialFails, LinkDropped, DropLink, CloseMarks, CloseDrops,
      CloseCancelled, CloseForgets, CloseReturns

LEMMA RetiredStep == Types /\ RetiredInv /\ [Next]_vars => RetiredInv'
<1>. SUFFICES ASSUME Types, RetiredInv, [Next]_vars PROVE RetiredInv'
  OBVIOUS
<1>. USE DEF Types, TaskSets, HandlerStages, RetiredInv, taskVars
<1>1. CASE UNCHANGED <<stage, retired>>
  BY <1>1
<1>2. ASSUME NEW h \in Handlers, OnChecks(h) PROVE RetiredInv'
  BY <1>2 DEF OnChecks, Move
<1>3. ASSUME NEW h \in Handlers, OnRegisters(h) PROVE RetiredInv'
  BY <1>3 DEF OnRegisters, Move
<1>4. ASSUME NEW h \in Handlers, Off(h) PROVE RetiredInv'
  BY <1>4 DEF Off, Move
<1>5. ASSUME NEW h \in Handlers, Retire(h) PROVE RetiredInv'
  BY <1>5 DEF Retire, Move
<1>6. ASSUME NEW h \in Handlers, Retired(h) PROVE RetiredInv'
  BY <1>6 DEF Retired, Move
<1>7. CASE CloseForgets
  BY <1>7 DEF CloseForgets, Listed
<1>. QED
  BY <1>1, <1>2, <1>3, <1>4, <1>5, <1>6, <1>7
  DEF Next, Handling, Relaying, Closing, vars, Abort, TaskEnds, LinkUp, Tell,
      RelayForwards, RelayEnds, Dispatch, Listed, Dispatched, StartTask,
      HandlerPanics, OnState, OffState, CallState, BeginDial, DialFails,
      LinkDropped, DropLink, CloseMarks, CloseDrops, CloseCancelled,
      CloseReturns

LEMMA ExactStep == Types /\ RetiredInv /\ ExactInv /\ [Next]_vars => ExactInv'
<1>. SUFFICES ASSUME Types, RetiredInv, ExactInv, [Next]_vars PROVE ExactInv'
  OBVIOUS
<1>. USE DEF Types, TaskSets, HandlerStages, RetiredInv, ExactInv, taskVars
<1>1. CASE UNCHANGED <<stage, taskVars>>
  BY <1>1
<1>2. ASSUME NEW h \in Handlers, OnChecks(h) PROVE ExactInv'
  BY <1>2 DEF OnChecks, Move
<1>3. ASSUME NEW h \in Handlers, OnRegisters(h) PROVE ExactInv'
  BY <1>3 DEF OnRegisters, Move
<1>4. ASSUME NEW h \in Handlers, Off(h) PROVE ExactInv'
  BY <1>4 DEF Off, Move
<1>5. ASSUME NEW h \in Handlers, Retire(h) PROVE ExactInv'
  BY <1>5 DEF Retire, Move
<1>6. ASSUME NEW h \in Handlers, Abort(h) PROVE ExactInv'
  BY <1>6 DEF Abort
<1>7. ASSUME NEW h \in Handlers, Retired(h) PROVE ExactInv'
  BY <1>7 DEF Retired, Move
<1>8. ASSUME NEW h \in Handlers, TaskEnds(h) PROVE ExactInv'
  BY <1>8 DEF TaskEnds
<1>9. ASSUME NEW r \in Relays, NEW h \in Handlers, StartTask(r, h) PROVE ExactInv'
  <2>1. CASE retired[h]
    BY <1>9, <2>1 DEF StartTask
  <2>2. CASE ~retired[h]
    <3>1. stage[h] \notin {"aborting", "gone"} /\ UNCHANGED <<stage, retired, aborted, toAbort>>
      BY <1>9, <2>2 DEF StartTask
    <3>2. \A k \in Handlers : k # h => entries'[k] = entries[k] /\ live'[k] = live[k]
      BY <1>9, <2>2 DEF StartTask
    <3>3. entries'[h] = live'[h]
      <4>1. entries' = [entries EXCEPT ![h] = entries[h] \cup {event[r]}]
        BY <1>9, <2>2 DEF StartTask
      <4>2. live' = [live EXCEPT ![h] = live[h] \cup {event[r]}]
        BY <1>9, <2>2 DEF StartTask
      <4>3. entries[h] = live[h]
        BY <3>1
      <4>. QED
        BY <4>1, <4>2, <4>3
    <3>. QED
      BY <3>1, <3>2, <3>3
  <2>. QED
    BY <2>1, <2>2
<1>10. CASE CloseForgets
  BY <1>10 DEF CloseForgets, Listed
<1>. QED
  BY <1>1, <1>2, <1>3, <1>4, <1>5, <1>6, <1>7, <1>8, <1>9, <1>10
  DEF Next, Handling, Relaying, Closing, vars, LinkUp, Tell, RelayForwards,
      RelayEnds, Dispatch, Listed, Dispatched, HandlerPanics, OnState,
      OffState, CallState, BeginDial, DialFails, LinkDropped, DropLink,
      CloseMarks, CloseDrops, CloseCancelled, CloseReturns

LEMMA AbortStep == Types /\ RetiredInv /\ ExactInv /\ AbortInv /\ [Next]_vars => AbortInv'
<1>. SUFFICES ASSUME Types, RetiredInv, ExactInv, AbortInv, [Next]_vars PROVE AbortInv'
  OBVIOUS
<1>. USE DEF Types, TaskSets, HandlerStages, RetiredInv, ExactInv, AbortInv, taskVars
<1>1. CASE UNCHANGED <<stage, taskVars>>
  BY <1>1
<1>2. ASSUME NEW h \in Handlers, OnChecks(h) PROVE AbortInv'
  BY <1>2 DEF OnChecks, Move
<1>3. ASSUME NEW h \in Handlers, OnRegisters(h) PROVE AbortInv'
  BY <1>3 DEF OnRegisters, Move
<1>4. ASSUME NEW h \in Handlers, Off(h) PROVE AbortInv'
  BY <1>4 DEF Off, Move
<1>5. ASSUME NEW h \in Handlers, Retire(h) PROVE AbortInv'
  BY <1>5 DEF Retire, Move
<1>6. ASSUME NEW h \in Handlers, Abort(h) PROVE AbortInv'
  BY <1>6 DEF Abort
<1>7. ASSUME NEW h \in Handlers, Retired(h) PROVE AbortInv'
  BY <1>7 DEF Retired, Move
<1>8. ASSUME NEW h \in Handlers, TaskEnds(h) PROVE AbortInv'
  BY <1>8 DEF TaskEnds
<1>9. ASSUME NEW r \in Relays, NEW h \in Handlers, StartTask(r, h) PROVE AbortInv'
  <2>1. CASE retired[h]
    BY <1>9, <2>1 DEF StartTask
  <2>2. CASE ~retired[h]
    <3>1. stage[h] \notin {"aborting", "gone"} /\ UNCHANGED <<stage, retired, aborted, toAbort>>
      BY <1>9, <2>2 DEF StartTask
    <3>2. \A k \in Handlers : k # h => entries'[k] = entries[k] /\ live'[k] = live[k]
      BY <1>9, <2>2 DEF StartTask
    <3>3. entries'[h] = live'[h]
      <4>1. entries' = [entries EXCEPT ![h] = entries[h] \cup {event[r]}]
        BY <1>9, <2>2 DEF StartTask
      <4>2. live' = [live EXCEPT ![h] = live[h] \cup {event[r]}]
        BY <1>9, <2>2 DEF StartTask
      <4>3. entries[h] = live[h]
        BY <3>1
      <4>. QED
        BY <4>1, <4>2, <4>3
    <3>. QED
      BY <3>1, <3>2, <3>3
  <2>. QED
    BY <2>1, <2>2
<1>10. CASE CloseForgets
  BY <1>10 DEF CloseForgets, Listed
<1>. QED
  BY <1>1, <1>2, <1>3, <1>4, <1>5, <1>6, <1>7, <1>8, <1>9, <1>10
  DEF Next, Handling, Relaying, Closing, vars, LinkUp, Tell, RelayForwards,
      RelayEnds, Dispatch, Listed, Dispatched, HandlerPanics, OnState,
      OffState, CallState, BeginDial, DialFails, LinkDropped, DropLink,
      CloseMarks, CloseDrops, CloseCancelled, CloseReturns

LEMMA InitInv == Init => IInv
<1>. SUFFICES ASSUME Init PROVE IInv
  OBVIOUS
<1>. USE DEF Init
<1>1. TaskSets /\ HandlerStages /\ RetiredIsEmpty
  BY DEF TaskSets, HandlerStages, RetiredIsEmpty
<1>2. RelayTypes
  BY ZeroEvents DEF RelayTypes
<1>3. CloseTypes /\ StateTypes
  BY DEF CloseTypes, StateTypes
<1>4. RetiredInv /\ AbortInv /\ ExactInv /\ EventInv
  BY DEF RetiredInv, AbortInv, ExactInv, EventInv
<1>. QED
  BY <1>1, <1>2, <1>3, <1>4, TypeParts DEF IInv, Types

LEMMA Inductive == Spec => []IInv
<1>1. IInv /\ [Next]_vars => IInv'
  <2>1. TypeOK' <=> Types' /\ RetiredIsEmpty'
    BY TypeParts, PTL
  <2>. QED
    BY <2>1, TypeParts, TaskStep, StageStep, RelayStep, CloseStep, StateStep,
       EventStep, EmptyStep, RetiredStep, ExactStep, AbortStep
    DEF IInv, Types
<1>. QED
  BY InitInv, <1>1, PTL DEF Spec

(* The handlers, their tasks, the relays and close() stay in their types;  *)
(* in particular a handler marked retired has no task on its map.          *)
THEOREM TypeCorrect == Spec => []TypeOK
  BY Inductive, PTL DEF IInv

(* retire() misses no task: what it drains is what runs.                   *)
THEOREM MapHoldsWhatRuns == Spec => []MapIsExact
<1>1. IInv => MapIsExact
  BY DEF IInv, ExactInv, MapIsExact
<1>. QED
  BY Inductive, <1>1, PTL

(* Once off() has returned, or close() has retired the handler, nothing of *)
(* it runs that is not aborted, and nothing of it starts: whatever a relay *)
(* had copied before, and however many relays are in the middle of one.    *)
THEOREM RemovalIsFinal == Spec => []OffIsFinal
<1>1. IInv => OffIsFinal
  BY DEF IInv, AbortInv, OffIsFinal
<1>. QED
  BY Inductive, <1>1, PTL

(* A handler's tasks are known to the end: off() misses none, and none     *)
(* outlives it.                                                            *)
THEOREM TasksAreKnown == Spec => []HandlersAreExact
<1>1. OffIsFinal /\ MapIsExact => HandlersAreExact
  BY DEF HandlersAreExact
<1>. QED
  BY <1>1, RemovalIsFinal, MapHoldsWhatRuns, PTL

-----------------------------------------------------------------------------
(* Callbacks: none is told the same twice in a row.                        *)

(* What a callback on the list was told last is how the link is, once      *)
(* announce() has called it; one that was registered since was told        *)
(* nothing.  While a link is built there is none to be told of.            *)
ToldInv ==
  /\ dialing => telling = "none" /\ current = None
  /\ telling = "up" => current # None
  /\ telling = "down" => current = None
  /\ \A s \in Callbacks :
       /\ states[s] = "new" => heard[s] = "nothing"
       /\ s \in toTell => states[s] # "new" /\ heard[s] # telling
       /\ states[s] = "listed" /\ s \notin toTell =>
            /\ heard[s] = "up" => current # None
            /\ heard[s] = "down" => current = None

\* The steps that announce nothing, and leave the link and what was told.
LEMMA ToldElsewhere ==
  ASSUME Next,
         ~ (\E r \in Relays : LinkUp(r)), ~ LinkDropped, ~ CloseDrops, ~ CloseForgets, ~ BeginDial,
         ~ DialFails, ~ (\E s \in Callbacks : OnState(s) \/ OffState(s) \/ CallState(s))
  PROVE  UNCHANGED <<dialing, current, stateVars>>
  BY DEF Next, Handling, Relaying, Closing, OnChecks, OnRegisters, Off, Retire, Abort, Retired,
         TaskEnds, RelayForwards, RelayEnds, Dispatch, Dispatched, StartTask, HandlerPanics,
         CloseMarks, CloseCancelled, CloseReturns, linkVars

LEMMA ToldStep ==
  ASSUME Types, ToldInv, [Next]_vars
  PROVE  ToldInv'
<1> USE DEF Types, StateTypes, RelayTypes
<1>1. CASE UNCHANGED <<dialing, current, stateVars>>
  BY <1>1 DEF ToldInv, stateVars
<1>2. ASSUME NEW r \in Relays, LinkUp(r)
      PROVE  ToldInv'
  <2>1. /\ dialing /\ telling = "none" /\ current = None /\ toTell = {}
        /\ ~ dialing' /\ current' = r /\ UNCHANGED <<states, heard>>
    BY <1>2 DEF LinkUp, ToldInv
  <2>2. current' # None
    BY <2>1, HandlersAssumption
  <2>3. /\ toTell' = {s \in Callbacks : states[s] = "listed"}
        /\ telling' \in {"none", "up"}
        /\ telling' = "none" => toTell' = {}
    BY <1>2 DEF LinkUp, Tell
  <2>4. \A s \in Callbacks : states[s] = "listed" => heard[s] # "up"
    BY <2>1 DEF ToldInv
  <2>5. \A s \in toTell' : telling' = "up" /\ states[s] = "listed" /\ s \in Callbacks
    BY <2>3
  <2>. QED
    BY <2>1, <2>2, <2>3, <2>4, <2>5 DEF ToldInv
<1>3. ASSUME DropLink
      PROVE  ToldInv'
  <2>1. /\ ~ dialing /\ telling = "none" /\ toTell = {}
        /\ ~ dialing' /\ current' = None /\ UNCHANGED <<states, heard>>
    BY <1>3 DEF DropLink, Unlocked
  <2>2. CASE current = None
    BY <1>3, <2>1, <2>2 DEF DropLink, ToldInv
  <2>3. CASE current # None
    <3>1. /\ toTell' = {s \in Callbacks : states[s] = "listed"}
          /\ telling' \in {"none", "down"}
          /\ telling' = "none" => toTell' = {}
      BY <1>3, <2>3 DEF DropLink, Tell
    <3>2. \A s \in Callbacks : states[s] = "listed" => heard[s] # "down"
      BY <2>1, <2>3 DEF ToldInv
    <3>3. \A s \in toTell' : telling' = "down" /\ states[s] = "listed" /\ s \in Callbacks
      BY <3>1
    <3>. QED
      BY <2>1, <3>1, <3>2, <3>3 DEF ToldInv
  <2>. QED
    BY <2>2, <2>3
<1>4. ASSUME NEW s \in Callbacks, OnState(s) \/ OffState(s)
      PROVE  ToldInv'
  <2>1. /\ UNCHANGED <<dialing, current, telling, toTell, heard>>
        /\ \A q \in Callbacks : q # s => states'[q] = states[q]
        /\ \/ states[s] = "new" /\ states'[s] = "listed"
           \/ states[s] = "listed" /\ states'[s] = "removed"
    BY <1>4 DEF OnState, OffState, linkVars
  <2>. QED
    BY <2>1 DEF ToldInv
<1>5. ASSUME NEW s \in Callbacks, CallState(s)
      PROVE  ToldInv'
  <2>1. /\ UNCHANGED <<dialing, current, states>>
        /\ s \in toTell /\ toTell' = toTell \ {s}
        /\ telling' \in {telling, "none"} /\ (telling' = "none" => toTell' = {})
        /\ heard'[s] = telling /\ \A q \in Callbacks : q # s => heard'[q] = heard[q]
    BY <1>5 DEF CallState, linkVars
  <2>2. telling \in {"up", "down"} /\ ~ dialing /\ states[s] # "new"
    BY <2>1 DEF ToldInv
  <2>. QED
    BY <2>1, <2>2 DEF ToldInv
<1>6. CASE CloseForgets
  <2>1. /\ UNCHANGED <<dialing, current, telling, toTell, heard>>
        /\ \A s \in Callbacks : states'[s] # "listed" /\ (states'[s] = "new" => states[s] = "new")
        /\ telling = "none"
    BY <1>6 DEF CloseForgets, linkVars
  <2>. QED
    BY <2>1 DEF ToldInv
<1>7. CASE BeginDial \/ DialFails
  BY <1>7 DEF BeginDial, DialFails, Unlocked, ToldInv, stateVars
<1>8. CASE LinkDropped \/ CloseDrops
  BY <1>3, <1>8 DEF LinkDropped, CloseDrops
<1>9. CASE vars' = vars
  BY <1>1, <1>9 DEF vars, linkVars
<1>10. CASE Next
  BY <1>1, <1>2, <1>4, <1>5, <1>6, <1>7, <1>8, <1>10, ToldElsewhere
<1>. QED
  BY <1>9, <1>10

(* A state callback is told up and down in turn, whenever it was           *)
(* registered and however announcements, dials and close() interleave      *)
(* (announce, drop_client, establish).                                     *)
THEOREM ToldInTurn == Spec => CallbacksAlternate
<1>1. Init => ToldInv
  BY DEF Init, ToldInv
<1>2. IInv => Types
  BY TypeParts DEF IInv, Types
<1>3. IInv /\ ToldInv /\ [Next]_vars => ToldInv'
  BY <1>2, ToldStep
<1>4. ASSUME IInv, ToldInv, [Next]_vars, NEW s \in Callbacks, s \in toTell, s \notin toTell'
      PROVE  heard[s] # heard'[s]
  <2>1. StateTypes /\ heard[s] # telling /\ telling # "none" /\ ~ dialing
    BY <1>2, <1>4 DEF Types, StateTypes, ToldInv
  <2>2. CASE \E q \in Callbacks : CallState(q)
    BY <1>4, <2>1, <2>2 DEF CallState, StateTypes
  <2>3. CASE ~ (\E q \in Callbacks : CallState(q))
    <3>1. toTell' = toTell
      BY <1>4, <2>1, <2>3, ToldElsewhere
         DEF LinkUp, LinkDropped, CloseDrops, DropLink, Unlocked, CloseForgets, BeginDial, DialFails,
             OnState, OffState, stateVars, vars
    <3>. QED
      BY <1>4, <3>1
  <2>. QED
    BY <2>2, <2>3
<1>5. IInv /\ ToldInv /\ [Next]_vars =>
        [\A s \in Callbacks : s \in toTell /\ s \notin toTell' => heard[s] # heard'[s]]_vars
  BY <1>4
<1>. QED
  BY Inductive, <1>1, <1>3, <1>5, PTL DEF Spec, CallbacksAlternate

=============================================================================
