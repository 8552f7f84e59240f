-------------------------- MODULE Connection_proof --------------------------
(***************************************************************************)
(* The links of a transport, for any number of callers, attempts and       *)
(* disconnects.                                                            *)
(*                                                                         *)
(* The gate carries the argument: whoever holds it is alone at its steps   *)
(* (GateInv), so that the generation of an attempt, and of a cleanup that  *)
(* found its own current, stays the current one (GenInv).  Disconnects do  *)
(* not take the gate: StruckInv and OrphanInv say who answers for a        *)
(* cancelled attempt, and for a cancelled link, until a cleanup of its     *)
(* generation holds the gate.                                              *)
(***************************************************************************)
EXTENDS Connection, TLAPS

UnderGate == {"health"} \cup Attempting

GateInv ==
  /\ \A c \in Callers : pc[c] \in UnderGate <=> gate = c
  /\ cleaning.step # "idle" <=> gate = Cleanup

GenInv ==
  /\ reader <= generation /\ writer <= generation
  /\ \A c \in Callers : pc[c] \in Attempting => gen[c] = generation /\ generation # 0
  /\ cleaning.step \in {"reader", "writer", "mark"} => cleaning.gen = generation

(* An attempt that is struck is woken, or is about to be.                  *)
StruckInv ==
  \A c \in Callers :
    cancelled /\ pc[c] \in Cuttable
      => c \in woken \/ \E d \in Callers : pc[d] = "notify"

(* A cleanup of the current generation is on its way.                      *)
Owed == pending[generation] > 0 \/ \E d \in Callers : pc[d] \in Disconnects

(* At these steps an attempt answers for what is left of earlier links.    *)
Owning == Attempting \ {"dropped"}

OwedInv ==
  \A c \in Callers : cancelled /\ pc[c] \in Attempting \ {"reset"} => Owed

LeftInv ==
  cancelled /\ Linked /\ (\A c \in Callers : pc[c] \notin Owning)
    => gaveUp \/ Owed \/ cleaning.gen = generation

(* What a cleanup has taken down by each of its steps.                     *)
TakenInv ==
  /\ cleaning.step = "idle" => cleaning.gen = 0
  /\ cleaning.step \in {"writer", "mark"} => reader = 0
  /\ cleaning.step = "mark" => writer = 0

OrphanInv == OwedInv /\ LeftInv /\ TakenInv

(* At these steps an attempt is taking down a link, or setting one up.     *)
Unsettled == Attempting \ {"shake", "ready", "complete", "dropped"}

Calm ==
  /\ ~cancelled /\ ~gaveUp
  /\ cleaning.step \notin {"writer", "mark"}
  /\ \A c \in Callers : pc[c] \notin Unsettled

SetUpInv ==
  /\ \A c \in Callers : pc[c] = "spawn" => writer = generation
  /\ reader = 0 => reading = "next"

CalmInv ==
  Calm => /\ reader # 0 => reader = generation /\ writer = generation
          /\ shaken => reader # 0

RealInv == SetUpInv /\ CalmInv

Active ==
  attempting <=> \E c \in Callers : pc[c] \in Attempting \ {"reset", "arm", "dropped"}

LEMMA TypeParts == TypeOK <=> CallTypes /\ ControlTypes /\ LinkTypes /\ Active
  BY DEF TypeOK, Active

LEMMA Zero == 0 \in Generations
  BY ConnectionAssumption DEF ConnectionAssumption, Generations

LEMMA NextGeneration ==
  ASSUME NEW g \in Generations, g < MaxAttempts
  PROVE  g + 1 \in Generations /\ g + 1 # 0
  BY ConnectionAssumption DEF ConnectionAssumption, Generations

LEMMA CallStep == CallTypes /\ ControlTypes /\ [Next]_vars => CallTypes'
<1>. SUFFICES ASSUME CallTypes, ControlTypes, [Next]_vars PROVE CallTypes'
  OBVIOUS
<1>. USE DEF CallTypes, ControlTypes, callVars, controlVars, Step, Poll,
             Attempting, Armed, Cuttable, Disconnects
<1>1. CASE UNCHANGED <<pc, callVars, woken>>
  BY <1>1
<1>2. ASSUME NEW c \in Callers,
             TryLock(c) \/ Join(c) \/ Acquire(c) \/ StopWaiting(c) \/ ReturnEarly(c)
      PROVE  CallTypes'
  BY <1>2 DEF TryLock, Join, Acquire, StopWaiting, ReturnEarly
<1>3. ASSUME NEW c \in Callers, Begin(c) PROVE CallTypes'
  BY <1>3, NextGeneration DEF Begin
<1>4. ASSUME NEW c \in Callers,
             Reset(c) \/ Arm(c) \/ Check(c) \/ CutOff(c) \/ StopsReader(c)
             \/ ClosesSocket(c) \/ MarksClosed(c)
      PROVE  CallTypes'
  BY <1>4 DEF Reset, Arm, Check, CutOff, StopsReader, ClosesSocket, MarksClosed
<1>5. ASSUME NEW c \in Callers,
             MarksFailed(c) \/ Opens(c) \/ DialFails(c) \/ Dials(c)
             \/ SpawnsReader(c) \/ Shaken(c) \/ MarksReady(c)
      PROVE  CallTypes'
  BY <1>5 DEF MarksFailed, Opens, DialFails, Dials, SpawnsReader, Shaken, MarksReady
<1>6. ASSUME NEW c \in Callers,
             Completes(c) \/ Drops(c) \/ Unlocks(c) \/ Disconnect(c)
             \/ Notifies(c) \/ Invalidates(c) \/ SpawnsCleanup(c)
      PROVE  CallTypes'
  <2>1. CASE Completes(c) \/ Drops(c)
    BY <2>1 DEF Completes, Drops
  <2>2. CASE Unlocks(c)
    BY <2>2, Zero DEF Unlocks
  <2>3. CASE Disconnect(c) \/ Notifies(c) \/ Invalidates(c) \/ SpawnsCleanup(c)
    BY <2>3 DEF Disconnect, Notifies, Invalidates, SpawnsCleanup
  <2>4. QED
    BY <1>6, <2>1, <2>2, <2>3
<1>7. ASSUME NEW g \in Generations, CleanupLocks(g) PROVE UNCHANGED <<pc, callVars, woken>>
  BY <1>7 DEF CleanupLocks
<1>8. CASE Cleaning
  BY <1>1, <1>8
  DEF Cleaning, CleanupChecks, CleanupStopsReader, CleanupClosesSocket,
      CleanupEnds, CleanupGivesUp
<1>9. CASE Reading \/ SendFails
  BY <1>1, <1>9 DEF Reading, ReaderTakes, ReaderValidates, ReaderTells, LinkEnds, SendFails
<1>10. ASSUME NEW w \in Watchers, Watching(w) PROVE UNCHANGED <<pc, callVars, woken>>
  BY <1>10 DEF Watching, WatchArms, WatchLooks, WatchSleeps
<1>11. CASE UNCHANGED vars
  BY <1>1, <1>11 DEF vars
<1>. QED
  BY <1>1, <1>2, <1>3, <1>4, <1>5, <1>6, <1>7, <1>8, <1>9, <1>10, <1>11
  DEF Next, Connecting, Disconnecting

CleanupSteps == {"idle", "check", "reader", "writer", "mark"}

LEMMA CleaningTypes ==
  ASSUME NEW r \in [step : CleanupSteps, gen : Generations],
         NEW s \in CleanupSteps
  PROVE  /\ [r EXCEPT !.step = s] \in [step : CleanupSteps, gen : Generations]
         /\ [r EXCEPT !.step = s].step = s
         /\ [r EXCEPT !.step = s].gen = r.gen
  OBVIOUS

LEMMA ControlStep == CallTypes /\ ControlTypes /\ [Next]_vars => ControlTypes'
<1>. SUFFICES ASSUME CallTypes, ControlTypes, [Next]_vars PROVE ControlTypes'
  OBVIOUS
<1>. USE DEF CallTypes, ControlTypes, callVars, controlVars, cleanVars
<1>1. CASE UNCHANGED <<gate, controlVars, cleanVars, disconnects>>
  BY <1>1
<1>2. ASSUME NEW c \in Callers,
             TryLock(c) \/ Join(c) \/ Acquire(c) \/ StopWaiting(c) \/ ReturnEarly(c)
      PROVE  ControlTypes'
  BY <1>2 DEF TryLock, Join, Acquire, StopWaiting, ReturnEarly
<1>3. ASSUME NEW c \in Callers, Begin(c) PROVE ControlTypes'
  BY <1>3, NextGeneration DEF Begin
<1>4. ASSUME NEW c \in Callers,
             Reset(c) \/ Arm(c) \/ Completes(c) \/ Unlocks(c)
      PROVE  ControlTypes'
  BY <1>4 DEF Reset, Arm, Completes, Unlocks
<1>5. ASSUME NEW c \in Callers, Drops(c) PROVE ControlTypes'
  <2>1. gen[c] \in Generations /\ pending[gen[c]] + 1 \in Nat
    OBVIOUS
  <2>2. pending' \in [Generations -> Nat]
    BY <1>5, <2>1 DEF Drops
  <2>. QED
    BY <1>5, <2>2 DEF Drops
<1>6. ASSUME NEW c \in Callers,
             \/ Check(c) \/ CutOff(c) \/ StopsReader(c) \/ ClosesSocket(c)
             \/ MarksClosed(c) \/ MarksFailed(c) \/ Opens(c) \/ DialFails(c)
             \/ Dials(c) \/ SpawnsReader(c) \/ Shaken(c) \/ MarksReady(c)
             \/ Notifies(c) \/ Invalidates(c)
      PROVE  UNCHANGED <<gate, controlVars, cleanVars, disconnects>>
  BY <1>6
  DEF Check, CutOff, StopsReader, ClosesSocket, MarksClosed, MarksFailed, Opens,
      DialFails, Dials, SpawnsReader, Shaken, MarksReady, Notifies, Invalidates
<1>7. ASSUME NEW c \in Callers, Disconnect(c) PROVE ControlTypes'
  BY <1>7, ConnectionAssumption DEF Disconnect, ConnectionAssumption
<1>8. ASSUME NEW c \in Callers, SpawnsCleanup(c) PROVE ControlTypes'
  BY <1>8 DEF SpawnsCleanup
<1>9. ASSUME NEW g \in Generations, CleanupLocks(g) PROVE ControlTypes'
  <2>1. pending[g] - 1 \in Nat
    BY <1>9 DEF CleanupLocks
  <2>. QED
    BY <1>9, <2>1 DEF CleanupLocks
<1>10. CASE Cleaning
  <2>1. cleaning' \in [step : CleanupSteps, gen : Generations]
    <3>1. cleaning \in [step : CleanupSteps, gen : Generations]
      BY DEF CleanupSteps
    <3>2. Idle \in [step : CleanupSteps, gen : Generations]
      BY Zero DEF Idle, CleanupSteps
    <3>3. \/ cleaning' = Idle
          \/ \E s \in CleanupSteps : cleaning' = [cleaning EXCEPT !.step = s]
      BY <1>10
      DEF Cleaning, CleanupChecks, CleanupStopsReader, CleanupClosesSocket,
          CleanupEnds, CleanupGivesUp, CleanupSteps
    <3>. QED
      BY <3>1, <3>2, <3>3, CleaningTypes
  <2>2. /\ gate' \in {gate, None} /\ gaveUp' \in {gaveUp, TRUE}
        /\ UNCHANGED <<controlVars, pending, disconnects>>
    BY <1>10
    DEF Cleaning, CleanupChecks, CleanupStopsReader, CleanupClosesSocket,
        CleanupEnds, CleanupGivesUp
  <2>. QED
    BY <2>1, <2>2 DEF CleanupSteps
<1>11. CASE Reading \/ SendFails
  BY <1>1, <1>11 DEF Reading, ReaderTakes, ReaderValidates, ReaderTells, LinkEnds, SendFails
<1>12. ASSUME NEW w \in Watchers, Watching(w)
       PROVE  UNCHANGED <<gate, controlVars, cleanVars, disconnects>>
  BY <1>12 DEF Watching, WatchArms, WatchLooks, WatchSleeps
<1>13. CASE UNCHANGED vars
  BY <1>1, <1>13 DEF vars
<1>. QED
  BY <1>1, <1>2, <1>3, <1>4, <1>5, <1>6, <1>7, <1>8, <1>9, <1>10, <1>11, <1>12, <1>13
  DEF Next, Connecting, Disconnecting

LEMMA LinkStep == CallTypes /\ LinkTypes /\ [Next]_vars => LinkTypes'
<1>. SUFFICES ASSUME CallTypes, LinkTypes, [Next]_vars PROVE LinkTypes'
  OBVIOUS
<1>. USE DEF CallTypes, LinkTypes, linkVars, readVars, noiseVars, healthVars,
             watchVars, Mark, WakeStopped, AbortReader
<1>1. CASE UNCHANGED <<linkVars, watchVars>>
  BY <1>1
<1>2. ASSUME NEW c \in Callers,
             \/ TryLock(c) \/ Join(c) \/ Acquire(c) \/ StopWaiting(c)
             \/ ReturnEarly(c) \/ Begin(c) \/ Reset(c) \/ Arm(c) \/ Check(c)
             \/ CutOff(c) \/ Shaken(c) \/ Completes(c) \/ Unlocks(c)
             \/ Disconnect(c) \/ Notifies(c) \/ SpawnsCleanup(c)
      PROVE  UNCHANGED <<linkVars, watchVars>>
  BY <1>2
  DEF TryLock, Join, Acquire, StopWaiting, ReturnEarly, Begin, Reset, Arm, Check,
      CutOff, Shaken, Completes, Unlocks, Disconnect, Notifies, SpawnsCleanup
<1>3. ASSUME NEW c \in Callers,
             \/ StopsReader(c) \/ ClosesSocket(c) \/ Opens(c) \/ Dials(c)
             \/ SpawnsReader(c) \/ MarksReady(c) \/ Drops(c) \/ Invalidates(c)
      PROVE  LinkTypes'
  <2>1. CASE StopsReader(c) \/ ClosesSocket(c) \/ Opens(c) \/ Dials(c)
    BY <2>1, Zero DEF StopsReader, ClosesSocket, Opens, Dials
  <2>2. CASE SpawnsReader(c) \/ MarksReady(c) \/ Drops(c) \/ Invalidates(c)
    BY <2>2, Zero DEF SpawnsReader, MarksReady, Drops, Invalidates
  <2>3. QED
    BY <1>3, <2>1, <2>2
<1>4. ASSUME NEW c \in Callers, MarksClosed(c) \/ MarksFailed(c) \/ DialFails(c)
      PROVE  LinkTypes'
  BY <1>4 DEF MarksClosed, MarksFailed, DialFails
<1>5. ASSUME NEW g \in Generations, CleanupLocks(g) PROVE LinkTypes'
  BY <1>1, <1>5 DEF CleanupLocks
<1>6. CASE Cleaning
  BY <1>1, <1>6, Zero
  DEF Cleaning, CleanupChecks, CleanupStopsReader, CleanupClosesSocket,
      CleanupEnds, CleanupGivesUp
<1>7. CASE Reading \/ SendFails
  BY <1>7, Zero
  DEF Reading, ReaderTakes, ReaderValidates, ReaderTells, LinkEnds, SendFails
<1>8. ASSUME NEW w \in Watchers, Watching(w) PROVE LinkTypes'
  BY <1>8 DEF Watching, WatchArms, WatchLooks, WatchSleeps
<1>9. CASE UNCHANGED vars
  BY <1>1, <1>9 DEF vars
<1>. QED
  BY <1>1, <1>2, <1>3, <1>4, <1>5, <1>6, <1>7, <1>8, <1>9
  DEF Next, Connecting, Disconnecting

(* Whoever takes the gate finds it free, whoever leaves it lets go of it.  *)
LEMMA GateStep == TypeOK /\ GateInv /\ [Next]_vars => GateInv'
<1>. SUFFICES ASSUME TypeOK, GateInv, [Next]_vars PROVE GateInv'
  OBVIOUS
<1>0. /\ pc \in [Callers -> {"idle", "join", "wait", "health"}
                            \cup Attempting \cup Disconnects]
      /\ cleaning \in [step : CleanupSteps, gen : Generations]
      /\ None # Cleanup /\ None \notin Callers /\ Cleanup \notin Callers
  BY ConnectionAssumption
  DEF TypeOK, CallTypes, ControlTypes, CleanupSteps, ConnectionAssumption
<1>. USE DEF GateInv, UnderGate, Attempting, Armed, Cuttable, Disconnects
<1>1. CASE UNCHANGED <<pc, gate, cleaning>>
  BY <1>1
<1>2. ASSUME NEW c \in Callers,
             TryLock(c) \/ Join(c) \/ Acquire(c) \/ StopWaiting(c) \/ ReturnEarly(c)
      PROVE  GateInv'
  BY <1>0, <1>2
  DEF TryLock, Join, Acquire, StopWaiting, ReturnEarly, Step, callVars, cleanVars
<1>3. ASSUME NEW c \in Callers,
             Begin(c) \/ Reset(c) \/ Arm(c) \/ Check(c) \/ CutOff(c)
      PROVE  GateInv'
  BY <1>0, <1>3 DEF Begin, Reset, Arm, Check, CutOff, Step, cleanVars
<1>4. ASSUME NEW c \in Callers,
             \/ StopsReader(c) \/ ClosesSocket(c) \/ MarksClosed(c)
             \/ MarksFailed(c) \/ Opens(c) \/ DialFails(c)
      PROVE  GateInv'
  BY <1>0, <1>4
  DEF StopsReader, ClosesSocket, MarksClosed, MarksFailed, Opens, DialFails,
      Poll, Step, cleanVars
<1>5. ASSUME NEW c \in Callers,
             Dials(c) \/ SpawnsReader(c) \/ Shaken(c) \/ MarksReady(c)
      PROVE  GateInv'
  BY <1>0, <1>5
  DEF Dials, SpawnsReader, Shaken, MarksReady, Poll, Step, cleanVars
<1>6. ASSUME NEW c \in Callers, Completes(c) \/ Drops(c) \/ Unlocks(c)
      PROVE  GateInv'
  BY <1>0, <1>6 DEF Completes, Drops, Unlocks, Step, cleanVars
<1>7. ASSUME NEW c \in Callers,
             Disconnect(c) \/ Notifies(c) \/ Invalidates(c) \/ SpawnsCleanup(c)
      PROVE  GateInv'
  BY <1>0, <1>7
  DEF Disconnect, Notifies, Invalidates, SpawnsCleanup, Step, cleanVars
<1>8. ASSUME NEW g \in Generations, CleanupLocks(g) PROVE GateInv'
  BY <1>0, <1>8 DEF CleanupLocks
<1>9. CASE Cleaning
  <2>1. cleaning.step # "idle" /\ gate = Cleanup /\ UNCHANGED pc
    BY <1>9
    DEF Cleaning, CleanupChecks, CleanupStopsReader, CleanupClosesSocket,
        CleanupEnds, CleanupGivesUp
  <2>2. \/ cleaning'.step = "idle" /\ gate' = None
        \/ cleaning'.step # "idle" /\ gate' = gate
    BY <1>0, <1>9, CleaningTypes
    DEF Cleaning, CleanupChecks, CleanupStopsReader, CleanupClosesSocket,
        CleanupEnds, CleanupGivesUp, Idle, CleanupSteps
  <2>. QED
    BY <1>0, <2>1, <2>2
<1>10. CASE Reading \/ SendFails
  BY <1>1, <1>10
  DEF Reading, ReaderTakes, ReaderValidates, ReaderTells, LinkEnds, SendFails, cleanVars
<1>11. ASSUME NEW w \in Watchers, Watching(w) PROVE UNCHANGED <<pc, gate, cleaning>>
  BY <1>11 DEF Watching, WatchArms, WatchLooks, WatchSleeps, cleanVars
<1>12. CASE UNCHANGED vars
  BY <1>1, <1>12 DEF vars, cleanVars
<1>. QED
  BY <1>1, <1>2, <1>3, <1>4, <1>5, <1>6, <1>7, <1>8, <1>9, <1>10, <1>11, <1>12
  DEF Next, Connecting, Disconnecting

Working == Attempting \ {"reset", "arm", "dropped"}

LEMMA ActiveStep == TypeOK /\ GateInv /\ [Next]_vars => Active'
<1>. SUFFICES ASSUME TypeOK, GateInv, [Next]_vars PROVE Active'
  OBVIOUS
<1>0. /\ pc \in [Callers -> {"idle", "join", "wait", "health"}
                            \cup Attempting \cup Disconnects]
      /\ attempting <=> \E c \in Callers : pc[c] \in Working
      /\ Active' <=> (attempting' <=> \E c \in Callers : pc'[c] \in Working)
  BY DEF TypeOK, CallTypes, Active, Working
<1>1. CASE UNCHANGED <<pc, attempting>>
  BY <1>0, <1>1
<1>2. ASSUME NEW c \in Callers, UNCHANGED attempting,
             pc[c] \in Working <=> pc'[c] \in Working,
             \A d \in Callers \ {c} : pc'[d] = pc[d]
      PROVE  Active'
  BY <1>0, <1>2
<1>3. ASSUME NEW c \in Callers, NEW from, NEW to, Step(c, from, to)
      PROVE  pc[c] = from /\ pc'[c] = to /\ \A d \in Callers \ {c} : pc'[d] = pc[d]
  BY <1>0, <1>3 DEF Step
<1>4. ASSUME NEW c \in Callers,
             TryLock(c) \/ Join(c) \/ Acquire(c) \/ StopWaiting(c) \/ ReturnEarly(c)
             \/ Begin(c) \/ Reset(c) \/ Unlocks(c)
      PROVE  Active'
  BY <1>2, <1>3, <1>4
  DEF TryLock, Join, Acquire, StopWaiting, ReturnEarly, Begin, Reset, Unlocks,
      controlVars, Working, Attempting, Armed, Cuttable
<1>5. ASSUME NEW c \in Callers,
             Disconnect(c) \/ Notifies(c) \/ Invalidates(c) \/ SpawnsCleanup(c)
      PROVE  Active'
  BY <1>2, <1>3, <1>5
  DEF Disconnect, Notifies, Invalidates, SpawnsCleanup, controlVars, Working,
      Attempting, Armed, Cuttable
<1>6. ASSUME NEW c \in Callers, Check(c) \/ CutOff(c) PROVE Active'
  BY <1>0, <1>2, <1>6
  DEF Check, CutOff, controlVars, Working, Attempting, Armed, Cuttable
<1>7. ASSUME NEW c \in Callers,
             \/ StopsReader(c) \/ ClosesSocket(c) \/ MarksClosed(c)
             \/ MarksFailed(c) \/ Opens(c) \/ DialFails(c) \/ Dials(c)
             \/ SpawnsReader(c) \/ Shaken(c) \/ MarksReady(c)
      PROVE  Active'
  BY <1>2, <1>3, <1>7
  DEF StopsReader, ClosesSocket, MarksClosed, MarksFailed, Opens, DialFails,
      Dials, SpawnsReader, Shaken, MarksReady, Poll, controlVars, Working,
      Attempting, Armed, Cuttable
<1>8. ASSUME NEW c \in Callers, Arm(c) PROVE Active'
  BY <1>0, <1>3, <1>8 DEF Arm, Working, Attempting, Armed, Cuttable
<1>9. ASSUME NEW c \in Callers, Completes(c) \/ Drops(c) PROVE Active'
  <2>1. /\ attempting' = FALSE /\ pc'[c] = "dropped"
        /\ pc[c] \in UnderGate
        /\ \A d \in Callers \ {c} : pc'[d] = pc[d]
    BY <1>3, <1>9
    DEF Completes, Drops, UnderGate, Attempting, Armed, Cuttable
  <2>2. \A d \in Callers \ {c} : pc[d] \notin UnderGate
    BY <2>1 DEF GateInv
  <2>. QED
    BY <1>0, <2>1, <2>2 DEF Working, UnderGate
<1>10. ASSUME NEW g \in Generations, CleanupLocks(g) PROVE Active'
  BY <1>1, <1>10 DEF CleanupLocks, controlVars
<1>11. CASE Cleaning
  BY <1>1, <1>11
  DEF Cleaning, CleanupChecks, CleanupStopsReader, CleanupClosesSocket,
      CleanupEnds, CleanupGivesUp, controlVars
<1>12. CASE Reading \/ SendFails
  BY <1>1, <1>12
  DEF Reading, ReaderTakes, ReaderValidates, ReaderTells, LinkEnds, SendFails,
      controlVars
<1>13. ASSUME NEW w \in Watchers, Watching(w) PROVE UNCHANGED <<pc, attempting>>
  BY <1>13 DEF Watching, WatchArms, WatchLooks, WatchSleeps, controlVars
<1>14. CASE UNCHANGED vars
  BY <1>1, <1>14 DEF vars, controlVars
<1>. QED
  BY <1>1, <1>4, <1>5, <1>6, <1>7, <1>8, <1>9, <1>10, <1>11, <1>12, <1>13, <1>14
  DEF Next, Connecting, Disconnecting

LEMMA InitTypes == Init => TypeOK /\ GateInv
<1>. SUFFICES ASSUME Init PROVE TypeOK /\ GateInv
  OBVIOUS
<1>1. \A c \in Callers : pc[c] = "idle"
  BY DEF Init
<1>2. CallTypes
  BY Zero DEF Init, CallTypes
<1>3. ControlTypes
  <2>1. cleaning \in [step : {"idle", "check", "reader", "writer", "mark"},
                       gen : Generations]
    BY Zero DEF Init, Idle
  <2>2. disconnects \in 0 .. MaxDisconnects
    BY ConnectionAssumption DEF Init, ConnectionAssumption
  <2>3. pending \in [Generations -> Nat]
    BY DEF Init
  <2>. QED
    BY <2>1, <2>2, <2>3, Zero DEF Init, ControlTypes
<1>4. LinkTypes
  BY Zero DEF Init, LinkTypes
<1>5. Active
  BY <1>1 DEF Init, Active, Attempting, Armed, Cuttable
<1>6. GateInv
  BY <1>1, ConnectionAssumption
  DEF Init, GateInv, UnderGate, Attempting, Armed, Cuttable, Idle,
      ConnectionAssumption
<1>. QED
  BY <1>2, <1>3, <1>4, <1>5, <1>6, TypeParts

LEMMA TypeStep == TypeOK /\ GateInv /\ [Next]_vars => TypeOK' /\ GateInv'
<1>. SUFFICES ASSUME TypeOK, GateInv, [Next]_vars PROVE TypeOK' /\ GateInv'
  OBVIOUS
<1>1. CallTypes' /\ ControlTypes' /\ LinkTypes'
  BY TypeParts, CallStep, ControlStep, LinkStep
<1>2. Active' /\ GateInv'
  BY ActiveStep, GateStep
<1>3. TypeOK' <=> CallTypes' /\ ControlTypes' /\ LinkTypes' /\ Active'
  BY DEF TypeOK, Active
<1>. QED
  BY <1>1, <1>2, <1>3

(* The state of a transport has its type, and active_attempt is set exactly *)
(* while an attempt is between its start and its drop: what a call that    *)
(* joins an attempt goes by.                                               *)
THEOREM TypeCorrect == Spec => []TypeOK
<1>1. Init => TypeOK /\ GateInv
  BY InitTypes
<1>2. TypeOK /\ GateInv /\ [Next]_vars => TypeOK' /\ GateInv'
  BY TypeStep
<1>. QED
  BY <1>1, <1>2, PTL DEF Spec

-----------------------------------------------------------------------------
(* Generations.                                                            *)

LEMMA GenStep == TypeOK /\ GateInv /\ GenInv /\ [Next]_vars => GenInv'
<1>. SUFFICES ASSUME TypeOK, GateInv, GenInv, [Next]_vars PROVE GenInv'
  OBVIOUS
<1>0. /\ pc \in [Callers -> {"idle", "join", "wait", "health"}
                            \cup Attempting \cup Disconnects]
      /\ cleaning \in [step : CleanupSteps, gen : Generations]
      /\ gen \in [Callers -> Generations]
      /\ reader \in Nat /\ writer \in Nat /\ generation \in Nat
      /\ None # Cleanup /\ None \notin Callers /\ Cleanup \notin Callers
  BY ConnectionAssumption
  DEF TypeOK, CallTypes, ControlTypes, LinkTypes, CleanupSteps, Generations,
      ConnectionAssumption
<1>1. ASSUME UNCHANGED <<generation, gen>>,
             reader' <= generation, writer' <= generation,
             \A c \in Callers : pc'[c] \in Attempting => pc[c] \in Attempting,
             cleaning'.step \in {"reader", "writer", "mark"}
               => cleaning'.gen = generation
      PROVE  GenInv'
  BY <1>1 DEF GenInv
<1>2. ASSUME NEW c \in Callers, NEW from, NEW to, Step(c, from, to)
      PROVE  pc[c] = from /\ pc'[c] = to /\ \A d \in Callers \ {c} : pc'[d] = pc[d]
  BY <1>0, <1>2 DEF Step
<1>3. reader <= generation /\ writer <= generation /\ 0 <= generation
  BY <1>0 DEF GenInv
<1>4. cleaning.step \in {"reader", "writer", "mark"} => cleaning.gen = generation
  BY DEF GenInv
<1>5. ASSUME NEW c \in Callers,
             \/ TryLock(c) \/ Join(c) \/ Acquire(c) \/ StopWaiting(c)
             \/ ReturnEarly(c) \/ Reset(c) \/ Arm(c)
             \/ Disconnect(c) \/ Notifies(c) \/ Invalidates(c) \/ SpawnsCleanup(c)
      PROVE  GenInv'
  BY <1>1, <1>2, <1>3, <1>4, <1>5
  DEF TryLock, Join, Acquire, StopWaiting, ReturnEarly, Reset, Arm, Disconnect,
      Notifies, Invalidates, SpawnsCleanup, callVars, controlVars, cleanVars,
      linkVars, readVars, Attempting, Armed, Cuttable
<1>6. ASSUME NEW c \in Callers, Begin(c) PROVE GenInv'
  <2>1. pc[c] \in UnderGate /\ gate = c
    BY <1>2, <1>6 DEF Begin, GateInv, UnderGate
  <2>2. /\ \A d \in Callers \ {c} : pc[d] \notin UnderGate
        /\ cleaning.step = "idle"
    BY <1>0, <2>1 DEF GateInv
  <2>3. \A d \in Callers \ {c} : pc'[d] \notin Attempting
    BY <1>2, <1>6, <2>2 DEF Begin, UnderGate
  <2>4. generation' = generation + 1 /\ gen'[c] = generation'
    BY <1>0, <1>6 DEF Begin
  <2>5. UNCHANGED <<reader, writer, cleaning>>
    BY <1>6 DEF Begin, linkVars, readVars
  <2>. QED
    BY <1>0, <1>3, <2>2, <2>3, <2>4, <2>5 DEF GenInv
<1>7. ASSUME NEW c \in Callers, Check(c) \/ CutOff(c) PROVE GenInv'
  BY <1>0, <1>1, <1>3, <1>4, <1>7
  DEF Check, CutOff, callVars, controlVars, cleanVars, linkVars, readVars,
      Attempting, Armed
<1>8. ASSUME NEW c \in Callers,
             \/ StopsReader(c) \/ ClosesSocket(c) \/ MarksClosed(c)
             \/ MarksFailed(c) \/ Opens(c) \/ DialFails(c) \/ Shaken(c)
             \/ MarksReady(c) \/ Completes(c) \/ Drops(c)
      PROVE  GenInv'
  BY <1>1, <1>2, <1>3, <1>4, <1>8
  DEF StopsReader, ClosesSocket, MarksClosed, MarksFailed, Opens, DialFails,
      Shaken, MarksReady, Completes, Drops, Poll, AbortReader, callVars,
      controlVars, cleanVars, linkVars, readVars, Attempting, Armed, Cuttable
<1>9. ASSUME NEW c \in Callers, Dials(c) \/ SpawnsReader(c) PROVE GenInv'
  <2>1. gen[c] = generation
    BY <1>2, <1>9
    DEF GenInv, Dials, SpawnsReader, Poll, Attempting, Armed, Cuttable
  <2>. QED
    BY <1>0, <1>1, <1>2, <1>3, <1>4, <1>9, <2>1
    DEF Dials, SpawnsReader, Poll, callVars, controlVars, cleanVars, readVars,
        Attempting, Armed, Cuttable
<1>10. ASSUME NEW c \in Callers, Unlocks(c) PROVE GenInv'
  <2>1. /\ pc'[c] \notin Attempting
        /\ \A d \in Callers \ {c} : pc'[d] = pc[d] /\ gen'[d] = gen[d]
    BY <1>0, <1>2, <1>10 DEF Unlocks, Attempting, Armed, Cuttable
  <2>2. UNCHANGED <<generation, reader, writer, cleaning>>
    BY <1>10 DEF Unlocks, controlVars, cleanVars, linkVars, readVars
  <2>. QED
    BY <2>1, <2>2 DEF GenInv
<1>11. ASSUME NEW g \in Generations, CleanupLocks(g) PROVE GenInv'
  BY <1>1, <1>3, <1>11
  DEF CleanupLocks, callVars, controlVars, linkVars, readVars
<1>12. CASE Cleaning
  <2>1. UNCHANGED <<pc, gen, generation>> /\ reader' \in {reader, 0} /\ writer' \in {writer, 0}
    BY <1>12
    DEF Cleaning, CleanupChecks, CleanupStopsReader, CleanupClosesSocket,
        CleanupEnds, CleanupGivesUp, AbortReader, callVars, controlVars,
        linkVars, readVars
  <2>2. cleaning'.step \in {"reader", "writer", "mark"} => cleaning'.gen = generation
    BY <1>0, <1>4, <1>12, CleaningTypes
    DEF Cleaning, CleanupChecks, CleanupStopsReader, CleanupClosesSocket,
        CleanupEnds, CleanupGivesUp, Idle, CleanupSteps
  <2>. QED
    BY <1>1, <1>3, <2>1, <2>2
<1>13. CASE Reading \/ SendFails
  BY <1>1, <1>3, <1>4, <1>13
  DEF Reading, ReaderTakes, ReaderValidates, ReaderTells, LinkEnds, SendFails,
      AbortReader, callVars, controlVars, cleanVars, readVars
<1>14. ASSUME NEW w \in Watchers, Watching(w) PROVE GenInv'
  BY <1>1, <1>3, <1>4, <1>14
  DEF Watching, WatchArms, WatchLooks, WatchSleeps, callVars, controlVars,
      cleanVars, linkVars, readVars
<1>15. CASE UNCHANGED vars
  BY <1>1, <1>3, <1>4, <1>15
  DEF vars, callVars, controlVars, cleanVars, linkVars, readVars
<1>. QED
  BY <1>5, <1>6, <1>7, <1>8, <1>9, <1>10, <1>11, <1>12, <1>13, <1>14, <1>15
  DEF Next, Connecting, Disconnecting

(* A cleanup that waited while another attempt began finds its generation  *)
(* superseded and touches nothing (retire_if_current); one that found it   *)
(* current holds the gate without which no attempt can begin.              *)
THEOREM CleanupKeepsToItsLink == Spec => []OnlyOwnLink
<1>1. Init => TypeOK /\ GateInv /\ GenInv
  <2>1. Init => GenInv
    BY DEF Init, GenInv, Attempting, Armed, Cuttable, Idle
  <2>. QED
    BY <2>1, InitTypes
<1>2. TypeOK /\ GateInv /\ GenInv /\ [Next]_vars => TypeOK' /\ GateInv' /\ GenInv'
  BY TypeStep, GenStep
<1>3. GenInv => OnlyOwnLink
  BY DEF GenInv, OnlyOwnLink
<1>. QED
  BY <1>1, <1>2, <1>3, PTL DEF Spec

-----------------------------------------------------------------------------
(* Attempts that a disconnect has struck.                                  *)

LEMMA StruckStep == TypeOK /\ GateInv /\ StruckInv /\ [Next]_vars => StruckInv'
<1>. SUFFICES ASSUME TypeOK, GateInv, StruckInv, [Next]_vars PROVE StruckInv'
  OBVIOUS
<1>0. pc \in [Callers -> {"idle", "join", "wait", "health"}
                         \cup Attempting \cup Disconnects]
  BY DEF TypeOK, CallTypes
<1>1. ASSUME cancelled' => cancelled,
             \A c \in Callers : pc'[c] \in Cuttable
               => pc[c] \in Cuttable /\ (c \in woken => c \in woken'),
             \A d \in Callers : pc[d] = "notify" => pc'[d] = "notify"
      PROVE  StruckInv'
  BY <1>1 DEF StruckInv
<1>2. ASSUME NEW c \in Callers, NEW from, NEW to, Step(c, from, to)
      PROVE  pc[c] = from /\ pc'[c] = to /\ \A d \in Callers \ {c} : pc'[d] = pc[d]
  BY <1>0, <1>2 DEF Step
<1>3. ASSUME NEW c \in Callers,
             \/ TryLock(c) \/ Join(c) \/ Acquire(c) \/ StopWaiting(c)
             \/ ReturnEarly(c) \/ Begin(c) \/ Reset(c) \/ Arm(c)
             \/ Invalidates(c) \/ SpawnsCleanup(c) \/ Completes(c) \/ Unlocks(c)
      PROVE  StruckInv'
  BY <1>1, <1>2, <1>3
  DEF TryLock, Join, Acquire, StopWaiting, ReturnEarly, Begin, Reset, Arm,
      Invalidates, SpawnsCleanup, Completes, Unlocks, controlVars, Cuttable
<1>4. ASSUME NEW c \in Callers, Check(c) PROVE StruckInv'
  <2>1. CASE cancelled
    BY <1>0, <1>1, <1>4, <2>1 DEF Check, controlVars, Cuttable
  <2>2. CASE ~cancelled
    BY <1>4, <2>2 DEF Check, controlVars, StruckInv
  <2>. QED
    BY <2>1, <2>2
<1>5. ASSUME NEW c \in Callers, CutOff(c) PROVE StruckInv'
  BY <1>0, <1>1, <1>5 DEF CutOff, controlVars, Cuttable
<1>6. ASSUME NEW c \in Callers,
             \/ StopsReader(c) \/ ClosesSocket(c) \/ MarksClosed(c)
             \/ MarksFailed(c) \/ Opens(c) \/ DialFails(c) \/ Dials(c)
             \/ SpawnsReader(c) \/ Shaken(c) \/ MarksReady(c)
      PROVE  StruckInv'
  BY <1>1, <1>2, <1>6
  DEF StopsReader, ClosesSocket, MarksClosed, MarksFailed, Opens, DialFails,
      Dials, SpawnsReader, Shaken, MarksReady, Poll, controlVars, Cuttable
<1>7. ASSUME NEW c \in Callers, Drops(c) PROVE StruckInv'
  <2>1. /\ pc[c] \in UnderGate /\ pc'[c] = "dropped"
        /\ \A d \in Callers \ {c} : pc'[d] = pc[d]
    BY <1>2, <1>7 DEF Drops, UnderGate, Attempting
  <2>2. \A d \in Callers \ {c} : pc[d] \notin UnderGate
    BY <2>1 DEF GateInv
  <2>3. \A d \in Callers : pc'[d] \notin Cuttable
    BY <2>1, <2>2 DEF UnderGate, Attempting, Armed, Cuttable
  <2>. QED
    BY <2>3 DEF StruckInv
<1>8. ASSUME NEW c \in Callers, Disconnect(c) PROVE StruckInv'
  BY <1>2, <1>8 DEF Disconnect, StruckInv
<1>9. ASSUME NEW c \in Callers, Notifies(c) PROVE StruckInv'
  <2>1. \A a \in Callers : pc'[a] \in Cuttable => a \in woken'
    BY <1>2, <1>9 DEF Notifies, Armed, Cuttable
  <2>. QED
    BY <2>1 DEF StruckInv
<1>10. ASSUME NEW g \in Generations, CleanupLocks(g) PROVE StruckInv'
  BY <1>1, <1>10 DEF CleanupLocks, controlVars
<1>11. CASE Cleaning
  BY <1>1, <1>11
  DEF Cleaning, CleanupChecks, CleanupStopsReader, CleanupClosesSocket,
      CleanupEnds, CleanupGivesUp, controlVars
<1>12. CASE Reading \/ SendFails
  BY <1>1, <1>12
  DEF Reading, ReaderTakes, ReaderValidates, ReaderTells, LinkEnds, SendFails,
      controlVars
<1>13. ASSUME NEW w \in Watchers, Watching(w) PROVE StruckInv'
  BY <1>1, <1>13 DEF Watching, WatchArms, WatchLooks, WatchSleeps, controlVars
<1>14. CASE UNCHANGED vars
  BY <1>1, <1>14 DEF vars, controlVars
<1>. QED
  BY <1>3, <1>4, <1>5, <1>6, <1>7, <1>8, <1>9, <1>10, <1>11, <1>12, <1>13, <1>14
  DEF Next, Connecting, Disconnecting

(* Steps of an attempt look at `retired' first, or at cancelled: one that  *)
(* is struck only leaves.                                                  *)
LEMMA StruckOnlyLeaves ==
  ASSUME TypeOK, StruckInv, Next, cancelled,
         NEW c \in Callers, pc[c] \in Armed,
         pc'[c] \in Cuttable \cup {"complete"}, pc'[c] # pc[c]
  PROVE  \E d \in Callers : pc[d] = "notify"
<1>0. pc \in [Callers -> {"idle", "join", "wait", "health"}
                         \cup Attempting \cup Disconnects]
  BY DEF TypeOK, CallTypes
<1>1. SUFFICES ASSUME ~ \E d \in Callers : pc[d] = "notify" PROVE FALSE
  OBVIOUS
<1>2. pc[c] \in Cuttable => c \in woken
  BY <1>1 DEF StruckInv
<1>3. ASSUME NEW e \in Callers, NEW from, NEW to, Step(e, from, to)
      PROVE  e = c /\ pc[c] = from /\ pc'[c] = to
  BY <1>0, <1>3 DEF Step
<1>4. ASSUME NEW e \in Callers, NEW from \in Cuttable, NEW to, Poll(e, from, to)
      PROVE  FALSE
  BY <1>2, <1>3, <1>4 DEF Poll
<1>5. ASSUME UNCHANGED pc PROVE FALSE
  BY <1>5
<1>6. ASSUME NEW e \in Callers,
             \/ TryLock(e) \/ Join(e) \/ Acquire(e) \/ StopWaiting(e)
             \/ ReturnEarly(e) \/ Begin(e) \/ Reset(e) \/ Arm(e)
             \/ Completes(e) \/ Drops(e) \/ Unlocks(e)
             \/ Disconnect(e) \/ Notifies(e) \/ Invalidates(e) \/ SpawnsCleanup(e)
      PROVE  FALSE
  <2>1. ASSUME NEW from \in {"idle", "join", "wait", "health", "reset", "arm",
                             "complete", "drop", "dropped"} \cup Disconnects,
               NEW to, Step(e, from, to)
        PROVE  FALSE
    BY <1>3, <2>1 DEF Armed, Cuttable, Disconnects
  <2>2. CASE TryLock(e) \/ Join(e) \/ Acquire(e) \/ StopWaiting(e) \/ ReturnEarly(e)
    BY <2>1, <2>2 DEF TryLock, Join, Acquire, StopWaiting, ReturnEarly
  <2>3. CASE Begin(e) \/ Reset(e) \/ Arm(e) \/ Completes(e) \/ Drops(e) \/ Unlocks(e)
    BY <2>1, <2>3 DEF Begin, Reset, Arm, Completes, Drops, Unlocks
  <2>4. CASE Disconnect(e) \/ Notifies(e) \/ Invalidates(e) \/ SpawnsCleanup(e)
    BY <2>1, <2>4 DEF Disconnect, Notifies, Invalidates, SpawnsCleanup, Disconnects
  <2>. QED
    BY <1>6, <2>2, <2>3, <2>4
<1>7. ASSUME NEW e \in Callers, Check(e) \/ CutOff(e) PROVE FALSE
  BY <1>0, <1>7 DEF Check, CutOff, Cuttable
<1>8. ASSUME NEW e \in Callers,
             \/ StopsReader(e) \/ ClosesSocket(e) \/ MarksClosed(e)
             \/ MarksFailed(e) \/ Opens(e) \/ DialFails(e) \/ Dials(e)
             \/ SpawnsReader(e) \/ Shaken(e) \/ MarksReady(e)
      PROVE  FALSE
  BY <1>4, <1>8
  DEF StopsReader, ClosesSocket, MarksClosed, MarksFailed, Opens, DialFails,
      Dials, SpawnsReader, Shaken, MarksReady, Cuttable
<1>9. ASSUME NEW g \in Generations, CleanupLocks(g) PROVE FALSE
  BY <1>5, <1>9 DEF CleanupLocks
<1>10. CASE Cleaning
  BY <1>5, <1>10
  DEF Cleaning, CleanupChecks, CleanupStopsReader, CleanupClosesSocket,
      CleanupEnds, CleanupGivesUp
<1>11. CASE Reading \/ SendFails
  BY <1>5, <1>11
  DEF Reading, ReaderTakes, ReaderValidates, ReaderTells, LinkEnds, SendFails
<1>12. ASSUME NEW w \in Watchers, Watching(w) PROVE FALSE
  BY <1>5, <1>12 DEF Watching, WatchArms, WatchLooks, WatchSleeps
<1>. QED
  BY <1>6, <1>7, <1>8, <1>9, <1>10, <1>11, <1>12
  DEF Next, Connecting, Disconnecting

(* disconnect() sets cancelled and then wakes whoever listens to `retired', *)
(* an attempt listens first and then looks at cancelled: between them no   *)
(* attempt is missed.                                                      *)
THEOREM StruckStops == Spec => StruckAttemptsStop
<1>1. Init => TypeOK /\ GateInv /\ StruckInv
  BY InitTypes DEF Init, StruckInv
<1>2. TypeOK /\ GateInv /\ StruckInv /\ [Next]_vars => TypeOK' /\ GateInv' /\ StruckInv'
  BY TypeStep, StruckStep
<1>3. TypeOK /\ StruckInv /\ [Next]_vars
        => [\A c \in Callers :
              (/\ cancelled
               /\ pc[c] \in Armed /\ pc'[c] \in Cuttable \cup {"complete"}
               /\ pc'[c] # pc[c])
                => \E d \in Callers : pc[d] = "notify"]_vars
  BY StruckOnlyLeaves
<1>. QED
  BY <1>1, <1>2, <1>3, PTL DEF Spec, StruckAttemptsStop

-----------------------------------------------------------------------------
(* Links that were cancelled.                                              *)

LEMMA TakenStep == TypeOK /\ GateInv /\ TakenInv /\ [Next]_vars => TakenInv'
<1>. SUFFICES ASSUME TypeOK, GateInv, TakenInv, [Next]_vars PROVE TakenInv'
  OBVIOUS
<1>0. /\ pc \in [Callers -> {"idle", "join", "wait", "health"}
                            \cup Attempting \cup Disconnects]
      /\ cleaning \in [step : CleanupSteps, gen : Generations]
      /\ None # Cleanup /\ None \notin Callers /\ Cleanup \notin Callers
  BY ConnectionAssumption
  DEF TypeOK, CallTypes, ControlTypes, CleanupSteps, ConnectionAssumption
<1>1. ASSUME UNCHANGED cleaning, reader' \in {reader, 0}, writer' \in {writer, 0}
      PROVE  TakenInv'
  BY <1>1 DEF TakenInv
<1>2. ASSUME NEW c \in Callers,
             \/ TryLock(c) \/ Join(c) \/ Acquire(c) \/ StopWaiting(c)
             \/ ReturnEarly(c) \/ Begin(c) \/ Reset(c) \/ Arm(c) \/ Check(c)
             \/ CutOff(c) \/ Shaken(c) \/ MarksReady(c) \/ Completes(c)
             \/ Drops(c) \/ Unlocks(c) \/ Disconnect(c) \/ Notifies(c)
             \/ Invalidates(c) \/ SpawnsCleanup(c)
      PROVE  TakenInv'
  BY <1>1, <1>2
  DEF TryLock, Join, Acquire, StopWaiting, ReturnEarly, Begin, Reset, Arm, Check,
      CutOff, Shaken, MarksReady, Completes, Drops, Unlocks, Disconnect, Notifies,
      Invalidates, SpawnsCleanup, cleanVars, linkVars, readVars
<1>3. ASSUME NEW c \in Callers,
             \/ StopsReader(c) \/ ClosesSocket(c) \/ MarksClosed(c)
             \/ MarksFailed(c) \/ Opens(c) \/ DialFails(c)
      PROVE  TakenInv'
  BY <1>1, <1>3
  DEF StopsReader, ClosesSocket, MarksClosed, MarksFailed, Opens, DialFails,
      AbortReader, cleanVars, readVars
<1>4. ASSUME NEW c \in Callers, Dials(c) \/ SpawnsReader(c) PROVE TakenInv'
  <2>1. pc[c] \in UnderGate
    BY <1>4
    DEF Dials, SpawnsReader, Poll, Step, UnderGate, Attempting, Armed, Cuttable
  <2>2. cleaning.step = "idle"
    BY <1>0, <2>1 DEF GateInv
  <2>3. UNCHANGED cleaning
    BY <1>4 DEF Dials, SpawnsReader, cleanVars
  <2>. QED
    BY <2>2, <2>3 DEF TakenInv
<1>5. ASSUME NEW g \in Generations, CleanupLocks(g) PROVE TakenInv'
  BY <1>5 DEF CleanupLocks, TakenInv
<1>6. CASE Cleaning
  BY <1>0, <1>6, CleaningTypes
  DEF Cleaning, CleanupChecks, CleanupStopsReader, CleanupClosesSocket,
      CleanupEnds, CleanupGivesUp, AbortReader, linkVars, readVars, TakenInv,
      Idle, CleanupSteps
<1>7. CASE Reading \/ SendFails
  BY <1>1, <1>7
  DEF Reading, ReaderTakes, ReaderValidates, ReaderTells, LinkEnds, SendFails,
      AbortReader, cleanVars, readVars
<1>8. ASSUME NEW w \in Watchers, Watching(w) PROVE TakenInv'
  BY <1>1, <1>8
  DEF Watching, WatchArms, WatchLooks, WatchSleeps, cleanVars, linkVars, readVars
<1>9. CASE UNCHANGED vars
  BY <1>1, <1>9 DEF vars, cleanVars, linkVars, readVars
<1>. QED
  BY <1>2, <1>3, <1>4, <1>5, <1>6, <1>7, <1>8, <1>9
  DEF Next, Connecting, Disconnecting

(* A cleanup stays owed until it holds the gate, or an attempt begins.     *)
LEMMA OwedStays ==
  ASSUME TypeOK, [Next]_vars, Owed
  PROVE  \/ Owed'
         \/ \E c \in Callers : Begin(c)
         \/ gate = None /\ UNCHANGED pc /\ cleaning'.gen = generation'
<1>0. /\ pc \in [Callers -> {"idle", "join", "wait", "health"}
                            \cup Attempting \cup Disconnects]
      /\ pending \in [Generations -> Nat] /\ generation \in Generations
      /\ gen \in [Callers -> Generations]
  BY DEF TypeOK, CallTypes, ControlTypes
<1>1. ASSUME UNCHANGED <<generation, pending>>,
             \A d \in Callers : pc[d] \in Disconnects => pc'[d] \in Disconnects
      PROVE  Owed'
  BY <1>1 DEF Owed
<1>2. ASSUME NEW c \in Callers, NEW from, NEW to, Step(c, from, to)
      PROVE  pc[c] = from /\ pc'[c] = to /\ \A d \in Callers \ {c} : pc'[d] = pc[d]
  BY <1>0, <1>2 DEF Step
<1>3. ASSUME NEW c \in Callers,
             \/ TryLock(c) \/ Join(c) \/ Acquire(c) \/ StopWaiting(c)
             \/ ReturnEarly(c) \/ Reset(c) \/ Arm(c) \/ Completes(c) \/ Unlocks(c)
             \/ Disconnect(c) \/ Notifies(c) \/ Invalidates(c)
      PROVE  Owed'
  BY <1>1, <1>2, <1>3
  DEF TryLock, Join, Acquire, StopWaiting, ReturnEarly, Reset, Arm, Completes,
      Unlocks, Disconnect, Notifies, Invalidates, controlVars, cleanVars,
      Disconnects
<1>4. ASSUME NEW c \in Callers, Check(c) \/ CutOff(c) PROVE Owed'
  BY <1>0, <1>1, <1>4 DEF Check, CutOff, controlVars, cleanVars, Cuttable, Disconnects
<1>5. ASSUME NEW c \in Callers,
             \/ StopsReader(c) \/ ClosesSocket(c) \/ MarksClosed(c)
             \/ MarksFailed(c) \/ Opens(c) \/ DialFails(c) \/ Dials(c)
             \/ SpawnsReader(c) \/ Shaken(c) \/ MarksReady(c)
      PROVE  Owed'
  BY <1>1, <1>2, <1>5
  DEF StopsReader, ClosesSocket, MarksClosed, MarksFailed, Opens, DialFails,
      Dials, SpawnsReader, Shaken, MarksReady, Poll, controlVars, cleanVars,
      Disconnects
<1>6. ASSUME NEW c \in Callers, Drops(c) PROVE Owed'
  <2>1. /\ pending[generation] > 0 => pending'[generation] > 0
        /\ UNCHANGED generation
    BY <1>0, <1>6 DEF Drops
  <2>2. \A d \in Callers : pc[d] \in Disconnects => pc'[d] \in Disconnects
    BY <1>2, <1>6 DEF Drops, Disconnects
  <2>. QED
    BY <2>1, <2>2 DEF Owed
<1>7. ASSUME NEW c \in Callers, SpawnsCleanup(c) PROVE Owed'
  <2>1. pending'[generation] > 0 /\ UNCHANGED generation
    BY <1>0, <1>7 DEF SpawnsCleanup, controlVars
  <2>. QED
    BY <2>1 DEF Owed
<1>8. ASSUME NEW g \in Generations, CleanupLocks(g)
      PROVE  Owed' \/ (gate = None /\ UNCHANGED pc /\ cleaning'.gen = generation')
  <2>1. CASE g = generation
    BY <1>8, <2>1 DEF CleanupLocks, controlVars
  <2>2. CASE g # generation
    BY <1>0, <1>8, <2>2 DEF CleanupLocks, controlVars, Owed
  <2>. QED
    BY <2>1, <2>2
<1>9. CASE Cleaning
  BY <1>1, <1>9
  DEF Cleaning, CleanupChecks, CleanupStopsReader, CleanupClosesSocket,
      CleanupEnds, CleanupGivesUp, controlVars
<1>10. CASE Reading \/ SendFails
  BY <1>1, <1>10
  DEF Reading, ReaderTakes, ReaderValidates, ReaderTells, LinkEnds, SendFails,
      controlVars, cleanVars
<1>11. ASSUME NEW w \in Watchers, Watching(w) PROVE Owed'
  BY <1>1, <1>11 DEF Watching, WatchArms, WatchLooks, WatchSleeps, controlVars, cleanVars
<1>12. CASE UNCHANGED vars
  BY <1>1, <1>12 DEF vars, controlVars, cleanVars
<1>. QED
  BY <1>3, <1>4, <1>5, <1>6, <1>7, <1>8, <1>9, <1>10, <1>11, <1>12
  DEF Next, Connecting, Disconnecting

(* Only the callers themselves take cancelled or an attempt anywhere.      *)
LEMMA OwedStep ==
  TypeOK /\ GateInv /\ GenInv /\ OwedInv /\ [Next]_vars => OwedInv'
<1>. SUFFICES ASSUME TypeOK, GateInv, GenInv, OwedInv, [Next]_vars,
                     NEW c \in Callers,
                     cancelled', pc'[c] \in Attempting \ {"reset"}
              PROVE  Owed'
  BY DEF OwedInv
<1>0. /\ pc \in [Callers -> {"idle", "join", "wait", "health"}
                            \cup Attempting \cup Disconnects]
      /\ pending \in [Generations -> Nat] /\ generation \in Generations
      /\ None \notin Callers /\ Cleanup \notin Callers
  BY ConnectionAssumption DEF TypeOK, CallTypes, ControlTypes, ConnectionAssumption
<1>1. ASSUME cancelled, pc[c] \in Attempting \ {"reset"} PROVE Owed'
  <2>1. Owed
    BY <1>1 DEF OwedInv
  <2>2. gate = c
    BY <1>1 DEF GateInv, UnderGate
  <2>3. ASSUME NEW e \in Callers, Begin(e) PROVE FALSE
    <3>1. pc[e] = "health" /\ gate = e
      BY <2>3 DEF Begin, Step, GateInv, UnderGate
    <3>. QED
      BY <1>1, <2>2, <3>1 DEF Attempting, Armed, Cuttable
  <2>. QED
    BY <1>0, <2>1, <2>2, <2>3, OwedStays
<1>2. ASSUME NEW e \in Callers, NEW from, NEW to, Step(e, from, to)
      PROVE  pc[e] = from /\ pc'[e] = to /\ \A d \in Callers \ {e} : pc'[d] = pc[d]
  BY <1>0, <1>2 DEF Step
<1>3. ASSUME NEW e \in Callers,
             \/ TryLock(e) \/ Join(e) \/ Acquire(e) \/ StopWaiting(e)
             \/ ReturnEarly(e) \/ Begin(e) \/ Arm(e) \/ Completes(e)
             \/ Unlocks(e) \/ Notifies(e) \/ Invalidates(e) \/ SpawnsCleanup(e)
      PROVE  Owed'
  <2>1. cancelled' = cancelled
    BY <1>3
    DEF TryLock, Join, Acquire, StopWaiting, ReturnEarly, Begin, Arm,
        Completes, Unlocks, Notifies, Invalidates, SpawnsCleanup, controlVars
  <2>2. pc[c] \in Attempting \ {"reset"}
    <3>1. CASE c = e
      <4>1. \/ pc[e] \in Attempting \ {"reset"}
            \/ pc'[e] \notin Attempting \ {"reset"}
        <5>1. CASE TryLock(e) \/ Join(e) \/ Acquire(e) \/ StopWaiting(e)
                   \/ ReturnEarly(e)
          BY <1>2, <5>1
          DEF TryLock, Join, Acquire, StopWaiting, ReturnEarly,
              Attempting, Armed, Cuttable
        <5>4. CASE Begin(e)
          BY <1>2, <5>4 DEF Begin
        <5>2. CASE Arm(e) \/ Completes(e)
          <6>1. Step(e, "arm", "check") \/ Step(e, "complete", "dropped")
            BY <5>2 DEF Arm, Completes
          <6>2. pc[e] = "arm" \/ pc[e] = "complete"
            BY <1>2, <6>1
          <6>. QED
            BY <6>2 DEF Attempting
        <5>3. CASE Unlocks(e) \/ Notifies(e) \/ Invalidates(e) \/ SpawnsCleanup(e)
          BY <1>2, <5>3
          DEF Unlocks, Notifies, Invalidates, SpawnsCleanup, Attempting, Armed,
              Cuttable
        <5>. QED
          BY <1>3, <5>1, <5>2, <5>3, <5>4
      <4>. QED
        BY <3>1, <4>1
    <3>2. CASE c # e
      BY <1>2, <1>3, <3>2
      DEF TryLock, Join, Acquire, StopWaiting, ReturnEarly, Begin, Arm,
          Completes, Unlocks, Notifies, Invalidates, SpawnsCleanup
    <3>. QED
      BY <3>1, <3>2
  <2>. QED
    BY <1>1, <2>1, <2>2
<1>4. ASSUME NEW e \in Callers, Check(e) \/ CutOff(e) PROVE Owed'
  BY <1>0, <1>1, <1>4
  DEF Check, CutOff, controlVars, Attempting, Armed, Cuttable
<1>5. ASSUME NEW e \in Callers,
             \/ StopsReader(e) \/ ClosesSocket(e) \/ MarksClosed(e)
             \/ MarksFailed(e) \/ Opens(e) \/ DialFails(e) \/ Dials(e)
             \/ SpawnsReader(e) \/ Shaken(e) \/ MarksReady(e)
      PROVE  Owed'
  <2>1. cancelled' = cancelled
    BY <1>5
    DEF StopsReader, ClosesSocket, MarksClosed, MarksFailed, Opens, DialFails,
        Dials, SpawnsReader, Shaken, MarksReady, controlVars
  <2>2. pc[e] \in Cuttable /\ \A d \in Callers \ {e} : pc'[d] = pc[d]
    BY <1>2, <1>5
    DEF StopsReader, ClosesSocket, MarksClosed, MarksFailed, Opens, DialFails,
        Dials, SpawnsReader, Shaken, MarksReady, Poll, Cuttable
  <2>3. pc[c] \in Attempting \ {"reset"}
    BY <2>2 DEF Attempting, Armed, Cuttable
  <2>. QED
    BY <1>1, <2>1, <2>3
<1>6. ASSUME NEW e \in Callers, Drops(e) PROVE Owed'
  <2>1. gen[e] = generation
    BY <1>6 DEF Drops, Step, GenInv, Attempting
  <2>2. pending'[generation] > 0 /\ UNCHANGED generation
    BY <1>0, <1>6, <2>1 DEF Drops
  <2>. QED
    BY <2>2 DEF Owed
<1>7. ASSUME NEW e \in Callers, Disconnect(e) PROVE Owed'
  BY <1>2, <1>7 DEF Disconnect, Owed, Disconnects
<1>13. ASSUME NEW e \in Callers, Reset(e) PROVE Owed'
  BY <1>13 DEF Reset
<1>8. ASSUME NEW g \in Generations, CleanupLocks(g) PROVE Owed'
  BY <1>1, <1>8 DEF CleanupLocks, controlVars
<1>9. CASE Cleaning
  BY <1>1, <1>9
  DEF Cleaning, CleanupChecks, CleanupStopsReader, CleanupClosesSocket,
      CleanupEnds, CleanupGivesUp, controlVars
<1>10. CASE Reading \/ SendFails
  BY <1>1, <1>10
  DEF Reading, ReaderTakes, ReaderValidates, ReaderTells, LinkEnds, SendFails,
      controlVars
<1>11. ASSUME NEW w \in Watchers, Watching(w) PROVE Owed'
  BY <1>1, <1>11 DEF Watching, WatchArms, WatchLooks, WatchSleeps, controlVars
<1>12. CASE UNCHANGED vars
  BY <1>1, <1>12 DEF vars, controlVars
<1>. QED
  BY <1>3, <1>4, <1>5, <1>6, <1>7, <1>8, <1>9, <1>10, <1>11, <1>12, <1>13
  DEF Next, Connecting, Disconnecting

(* What is left of a cancelled link was left before, or the step leaves it *)
(* to a cleanup.                                                           *)
LEMMA LeftStep ==
  TypeOK /\ GateInv /\ GenInv /\ OrphanInv /\ [Next]_vars => LeftInv'
<1>. DEFINE Left == gaveUp \/ Owed \/ cleaning.gen = generation
<1>. SUFFICES ASSUME TypeOK, GateInv, GenInv, OrphanInv, [Next]_vars,
                     cancelled', Linked',
                     \A c \in Callers : pc'[c] \notin Owning
              PROVE  Left'
  BY DEF LeftInv
<1>0. /\ pc \in [Callers -> {"idle", "join", "wait", "health"}
                            \cup Attempting \cup Disconnects]
      /\ cleaning \in [step : CleanupSteps, gen : Generations]
      /\ pending \in [Generations -> Nat] /\ generation \in Generations
      /\ reader \in Nat /\ writer \in Nat /\ generation \in Nat
      /\ None # Cleanup /\ None \notin Callers /\ Cleanup \notin Callers
  BY ConnectionAssumption
  DEF TypeOK, CallTypes, ControlTypes, LinkTypes, CleanupSteps, Generations,
      ConnectionAssumption
<1>1. ASSUME NEW e \in Callers, NEW from, NEW to, Step(e, from, to)
      PROVE  pc[e] = from /\ pc'[e] = to /\ \A d \in Callers \ {e} : pc'[d] = pc[d]
  BY <1>0, <1>1 DEF Step
<1>2. ASSUME NEW e \in Callers, Begin(e) PROVE FALSE
  BY <1>1, <1>2 DEF Begin, Owning, Attempting
<1>3. Owed => Left'
  BY <1>2, OwedStays
<1>4. ASSUME cancelled, Linked, \A c \in Callers : pc[c] \notin Owning
      PROVE  Left
  BY <1>4 DEF OrphanInv, LeftInv
<1>5. ASSUME cancelled' => cancelled, Linked' => Linked,
             \A c \in Callers : pc[c] \in Owning => pc'[c] \in Owning,
             UNCHANGED <<generation, gaveUp, cleaning>>
      PROVE  Left'
  BY <1>3, <1>4, <1>5
<1>6. ASSUME NEW e \in Callers,
             \/ TryLock(e) \/ Join(e) \/ Acquire(e) \/ StopWaiting(e)
             \/ ReturnEarly(e) \/ Arm(e) \/ Unlocks(e)
             \/ Notifies(e) \/ Invalidates(e)
      PROVE  Left'
  <2>1. UNCHANGED <<cancelled, reader, writer, generation, gaveUp, cleaning>>
    BY <1>6
    DEF TryLock, Join, Acquire, StopWaiting, ReturnEarly, Arm, Unlocks,
        Notifies, Invalidates, controlVars, cleanVars, linkVars, readVars
  <2>2. pc[e] \notin Owning \/ pc'[e] \in Owning
    <3>1. CASE Arm(e)
      BY <1>1, <3>1 DEF Arm, Owning, Attempting, Armed
    <3>2. CASE TryLock(e) \/ Join(e) \/ Acquire(e) \/ StopWaiting(e) \/ ReturnEarly(e)
      BY <1>1, <3>2
      DEF TryLock, Join, Acquire, StopWaiting, ReturnEarly, Owning, Attempting,
          Armed, Cuttable
    <3>3. CASE Unlocks(e) \/ Notifies(e) \/ Invalidates(e)
      BY <1>1, <3>3
      DEF Unlocks, Notifies, Invalidates, Owning, Attempting, Armed, Cuttable
    <3>. QED
      BY <1>6, <3>1, <3>2, <3>3
  <2>3. \A d \in Callers \ {e} : pc'[d] = pc[d]
    BY <1>1, <1>6
    DEF TryLock, Join, Acquire, StopWaiting, ReturnEarly, Arm, Unlocks,
        Notifies, Invalidates
  <2>. QED
    BY <1>5, <2>1, <2>2, <2>3 DEF Linked
<1>17. ASSUME NEW e \in Callers, Reset(e) PROVE FALSE
  BY <1>17 DEF Reset
<1>18. ASSUME NEW e \in Callers, SpawnsCleanup(e) PROVE Left'
  <2>1. pc[e] = "spawnCleanup"
    BY <1>18 DEF SpawnsCleanup, Step
  <2>. QED
    BY <1>3, <2>1 DEF Owed, Disconnects
<1>7. ASSUME NEW e \in Callers, Check(e) \/ CutOff(e) PROVE FALSE
  BY <1>0, <1>7 DEF Check, CutOff, Owning, Attempting, Armed, Cuttable
<1>8. ASSUME NEW e \in Callers,
             \/ StopsReader(e) \/ ClosesSocket(e) \/ MarksClosed(e)
             \/ MarksFailed(e) \/ Opens(e) \/ DialFails(e) \/ Dials(e)
             \/ SpawnsReader(e) \/ Shaken(e) \/ MarksReady(e)
      PROVE  FALSE
  BY <1>1, <1>8
  DEF StopsReader, ClosesSocket, MarksClosed, MarksFailed, Opens, DialFails,
      Dials, SpawnsReader, Shaken, MarksReady, Poll, Owning, Attempting, Armed,
      Cuttable
<1>9. ASSUME NEW e \in Callers, Completes(e) PROVE Left'
  <2>1. cancelled /\ pc[e] \in Attempting \ {"reset"}
    BY <1>9 DEF Completes, Step, Attempting
  <2>. QED
    BY <1>3, <2>1 DEF OrphanInv, OwedInv
<1>10. ASSUME NEW e \in Callers, Drops(e) PROVE Left'
  <2>1. gen[e] = generation
    BY <1>10 DEF Drops, Step, GenInv, Attempting
  <2>2. pending'[generation] > 0 /\ UNCHANGED generation
    BY <1>0, <1>10, <2>1 DEF Drops
  <2>. QED
    BY <2>2 DEF Owed
<1>11. ASSUME NEW e \in Callers, Disconnect(e) PROVE Left'
  BY <1>1, <1>11 DEF Disconnect, Owed, Disconnects
<1>12. ASSUME NEW g \in Generations, CleanupLocks(g) PROVE Left'
  <2>1. cancelled /\ Linked /\ UNCHANGED <<pc, gaveUp>>
    BY <1>12 DEF CleanupLocks, controlVars, linkVars, readVars, Linked
  <2>2. generation # 0
    BY <1>0, <2>1 DEF Linked, GenInv
  <2>3. cleaning.gen = 0
    BY <1>0, <1>12 DEF CleanupLocks, GateInv, OrphanInv, TakenInv
  <2>. QED
    BY <1>3, <1>4, <2>1, <2>2, <2>3
<1>13. CASE Cleaning
  <2>1. /\ UNCHANGED <<pc, cancelled, generation>> /\ gaveUp' \in {gaveUp, TRUE}
        /\ reader' \in {reader, 0} /\ writer' \in {writer, 0}
    BY <1>13
    DEF Cleaning, CleanupChecks, CleanupStopsReader, CleanupClosesSocket,
        CleanupEnds, CleanupGivesUp, AbortReader, controlVars, linkVars, readVars
  <2>2. Left
    BY <1>4, <2>1 DEF Linked
  <2>3. ASSUME cleaning.gen = generation PROVE Left'
    BY <1>0, <1>13, <2>3
    DEF Cleaning, CleanupChecks, CleanupStopsReader, CleanupClosesSocket,
        CleanupEnds, CleanupGivesUp, AbortReader, controlVars, linkVars,
        readVars, Linked, OrphanInv, TakenInv
  <2>4. ASSUME gaveUp PROVE gaveUp'
    BY <2>1, <2>4
  <2>. QED
    BY <1>3, <2>2, <2>3, <2>4
<1>14. CASE Reading \/ SendFails
  BY <1>5, <1>14
  DEF Reading, ReaderTakes, ReaderValidates, ReaderTells, LinkEnds, SendFails,
      AbortReader, controlVars, cleanVars, readVars, Linked
<1>15. ASSUME NEW w \in Watchers, Watching(w) PROVE Left'
  BY <1>5, <1>15
  DEF Watching, WatchArms, WatchLooks, WatchSleeps, controlVars, cleanVars,
      linkVars, readVars, Linked
<1>16. CASE UNCHANGED vars
  BY <1>5, <1>16 DEF vars, controlVars, cleanVars, linkVars, readVars, Linked
<1>. QED
  BY <1>2, <1>6, <1>7, <1>8, <1>9, <1>10, <1>11, <1>12, <1>13, <1>14, <1>15, <1>16, <1>17, <1>18
  DEF Next, Connecting, Disconnecting

(* disconnect() and the drop of a failed attempt both leave a cleanup      *)
(* behind, and neither takes the gate: the cleanup takes down what is      *)
(* there once it holds it, and the next attempt what came before.          *)
THEOREM NoLinkIsLeft == Spec => []NoOrphan
<1>. DEFINE Inv == TypeOK /\ GateInv /\ GenInv /\ OrphanInv
<1>1. Init => Inv
  <2>1. Init => GenInv /\ OrphanInv
    BY DEF Init, GenInv, OrphanInv, OwedInv, LeftInv, TakenInv, Attempting,
           Armed, Cuttable, Idle
  <2>. QED
    BY <2>1, InitTypes
<1>2. Inv /\ [Next]_vars => Inv'
  BY TypeStep, GenStep, OwedStep, LeftStep, TakenStep DEF OrphanInv
<1>3. Inv => NoOrphan
  BY DEF OrphanInv, LeftInv, OwedInv, NoOrphan, Owed, Owning
<1>. QED
  BY <1>1, <1>2, <1>3, PTL DEF Spec

-----------------------------------------------------------------------------
(* What the health says.                                                   *)

LEMMA SetUpStep ==
  TypeOK /\ GateInv /\ GenInv /\ SetUpInv /\ [Next]_vars => SetUpInv'
<1>. SUFFICES ASSUME TypeOK, GateInv, GenInv, SetUpInv, [Next]_vars
              PROVE  SetUpInv'
  OBVIOUS
<1>0. /\ pc \in [Callers -> {"idle", "join", "wait", "health"}
                            \cup Attempting \cup Disconnects]
      /\ None # Cleanup /\ None \notin Callers /\ Cleanup \notin Callers
  BY ConnectionAssumption DEF TypeOK, CallTypes, ConnectionAssumption
<1>1. ASSUME UNCHANGED <<writer, generation>>, reader' = 0 => reading' = "next",
             \A d \in Callers : pc'[d] = "spawn" => pc[d] = "spawn"
      PROVE  SetUpInv'
  BY <1>1 DEF SetUpInv
<1>2. reader = 0 => reading = "next"
  BY DEF SetUpInv
<1>3. ASSUME NEW c \in Callers, NEW from, NEW to, Step(c, from, to)
      PROVE  pc[c] = from /\ pc'[c] = to /\ \A d \in Callers \ {c} : pc'[d] = pc[d]
  BY <1>0, <1>3 DEF Step
<1>4. ASSUME NEW c \in Callers,
             \/ TryLock(c) \/ Join(c) \/ Acquire(c) \/ StopWaiting(c)
             \/ ReturnEarly(c) \/ Reset(c) \/ Arm(c) \/ Completes(c)
             \/ Drops(c) \/ Unlocks(c) \/ Disconnect(c) \/ Notifies(c)
             \/ Invalidates(c) \/ SpawnsCleanup(c)
      PROVE  SetUpInv'
  BY <1>1, <1>2, <1>3, <1>4
  DEF TryLock, Join, Acquire, StopWaiting, ReturnEarly, Reset, Arm, Completes,
      Drops, Unlocks, Disconnect, Notifies, Invalidates, SpawnsCleanup,
      controlVars, linkVars, readVars
<1>5. ASSUME NEW c \in Callers, Check(c) \/ CutOff(c) PROVE SetUpInv'
  BY <1>0, <1>1, <1>2, <1>5 DEF Check, CutOff, controlVars, linkVars, readVars
<1>6. ASSUME NEW c \in Callers,
             \/ StopsReader(c) \/ MarksClosed(c) \/ MarksFailed(c) \/ Opens(c)
             \/ DialFails(c) \/ SpawnsReader(c) \/ Shaken(c) \/ MarksReady(c)
      PROVE  SetUpInv'
  BY <1>1, <1>2, <1>3, <1>6
  DEF StopsReader, MarksClosed, MarksFailed, Opens, DialFails, SpawnsReader,
      Shaken, MarksReady, Poll, AbortReader, controlVars, linkVars, readVars
<1>7. ASSUME NEW c \in Callers, Begin(c) \/ ClosesSocket(c) \/ Dials(c)
      PROVE  SetUpInv'
  <2>1. /\ pc[c] \in UnderGate /\ (pc'[c] = "spawn" => Dials(c))
        /\ \A d \in Callers \ {c} : pc'[d] = pc[d]
    BY <1>3, <1>7
    DEF Begin, ClosesSocket, Dials, Poll, UnderGate, Attempting, Armed, Cuttable
  <2>2. \A d \in Callers \ {c} : pc'[d] # "spawn"
    BY <2>1 DEF GateInv, UnderGate, Attempting, Armed, Cuttable
  <2>3. Dials(c) => writer' = generation'
    BY DEF Dials, Poll, Step, GenInv, controlVars, Attempting, Armed, Cuttable
  <2>4. UNCHANGED <<reader, reading>>
    BY <1>7 DEF Begin, ClosesSocket, Dials, linkVars, readVars
  <2>. QED
    BY <1>2, <2>1, <2>2, <2>3, <2>4 DEF SetUpInv
<1>8. ASSUME NEW g \in Generations, CleanupLocks(g) PROVE SetUpInv'
  BY <1>1, <1>2, <1>8 DEF CleanupLocks, controlVars, linkVars, readVars
<1>9. CASE Cleaning
  <2>1. \A d \in Callers : pc'[d] # "spawn"
    BY <1>0, <1>9
    DEF Cleaning, CleanupChecks, CleanupStopsReader, CleanupClosesSocket,
        CleanupEnds, CleanupGivesUp, GateInv, UnderGate, Attempting, Armed,
        Cuttable
  <2>2. reader' = 0 => reading' = "next"
    BY <1>2, <1>9
    DEF Cleaning, CleanupChecks, CleanupStopsReader, CleanupClosesSocket,
        CleanupEnds, CleanupGivesUp, AbortReader, linkVars, readVars
  <2>. QED
    BY <2>1, <2>2 DEF SetUpInv
<1>10. CASE Reading \/ SendFails
  BY <1>1, <1>2, <1>10
  DEF Reading, ReaderTakes, ReaderValidates, ReaderTells, LinkEnds, SendFails,
      AbortReader, controlVars, readVars
<1>11. ASSUME NEW w \in Watchers, Watching(w) PROVE SetUpInv'
  BY <1>1, <1>2, <1>11
  DEF Watching, WatchArms, WatchLooks, WatchSleeps, controlVars, linkVars, readVars
<1>12. CASE UNCHANGED vars
  BY <1>1, <1>2, <1>12 DEF vars, controlVars, linkVars, readVars
<1>. QED
  BY <1>4, <1>5, <1>6, <1>7, <1>8, <1>9, <1>10, <1>11, <1>12
  DEF Next, Connecting, Disconnecting

LEMMA CalmStep ==
  TypeOK /\ GateInv /\ GenInv /\ TakenInv /\ RealInv /\ [Next]_vars => CalmInv'
<1>. DEFINE Real == /\ reader # 0 => reader = generation /\ writer = generation
                    /\ shaken => reader # 0
<1>. SUFFICES ASSUME TypeOK, GateInv, GenInv, TakenInv, RealInv, [Next]_vars,
                     Calm'
              PROVE  Real'
  BY DEF CalmInv
<1>0. /\ pc \in [Callers -> {"idle", "join", "wait", "health"}
                            \cup Attempting \cup Disconnects]
      /\ cleaning \in [step : CleanupSteps, gen : Generations]
      /\ cancelled \in BOOLEAN /\ gaveUp \in BOOLEAN
      /\ None # Cleanup /\ None \notin Callers /\ Cleanup \notin Callers
  BY ConnectionAssumption
  DEF TypeOK, CallTypes, ControlTypes, CleanupSteps, ConnectionAssumption
<1>1. ASSUME UNCHANGED <<cancelled, gaveUp, cleaning>>,
             \A d \in Callers : pc[d] \in Unsettled => pc'[d] \in Unsettled
      PROVE  Real
  BY <1>1 DEF Calm, RealInv, CalmInv
<1>2. ASSUME Real, UNCHANGED <<reader, writer, generation, shaken>> PROVE Real'
  BY <1>2
<1>3. ASSUME NEW c \in Callers, NEW from, NEW to, Step(c, from, to)
      PROVE  pc[c] = from /\ pc'[c] = to /\ \A d \in Callers \ {c} : pc'[d] = pc[d]
  BY <1>0, <1>3 DEF Step
<1>4. ASSUME NEW c \in Callers, NEW from, NEW to \in Unsettled, Step(c, from, to)
      PROVE  FALSE
  BY <1>3, <1>4 DEF Calm
<1>5. ASSUME NEW c \in Callers, NEW from, NEW to, Step(c, from, to), from \notin Unsettled
      PROVE  \A d \in Callers : pc[d] \in Unsettled => pc'[d] \in Unsettled
  BY <1>3, <1>5
<1>6. ASSUME NEW c \in Callers,
             \/ TryLock(c) \/ Join(c) \/ Acquire(c) \/ StopWaiting(c)
             \/ ReturnEarly(c) \/ Notifies(c) \/ Invalidates(c)
             \/ SpawnsCleanup(c) \/ MarksReady(c) \/ Completes(c) \/ Unlocks(c)
      PROVE  Real'
  <2>1. UNCHANGED <<cancelled, gaveUp, cleaning, reader, writer, generation, shaken>>
    BY <1>6
    DEF TryLock, Join, Acquire, StopWaiting, ReturnEarly, Notifies, Invalidates,
        SpawnsCleanup, MarksReady, Completes, Unlocks, controlVars, cleanVars,
        linkVars, readVars, healthVars
  <2>2. \E from \in {"idle", "join", "wait", "health", "notify", "invalidate",
                     "spawnCleanup", "ready", "complete", "dropped"} :
          \E to : Step(c, from, to)
    BY <1>6
    DEF TryLock, Join, Acquire, StopWaiting, ReturnEarly, Notifies, Invalidates,
        SpawnsCleanup, MarksReady, Completes, Unlocks, Poll
  <2>3. \A d \in Callers : pc[d] \in Unsettled => pc'[d] \in Unsettled
    BY <1>5, <2>2 DEF Unsettled, Attempting, Armed, Cuttable
  <2>. QED
    BY <1>1, <1>2, <2>1, <2>3
<1>7. ASSUME NEW c \in Callers,
             \/ Begin(c) \/ Reset(c) \/ Arm(c) \/ StopsReader(c)
             \/ ClosesSocket(c) \/ MarksClosed(c) \/ MarksFailed(c) \/ Opens(c)
             \/ DialFails(c) \/ Dials(c)
      PROVE  FALSE
  <2>1. \E from, to : to \in Unsettled /\ Step(c, from, to)
    BY <1>7
    DEF Begin, Reset, Arm, StopsReader, ClosesSocket, MarksClosed, MarksFailed,
        Opens, DialFails, Dials, Poll, Unsettled, Attempting, Armed, Cuttable
  <2>. QED
    BY <1>4, <2>1
<1>8. ASSUME NEW c \in Callers, Check(c) \/ CutOff(c) PROVE FALSE
  <2>1. pc'[c] \in Unsettled
    BY <1>0, <1>8 DEF Check, CutOff, Unsettled, Attempting, Armed, Cuttable
  <2>. QED
    BY <2>1 DEF Calm
<1>9. ASSUME NEW c \in Callers, SpawnsReader(c) PROVE Real'
  <2>1. gen[c] = generation /\ generation # 0
    BY <1>9
    DEF SpawnsReader, Poll, Step, GenInv, Attempting, Armed, Cuttable
  <2>2. writer = generation
    BY <1>9 DEF SpawnsReader, Poll, Step, RealInv, SetUpInv
  <2>. QED
    BY <1>9, <2>1, <2>2 DEF SpawnsReader, controlVars
<1>10. ASSUME NEW c \in Callers, Shaken(c) PROVE Real'
  <2>1. CASE Step(c, "shake", "ready")
    <3>1. \A d \in Callers : pc[d] \in Unsettled => pc'[d] \in Unsettled
      BY <1>3, <2>1 DEF Unsettled
    <3>2. UNCHANGED <<cancelled, gaveUp, cleaning, reader, writer, generation, shaken>>
      BY <1>10 DEF Shaken, controlVars, cleanVars, linkVars, readVars, healthVars
    <3>. QED
      BY <1>1, <1>2, <3>1, <3>2
  <2>2. CASE Step(c, "shake", "failReader")
    BY <1>4, <2>2 DEF Unsettled, Attempting, Armed, Cuttable
  <2>. QED
    BY <1>10, <2>1, <2>2 DEF Shaken, Poll
<1>11. ASSUME NEW c \in Callers, Drops(c) \/ Disconnect(c) PROVE FALSE
  BY <1>11 DEF Drops, Disconnect, Calm
<1>12. ASSUME NEW g \in Generations, CleanupLocks(g) PROVE Real'
  <2>1. /\ UNCHANGED <<pc, cancelled, gaveUp, reader, writer, generation, shaken>>
        /\ cleaning.step = "idle"
    BY <1>0, <1>12
    DEF CleanupLocks, GateInv, controlVars, linkVars, readVars, healthVars
  <2>2. Real
    BY <2>1 DEF Calm, RealInv, CalmInv
  <2>. QED
    BY <1>2, <2>1, <2>2
<1>13. CASE Cleaning
  <2>1. CASE CleanupChecks
    <3>1. /\ UNCHANGED <<pc, cancelled, gaveUp, reader, writer, generation, shaken>>
          /\ cleaning.step = "check"
      BY <2>1 DEF CleanupChecks, controlVars, linkVars, readVars, healthVars
    <3>2. Real
      BY <3>1 DEF Calm, RealInv, CalmInv
    <3>. QED
      BY <1>2, <3>1, <3>2
  <2>2. CASE CleanupStopsReader \/ CleanupClosesSocket
    <3>1. cleaning'.step \in {"writer", "mark"}
      BY <1>0, <2>2, CleaningTypes
      DEF CleanupStopsReader, CleanupClosesSocket, CleanupSteps
    <3>. QED
      BY <3>1 DEF Calm
  <2>3. CASE CleanupEnds
    BY <2>3 DEF CleanupEnds, Mark, TakenInv, linkVars, readVars
  <2>4. CASE CleanupGivesUp
    BY <2>4 DEF CleanupGivesUp, Calm
  <2>. QED
    BY <1>13, <2>1, <2>2, <2>3, <2>4 DEF Cleaning
<1>14. CASE Reading \/ SendFails
  <2>1. UNCHANGED <<pc, cancelled, gaveUp, cleaning, writer, generation>>
    BY <1>14
    DEF Reading, ReaderTakes, ReaderValidates, ReaderTells, LinkEnds, SendFails,
        controlVars, cleanVars
  <2>2. Real
    BY <1>1, <2>1
  <2>3. CASE ReaderTakes \/ ReaderValidates \/ SendFails
    BY <1>2, <2>1, <2>2, <2>3
    DEF ReaderTakes, ReaderValidates, SendFails, readVars, healthVars
  <2>4. CASE ReaderTells
    <3>1. reader # 0 /\ UNCHANGED reader
      BY <2>4 DEF ReaderTells, RealInv, SetUpInv
    <3>. QED
      BY <2>1, <2>2, <3>1
  <2>5. CASE LinkEnds
    <3>1. reader' = 0 /\ shaken' = FALSE
      BY <2>5 DEF LinkEnds, AbortReader, Mark
    <3>. QED
      BY <3>1
  <2>. QED
    BY <1>14, <2>3, <2>4, <2>5 DEF Reading
<1>15. ASSUME NEW w \in Watchers, Watching(w) PROVE Real'
  BY <1>1, <1>2, <1>15
  DEF Watching, WatchArms, WatchLooks, WatchSleeps, controlVars, cleanVars,
      linkVars, readVars, healthVars
<1>16. CASE UNCHANGED vars
  BY <1>1, <1>2, <1>16
  DEF vars, controlVars, cleanVars, linkVars, readVars, healthVars
<1>. QED
  BY <1>6, <1>7, <1>8, <1>9, <1>10, <1>11, <1>12, <1>13, <1>14, <1>15, <1>16
  DEF Next, Connecting, Disconnecting

(* healthcheck() takes no lock and reads three flags that the reader, the  *)
(* attempt and a disconnect write on their own; with the gate free they    *)
(* agree with the reader and the socket of the last attempt.               *)
THEOREM HealthIsTrue == Spec => []HealthIsReal
<1>. DEFINE Inv == TypeOK /\ GateInv /\ GenInv /\ TakenInv /\ RealInv
<1>1. Init => Inv
  <2>1. Init => GenInv /\ TakenInv /\ RealInv
    BY DEF Init, GenInv, TakenInv, RealInv, SetUpInv, CalmInv, Attempting, Armed,
           Cuttable, Idle
  <2>. QED
    BY <2>1, InitTypes
<1>2. Inv /\ [Next]_vars => Inv'
  BY TypeStep, GenStep, TakenStep, SetUpStep, CalmStep DEF RealInv
<1>3. Inv => HealthIsReal
  <2>. SUFFICES ASSUME Inv, gate = None, Healthy, ~gaveUp
                PROVE  reader = generation /\ writer = generation
    BY DEF HealthIsReal
  <2>1. \A c \in Callers : pc[c] \notin Unsettled
    BY ConnectionAssumption DEF GateInv, UnderGate, Unsettled, ConnectionAssumption
  <2>2. cleaning.step = "idle"
    BY ConnectionAssumption DEF GateInv, ConnectionAssumption
  <2>3. Calm /\ shaken
    BY <2>1, <2>2 DEF Calm, Healthy, HandshakeComplete
  <2>. QED
    BY <2>3 DEF RealInv, CalmInv
<1>. QED
  BY <1>1, <1>2, <1>3, PTL DEF Spec
=============================================================================
