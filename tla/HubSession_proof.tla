-------------------------- MODULE HubSession_proof --------------------------
(***************************************************************************)
(* The ownership of links by a session, for any number of tasks and links. *)
(*                                                                         *)
(* The lock and the two fields of Held carry the argument.  LockInv says   *)
(* which steps exclude each other, MineInv which of them have a client in  *)
(* hand, HeldInv at which of them Held is known to be empty: so that a     *)
(* client is retired, or counted, only into an empty place, and is not     *)
(* overwritten.  NothingLost is then inductive, and OneLink follows: all   *)
(* the places a link can be in exclude each other.                         *)
(***************************************************************************)
EXTENDS HubSession, TLAPS

LockInv == \A p \in Procs : pc[p] \in Inside <=> lock = p

MineInv == \A p \in Procs : pc[p] \in Building <=> mine[p] # None

Emptied == {"cleanPre", "cleanPost", "cleanLost", "cleanRefused"}
Vacant  == Building \cup {"dial"}

HeldInv ==
  /\ client # None => retired = None
  /\ \A p \in Procs : pc[p] \in Emptied \cup Vacant => client = None
  /\ \A p \in Procs : pc[p] \in Vacant => retired = None

(* Nobody is past the check of `closed' once a close() has succeeded.      *)
ClosedInv ==
  /\ \A p \in Procs : op[p] = "close" => closed
  /\ closeResult = "ok" =>
       /\ closed /\ client = None /\ retired = None
       /\ \A p \in Procs : pc[p] \notin Vacant \cup {"cleanEst"}

IInv ==
  /\ TypeOK /\ LockInv /\ MineInv /\ HeldInv /\ NothingLost
  /\ HeldNeedsNoRetry /\ ClosedInv

LEMMA TaskStep == TypeOK /\ [Next]_vars => TaskTypes'
<1>. SUFFICES ASSUME TypeOK, [Next]_vars PROVE TaskTypes'
  OBVIOUS
<1>. USE DEF TypeOK, TaskTypes, Outside, Inside, Building, Procs, taskVars
<1>1. CASE UNCHANGED <<pc, op, mine, lock>>
  BY <1>1
<1>2. ASSUME NEW p \in Callers,
             Probe(p) \/ \E o \in Operations : Start(p, o)
      PROVE  TaskTypes'
  BY <1>2 DEF Start, Probe, Step, Operations
<1>3. ASSUME NEW p \in Procs, CloseSender(p) \/ Acquire(p) \/ Rewarm(p)
      PROVE  TaskTypes'
  BY <1>3 DEF CloseSender, Acquire, Rewarm, Spawn, Step, Operations
<1>4. ASSUME NEW w \in Warmers, Warm(w) PROVE TaskTypes'
  BY <1>4 DEF Warm, Spawn, Operations
<1>5. ASSUME NEW p \in Procs, NEW l \in Links \cup {None},
             UNCHANGED mine \/ mine' = [mine EXCEPT ![p] = l],
             Finish(p) \/ LetGo(p) \/ \E to \in Inside : GoOn(p, to)
      PROVE  TaskTypes'
  BY <1>5 DEF Finish, LetGo, GoOn
<1>6. ASSUME NEW p \in Procs,
             \/ LookAlive(p) \/ CleanPre(p) \/ CloseDrops(p) \/ CleanPost(p)
             \/ Establish(p) \/ CleanEst(p) \/ Dial(p) \/ Dialed(p) \/ Settle(p)
             \/ Settled(p) \/ Count(p) \/ CleanLost(p) \/ CleanRefused(p)
             \/ Operate(p)
      PROVE  /\ Finish(p) \/ LetGo(p) \/ \E to \in Inside : GoOn(p, to)
             /\ \/ UNCHANGED mine
                \/ \E l \in Links \cup {None} : mine' = [mine EXCEPT ![p] = l]
  BY <1>6
  DEF LookAlive, CleanPre, CloseDrops, CleanPost, Establish, CleanEst, Dial,
      Dialed, Settle, Settled, RetireMine, Count, CleanLost, CleanRefused,
      Operate
<1>7. ASSUME NEW p \in Procs,
             \/ LookAlive(p) \/ CleanPre(p) \/ CloseDrops(p) \/ CleanPost(p)
             \/ Establish(p) \/ CleanEst(p) \/ Dial(p) \/ Dialed(p) \/ Settle(p)
             \/ Settled(p) \/ Count(p) \/ CleanLost(p) \/ CleanRefused(p)
             \/ Operate(p)
      PROVE  TaskTypes'
  BY <1>5, <1>6, <1>7
<1>8. ASSUME NEW p \in Procs, Cancel(p) PROVE TaskTypes'
  BY <1>8 DEF Cancel
<1>. QED
  BY <1>1, <1>2, <1>3, <1>4, <1>7, <1>8
  DEF Next, Progress, Environment, Relay, vars,
      LinkDies, QuietEnds, EventArrives, RelayReceives, RelayForwards

LEMMA SessionStep == TypeOK /\ [Next]_vars => SessionTypes'
<1>. SUFFICES ASSUME TypeOK, [Next]_vars PROVE SessionTypes'
  OBVIOUS
<1>. USE DEF TypeOK, TaskTypes, SessionTypes, heldVars, flagVars, busVars
<1>1. CASE UNCHANGED <<heldVars, flagVars, senderOpen, current, closeResult>>
  BY <1>1
<1>2. ASSUME NEW p \in Callers,
             Probe(p) \/ \E o \in Operations : Start(p, o)
      PROVE  SessionTypes'
  BY <1>2 DEF Start, Probe
<1>3. ASSUME NEW p \in Procs, CloseSender(p) \/ Acquire(p) \/ Rewarm(p)
      PROVE  SessionTypes'
  BY <1>3 DEF CloseSender, Acquire, Rewarm, Spawn
<1>4. ASSUME NEW w \in Warmers, Warm(w) PROVE SessionTypes'
  BY <1>4 DEF Warm, Spawn
<1>5. ASSUME NEW p \in Procs,
             \/ LookAlive(p) \/ CleanPre(p) \/ CloseDrops(p) \/ CleanPost(p)
             \/ Operate(p)
      PROVE  SessionTypes'
  BY <1>5
  DEF LookAlive, CleanPre, CloseDrops, CleanPost, Operate, DropClient,
      CleanupWorks, CleanupFails, GoOn, LetGo, Finish
<1>6. ASSUME NEW p \in Procs,
             Establish(p) \/ CleanEst(p) \/ CleanLost(p) \/ CleanRefused(p)
      PROVE  SessionTypes'
  BY <1>6
  DEF Establish, CleanEst, CleanLost, CleanRefused, CleanupWorks,
      CleanupFails, GoOn, Finish
<1>7. ASSUME NEW p \in Procs,
             Dial(p) \/ Dialed(p) \/ Settle(p) \/ Settled(p) \/ Count(p)
      PROVE  SessionTypes'
  <2>1. CASE Dial(p) \/ Dialed(p)
    BY <2>1 DEF Dial, Dialed, RetireMine, GoOn, Finish
  <2>2. CASE Settle(p) \/ Settled(p) \/ Count(p)
    BY <2>2 DEF Settle, Settled, Count, RetireMine, GoOn, Finish
  <2>3. QED
    BY <1>7, <2>1, <2>2
<1>8. ASSUME NEW p \in Procs, Cancel(p) PROVE SessionTypes'
  BY <1>8 DEF Cancel
<1>. QED
  BY <1>1, <1>2, <1>3, <1>4, <1>5, <1>6, <1>7, <1>8
  DEF Next, Progress, Environment, Relay, vars,
      LinkDies, QuietEnds, EventArrives, RelayReceives, RelayForwards

LEMMA LadderBounded ==
  ASSUME NEW w \in Retry .. Ceiling PROVE NextWait(w) \in Retry .. Ceiling
  BY SessionAssumption DEF SessionAssumption, NextWait

LEMMA LadderFoot == Retry \in Retry .. Ceiling
  BY SessionAssumption DEF SessionAssumption

LEMMA RetryStep == TypeOK /\ [Next]_vars => RetryTypes'
<1>. SUFFICES ASSUME TypeOK, [Next]_vars PROVE RetryTypes'
  OBVIOUS
<1>. USE DEF TypeOK, RetryTypes, retryVars
<1>1. CASE UNCHANGED retryVars
  BY <1>1
<1>2. ASSUME NEW p \in Procs, Dial(p) PROVE RetryTypes'
  BY <1>2, LadderBounded DEF Dial, BackOff
<1>3. ASSUME NEW p \in Procs, Count(p) PROVE RetryTypes'
  BY <1>3, LadderFoot DEF Count
<1>4. ASSUME NEW p \in Procs, CleanRefused(p) PROVE RetryTypes'
  BY <1>4, LadderBounded DEF CleanRefused, BackOff
<1>5. CASE QuietEnds
  BY <1>5 DEF QuietEnds
<1>. QED
  BY <1>1, <1>2, <1>3, <1>4, <1>5
  DEF Next, Progress, Environment, Relay, vars, Start, CloseSender, Probe, Warm,
      Rewarm, Acquire, LookAlive, CleanPre, CloseDrops, CleanPost, Establish,
      CleanEst, Dialed, Settle, Settled, CleanLost, Operate, Cancel, LinkDies,
      EventArrives, RelayReceives, RelayForwards

LEMMA LinkStep == TypeOK /\ [Next]_vars => LinkTypes'
<1>. SUFFICES ASSUME TypeOK, [Next]_vars PROVE LinkTypes'
  OBVIOUS
<1>. USE DEF TypeOK, TaskTypes, LinkTypes, linkVars, CleanupWorks, CleanupFails
<1>1. CASE UNCHANGED linkVars
  BY <1>1
<1>2. ASSUME NEW p \in Procs,
             \/ CleanPre(p) \/ CleanPost(p) \/ CleanEst(p)
             \/ CleanLost(p) \/ CleanRefused(p)
      PROVE  LinkTypes'
  BY <1>2 DEF CleanPre, CleanPost, CleanEst, CleanLost, CleanRefused
<1>3. ASSUME NEW p \in Procs, Dial(p) PROVE LinkTypes'
  BY <1>3 DEF Dial
<1>4. ASSUME NEW p \in Procs, Cancel(p) PROVE LinkTypes'
  BY <1>4 DEF Cancel
<1>5. ASSUME NEW l \in Links, LinkDies(l) PROVE LinkTypes'
  BY <1>5 DEF LinkDies
<1>. QED
  BY <1>1, <1>2, <1>3, <1>4, <1>5
  DEF Next, Progress, Environment, Relay, vars, Start, CloseSender, Probe, Warm,
      Rewarm, Acquire, LookAlive, CloseDrops, Establish, Dialed, Settle, Settled,
      Count, Operate, QuietEnds, EventArrives, RelayReceives, RelayForwards

LEMMA RelayStep == TypeOK /\ [Next]_vars => RelayTypes'
<1>. SUFFICES ASSUME TypeOK, [Next]_vars PROVE RelayTypes'
  OBVIOUS
<1>. USE DEF TypeOK, RelayTypes, busVars
<1>1. CASE UNCHANGED busVars
  BY <1>1
<1>2. ASSUME NEW p \in Procs, CloseSender(p) PROVE RelayTypes'
  BY <1>2 DEF CloseSender
<1>3. CASE DropClient
  BY <1>3 DEF DropClient
<1>4. ASSUME NEW p \in Procs, Count(p) PROVE RelayTypes'
  BY <1>4 DEF Count
<1>5. ASSUME NEW l \in Links, EventArrives(l) PROVE RelayTypes'
  BY <1>5, SessionAssumption DEF EventArrives, SessionAssumption
<1>6. ASSUME NEW l \in Links, RelayReceives(l) PROVE RelayTypes'
  BY <1>6, SessionAssumption DEF RelayReceives, SessionAssumption
<1>7. ASSUME NEW l \in Links, RelayForwards(l) PROVE RelayTypes'
  BY <1>7 DEF RelayForwards
<1>. QED
  BY <1>1, <1>2, <1>3, <1>4, <1>5, <1>6, <1>7
  DEF Next, Progress, Environment, Relay, vars, Start, Probe, Warm, Rewarm,
      Acquire, LookAlive, CleanPre, CloseDrops, CleanPost, Establish, CleanEst,
      Dial, Dialed, Settle, Settled, CleanLost, CleanRefused, Operate, Cancel,
      LinkDies, QuietEnds

LEMMA InitTypes == Init => TypeOK
<1>. SUFFICES ASSUME Init PROVE TypeOK
  OBVIOUS
<1>. USE DEF Init
<1>1. TaskTypes
  BY DEF TaskTypes, Outside
<1>2. SessionTypes
  BY DEF SessionTypes
<1>3. RetryTypes
  BY LadderFoot DEF RetryTypes
<1>4. LinkTypes
  BY DEF LinkTypes
<1>5. RelayTypes
  <2>1. 0 \in 0 .. MaxEvents
    BY SessionAssumption DEF SessionAssumption
  <2>. QED
    BY <2>1 DEF RelayTypes, NoEvent
<1>. QED
  BY <1>1, <1>2, <1>3, <1>4, <1>5 DEF TypeOK

(* Every step of every task keeps the session in its types: in particular  *)
(* the retry ladder of HubSessionPolicy::next_wait stays within the policy *)
(* however failures, refusals and cancellations alternate.                 *)
THEOREM TypeCorrect == Spec => []TypeOK
<1>1. TypeOK /\ [Next]_vars => TypeOK'
  BY TaskStep, SessionStep, RetryStep, LinkStep, RelayStep DEF TypeOK
<1>. QED
  BY InitTypes, <1>1, PTL DEF Spec

-----------------------------------------------------------------------------
(* Who holds the lock, and who has a client in hand.                       *)

LEMMA LockStep == TypeOK /\ LockInv /\ [Next]_vars => LockInv'
<1>. SUFFICES ASSUME TypeOK, LockInv, [Next]_vars PROVE LockInv'
  OBVIOUS
<1>. USE DEF TypeOK, TaskTypes, LockInv, Inside, Building, Outside, Procs, taskVars
<1>0. None \notin Procs
  BY SessionAssumption DEF SessionAssumption
<1>1. CASE UNCHANGED <<pc, lock>>
  BY <1>1
<1>2. ASSUME NEW p \in Callers, NEW o \in Operations, Start(p, o) PROVE LockInv'
  BY <1>2 DEF Start, Step
<1>3. ASSUME NEW p \in Procs, CloseSender(p) PROVE LockInv'
  BY <1>3 DEF CloseSender, Step
<1>4. ASSUME NEW p \in Callers, Probe(p) PROVE LockInv'
  BY <1>0, <1>4 DEF Probe, Step
<1>5. ASSUME NEW w \in Warmers, Warm(w) PROVE LockInv'
  BY <1>5 DEF Warm, Spawn
<1>6. ASSUME NEW p \in Procs, Rewarm(p) PROVE LockInv'
  BY <1>6 DEF Rewarm, Spawn
<1>7. ASSUME NEW p \in Procs, Acquire(p) PROVE LockInv'
  BY <1>0, <1>7 DEF Acquire, Step
<1>8. ASSUME NEW p \in Procs, pc[p] \in Inside,
             Finish(p) \/ LetGo(p) \/ \E to \in Inside : GoOn(p, to)
      PROVE  LockInv'
  BY <1>0, <1>8 DEF Finish, LetGo, GoOn
<1>9. ASSUME NEW p \in Procs, Cancel(p) PROVE LockInv'
  BY <1>0, <1>9 DEF Cancel, Awaits
<1>10. ASSUME NEW p \in Procs,
              \/ LookAlive(p) \/ CleanPre(p) \/ CloseDrops(p) \/ CleanPost(p)
              \/ Establish(p) \/ CleanEst(p) \/ Dial(p) \/ Dialed(p) \/ Settle(p)
              \/ Settled(p) \/ Count(p) \/ CleanLost(p) \/ CleanRefused(p)
              \/ Operate(p)
       PROVE  /\ pc[p] \in Inside
              /\ Finish(p) \/ LetGo(p) \/ \E to \in Inside : GoOn(p, to)
  BY <1>10
  DEF LookAlive, CleanPre, CloseDrops, CleanPost, Establish, CleanEst, Dial,
      Dialed, Settle, Settled, Count, CleanLost, CleanRefused, Operate
<1>. QED
  BY <1>1, <1>2, <1>3, <1>4, <1>5, <1>6, <1>7, <1>8, <1>9, <1>10
  DEF Next, Progress, Environment, Relay, vars,
      LinkDies, QuietEnds, EventArrives, RelayReceives, RelayForwards

LEMMA MineStep == TypeOK /\ MineInv /\ [Next]_vars => MineInv'
<1>. SUFFICES ASSUME TypeOK, MineInv, [Next]_vars PROVE MineInv'
  OBVIOUS
<1>. USE DEF TypeOK, TaskTypes, MineInv, Inside, Building, Outside, Procs, taskVars
<1>0. None \notin Links
  BY SessionAssumption DEF SessionAssumption, Links
<1>1. CASE UNCHANGED <<pc, mine>>
  BY <1>1
<1>2. ASSUME NEW p \in Callers, NEW o \in Operations, Start(p, o) PROVE MineInv'
  BY <1>2 DEF Start, Step
<1>3. ASSUME NEW p \in Procs, CloseSender(p) PROVE MineInv'
  BY <1>3 DEF CloseSender, Step
<1>4. ASSUME NEW p \in Callers, Probe(p) PROVE MineInv'
  BY <1>4 DEF Probe, Step
<1>5. ASSUME NEW w \in Warmers, Warm(w) PROVE MineInv'
  BY <1>5 DEF Warm, Spawn
<1>6. ASSUME NEW p \in Procs, Rewarm(p) PROVE MineInv'
  BY <1>6 DEF Rewarm, Spawn
<1>7. ASSUME NEW p \in Procs, Acquire(p) PROVE MineInv'
  BY <1>7 DEF Acquire, Step
<1>8. ASSUME NEW p \in Procs, Dial(p) PROVE MineInv'
  BY <1>0, <1>8 DEF Dial, GoOn, Finish
<1>9. ASSUME NEW p \in Procs, Dialed(p) \/ Settle(p) \/ Settled(p)
      PROVE  MineInv'
  BY <1>9 DEF Dialed, Settle, Settled, RetireMine, GoOn
<1>10. ASSUME NEW p \in Procs, Count(p) PROVE MineInv'
  BY <1>10 DEF Count, GoOn, Finish
<1>11. ASSUME NEW p \in Procs, Cancel(p) PROVE MineInv'
  BY <1>11 DEF Cancel
<1>12. ASSUME NEW p \in Procs, pc[p] \notin Building, UNCHANGED mine,
              \/ Finish(p) \/ LetGo(p)
              \/ \E to \in Inside \ Building : GoOn(p, to)
       PROVE  MineInv'
  BY <1>12 DEF Finish, LetGo, GoOn
<1>13. ASSUME NEW p \in Procs,
              \/ LookAlive(p) \/ CleanPre(p) \/ CloseDrops(p) \/ CleanPost(p)
              \/ Establish(p) \/ CleanEst(p) \/ CleanLost(p)
              \/ CleanRefused(p) \/ Operate(p)
       PROVE  /\ pc[p] \notin Building /\ UNCHANGED mine
              /\ \/ Finish(p) \/ LetGo(p)
                 \/ \E to \in Inside \ Building : GoOn(p, to)
  BY <1>13
  DEF LookAlive, CleanPre, CloseDrops, CleanPost, Establish, CleanEst,
      CleanLost, CleanRefused, Operate
<1>. QED
  BY <1>1, <1>2, <1>3, <1>4, <1>5, <1>6, <1>7, <1>8, <1>9, <1>10, <1>11, <1>12, <1>13
  DEF Next, Progress, Environment, Relay, vars,
      LinkDies, QuietEnds, EventArrives, RelayReceives, RelayForwards

-----------------------------------------------------------------------------
(* What is held, and where links are.                                      *)

LEMMA HeldStep ==
  TypeOK /\ LockInv /\ MineInv /\ HeldInv /\ [Next]_vars => HeldInv'
<1>. SUFFICES ASSUME TypeOK, LockInv, MineInv, HeldInv, [Next]_vars
              PROVE  HeldInv'
  OBVIOUS
<1>. USE DEF TypeOK, TaskTypes, LockInv, HeldInv, Inside, Building, Outside,
             Emptied, Vacant, Procs, taskVars, heldVars
<1>1. CASE UNCHANGED <<pc, client, retired>>
  BY <1>1
<1>2. ASSUME NEW p \in Callers, NEW o \in Operations, Start(p, o) PROVE HeldInv'
  BY <1>2 DEF Start, Step
<1>3. ASSUME NEW p \in Procs, CloseSender(p) PROVE HeldInv'
  BY <1>3 DEF CloseSender, Step
<1>4. ASSUME NEW p \in Callers, Probe(p) PROVE HeldInv'
  BY <1>4 DEF Probe, Step
<1>5. ASSUME NEW w \in Warmers, Warm(w) PROVE HeldInv'
  BY <1>5 DEF Warm, Spawn
<1>6. ASSUME NEW p \in Procs, Rewarm(p) PROVE HeldInv'
  BY <1>6 DEF Rewarm, Spawn
<1>7. ASSUME NEW p \in Procs, Acquire(p) PROVE HeldInv'
  BY <1>7 DEF Acquire, Step
<1>8. ASSUME NEW p \in Procs, LookAlive(p) PROVE HeldInv'
  BY <1>8 DEF LookAlive, DropClient, GoOn, LetGo, Finish
<1>9. ASSUME NEW p \in Procs, CleanPre(p) PROVE HeldInv'
  BY <1>9 DEF CleanPre, CleanupWorks, CleanupFails, GoOn, LetGo, Finish
<1>10. ASSUME NEW p \in Procs, CloseDrops(p) PROVE HeldInv'
  BY <1>10 DEF CloseDrops, DropClient, GoOn
<1>11. ASSUME NEW p \in Procs, CleanPost(p) PROVE HeldInv'
  BY <1>11 DEF CleanPost, CleanupWorks, CleanupFails, Finish
<1>12. ASSUME NEW p \in Procs, Establish(p) PROVE HeldInv'
  BY <1>12 DEF Establish, GoOn, Finish
<1>13. ASSUME NEW p \in Procs, CleanEst(p) PROVE HeldInv'
  BY <1>13 DEF CleanEst, CleanupWorks, CleanupFails, GoOn, Finish
<1>14. ASSUME NEW p \in Procs, Dial(p) PROVE HeldInv'
  BY <1>14 DEF Dial, GoOn, Finish
<1>15. ASSUME NEW p \in Procs, Dialed(p) \/ Settle(p) \/ Settled(p)
       PROVE  HeldInv'
  BY <1>15 DEF Dialed, Settle, Settled, RetireMine, GoOn
<1>16. ASSUME NEW p \in Procs, Count(p) PROVE HeldInv'
  BY <1>16 DEF Count, GoOn, Finish
<1>17. ASSUME NEW p \in Procs, CleanLost(p) \/ CleanRefused(p) PROVE HeldInv'
  BY <1>17 DEF CleanLost, CleanRefused, CleanupWorks, CleanupFails, Finish
<1>18. ASSUME NEW p \in Procs, Operate(p) PROVE HeldInv'
  BY <1>18 DEF Operate, DropClient, GoOn, Finish
<1>19. ASSUME NEW p \in Procs, Cancel(p) PROVE HeldInv'
  BY <1>19 DEF Cancel
<1>. QED
  BY <1>1, <1>2, <1>3, <1>4, <1>5, <1>6, <1>7, <1>8, <1>9, <1>10, <1>11, <1>12,
     <1>13, <1>14, <1>15, <1>16, <1>17, <1>18, <1>19
  DEF Next, Progress, Environment, Relay, vars,
      LinkDies, QuietEnds, EventArrives, RelayReceives, RelayForwards

LEMMA LostStep ==
  TypeOK /\ LockInv /\ MineInv /\ HeldInv /\ NothingLost /\ [Next]_vars
    => NothingLost'
<1>. SUFFICES ASSUME TypeOK, LockInv, MineInv, HeldInv, NothingLost, [Next]_vars
              PROVE  NothingLost'
  OBVIOUS
<1>. USE DEF TypeOK, TaskTypes, SessionTypes, LinkTypes, NothingLost, Open, Owned,
             taskVars, heldVars, linkVars
<1>0. None \notin Links
  BY SessionAssumption DEF SessionAssumption, Links
<1>1. CASE UNCHANGED <<mine, client, retired, status, abandoned>>
  BY <1>1
<1>2. CASE DropClient /\ UNCHANGED <<mine, linkVars>>
  BY <1>2 DEF DropClient, HeldInv
<1>3. CASE CleanupWorks /\ UNCHANGED <<mine, client, abandoned>>
  BY <1>3 DEF CleanupWorks
<1>4. CASE CleanupFails /\ UNCHANGED <<mine, client, abandoned>>
  BY <1>4 DEF CleanupFails
<1>5. ASSUME NEW p \in Procs, Dial(p) PROVE NothingLost'
  <2>1. CASE UNCHANGED <<mine, client, retired, status, abandoned>>
    BY <2>1, <1>1
  <2>2. ASSUME NEW l \in Links,
               status' = [status EXCEPT ![l] = "alive"],
               mine' = [mine EXCEPT ![p] = l],
               UNCHANGED <<client, retired, abandoned>>
        PROVE  NothingLost'
    <3>1. mine[p] = None /\ mine'[p] = l
      BY <1>5, <2>2 DEF Dial, MineInv, Building
    <3>2. Open' \subseteq Open \cup {l}
      BY <2>2
    <3>3. Owned \cup {l} \subseteq Owned'
      BY <2>2, <3>1, <1>0
    <3>. QED
      BY <3>2, <3>3
  <2>. QED
    BY <1>5, <2>1, <2>2 DEF Dial
<1>6. ASSUME NEW p \in Procs, Dialed(p) \/ Settle(p) \/ Settled(p)
      PROVE  NothingLost'
  BY <1>6 DEF Dialed, Settle, Settled, RetireMine, HeldInv, Vacant, Building
<1>7. ASSUME NEW p \in Procs, Count(p) PROVE NothingLost'
  BY <1>7 DEF Count, HeldInv, Vacant, Building
<1>8. ASSUME NEW p \in Procs, Cancel(p) PROVE NothingLost'
  BY <1>8 DEF Cancel
<1>9. ASSUME NEW l \in Links, LinkDies(l) PROVE NothingLost'
  BY <1>9 DEF LinkDies, Alive
<1>. QED
  BY <1>1, <1>2, <1>3, <1>4, <1>5, <1>6, <1>7, <1>8, <1>9
  DEF Next, Progress, Environment, Relay, vars, Start, CloseSender, Probe, Warm,
      Rewarm, Acquire, LookAlive, CleanPre, CloseDrops, CleanPost, Establish,
      CleanEst, CleanLost, CleanRefused, Operate, QuietEnds, EventArrives,
      RelayReceives, RelayForwards

LEMMA RetryInvStep ==
  TypeOK /\ HeldInv /\ HeldNeedsNoRetry /\ [Next]_vars => HeldNeedsNoRetry'
<1>. SUFFICES ASSUME TypeOK, HeldInv, HeldNeedsNoRetry, [Next]_vars
              PROVE  HeldNeedsNoRetry'
  OBVIOUS
<1>. USE DEF HeldNeedsNoRetry, heldVars, retryVars
<1>1. CASE UNCHANGED <<client, retryVars>>
  BY <1>1
<1>2. CASE DropClient
  BY <1>2 DEF DropClient
<1>3. ASSUME NEW p \in Procs, Dial(p) PROVE HeldNeedsNoRetry'
  BY <1>3 DEF Dial, HeldInv, Vacant
<1>4. ASSUME NEW p \in Procs, Count(p) PROVE HeldNeedsNoRetry'
  BY <1>4 DEF Count
<1>5. ASSUME NEW p \in Procs, CleanRefused(p) PROVE HeldNeedsNoRetry'
  BY <1>5 DEF CleanRefused, HeldInv, Emptied
<1>6. CASE QuietEnds
  BY <1>6 DEF QuietEnds
<1>. QED
  BY <1>1, <1>2, <1>3, <1>4, <1>5, <1>6
  DEF Next, Progress, Environment, Relay, vars, Start, CloseSender, Probe, Warm,
      Rewarm, Acquire, LookAlive, CleanPre, CloseDrops, CleanPost, Establish,
      CleanEst, Dialed, Settle, Settled, CleanLost, Operate, Cancel, LinkDies,
      EventArrives, RelayReceives, RelayForwards

LEMMA ClosedStep ==
  TypeOK /\ LockInv /\ HeldInv /\ ClosedInv /\ [Next]_vars => ClosedInv'
<1>. SUFFICES ASSUME TypeOK, LockInv, HeldInv, ClosedInv, [Next]_vars
              PROVE  ClosedInv'
  OBVIOUS
<1>. USE DEF TypeOK, TaskTypes, ClosedInv, Inside, Building, Vacant, Procs,
             taskVars, heldVars, flagVars
<1>1. CASE UNCHANGED <<pc, op, client, retired, closed, closeResult>>
  BY <1>1
<1>2. ASSUME NEW p \in Callers, NEW o \in Operations, Start(p, o)
      PROVE  ClosedInv'
  BY <1>2 DEF Start, Step
<1>3. ASSUME NEW p \in Procs, CloseSender(p) PROVE ClosedInv'
  BY <1>3 DEF CloseSender, Step
<1>4. ASSUME NEW p \in Callers, Probe(p) PROVE ClosedInv'
  BY <1>4 DEF Probe, Step
<1>5. ASSUME NEW w \in Warmers, Warm(w) PROVE ClosedInv'
  BY <1>5 DEF Warm, Spawn
<1>6. ASSUME NEW p \in Procs, Rewarm(p) PROVE ClosedInv'
  BY <1>6 DEF Rewarm, Spawn
<1>7. ASSUME NEW p \in Procs, Acquire(p) PROVE ClosedInv'
  BY <1>7 DEF Acquire, Step
<1>8. ASSUME NEW p \in Procs, LookAlive(p) PROVE ClosedInv'
  BY <1>8 DEF LookAlive, DropClient, GoOn, LetGo, Finish
<1>9. ASSUME NEW p \in Procs, CleanPre(p) PROVE ClosedInv'
  BY <1>9 DEF CleanPre, CleanupWorks, CleanupFails, GoOn, LetGo, Finish
<1>10. ASSUME NEW p \in Procs, CloseDrops(p) PROVE ClosedInv'
  BY <1>10 DEF CloseDrops, DropClient, GoOn
<1>11. ASSUME NEW p \in Procs, CleanPost(p) PROVE ClosedInv'
  BY <1>11
  DEF CleanPost, CleanupWorks, CleanupFails, Finish, LockInv, HeldInv, Emptied
<1>12. ASSUME NEW p \in Procs, Establish(p) PROVE ClosedInv'
  BY <1>12 DEF Establish, GoOn, Finish
<1>13. ASSUME NEW p \in Procs, CleanEst(p) PROVE ClosedInv'
  BY <1>13 DEF CleanEst, CleanupWorks, CleanupFails, GoOn, Finish
<1>14. ASSUME NEW p \in Procs, Dial(p) PROVE ClosedInv'
  BY <1>14 DEF Dial, GoOn, Finish
<1>15. ASSUME NEW p \in Procs, Dialed(p) \/ Settle(p) \/ Settled(p)
       PROVE  ClosedInv'
  BY <1>15 DEF Dialed, Settle, Settled, RetireMine, GoOn
<1>16. ASSUME NEW p \in Procs, Count(p) PROVE ClosedInv'
  BY <1>16 DEF Count, GoOn, Finish
<1>17. ASSUME NEW p \in Procs, CleanLost(p) \/ CleanRefused(p)
       PROVE  ClosedInv'
  BY <1>17 DEF CleanLost, CleanRefused, CleanupWorks, CleanupFails, Finish
<1>18. ASSUME NEW p \in Procs, Operate(p) PROVE ClosedInv'
  BY <1>18 DEF Operate, DropClient, GoOn, Finish
<1>19. ASSUME NEW p \in Procs, Cancel(p) PROVE ClosedInv'
  BY <1>19 DEF Cancel
<1>. QED
  BY <1>1, <1>2, <1>3, <1>4, <1>5, <1>6, <1>7, <1>8, <1>9, <1>10, <1>11, <1>12,
     <1>13, <1>14, <1>15, <1>16, <1>17, <1>18, <1>19
  DEF Next, Progress, Environment, Relay, vars,
      LinkDies, QuietEnds, EventArrives, RelayReceives, RelayForwards

LEMMA InitInv == Init => IInv
<1>. SUFFICES ASSUME Init PROVE IInv
  OBVIOUS
<1>1. TypeOK
  BY InitTypes
<1>2. LockInv /\ MineInv
  BY SessionAssumption
  DEF SessionAssumption, Init, LockInv, MineInv, Inside, Building
<1>3. HeldInv /\ HeldNeedsNoRetry /\ ClosedInv
  BY DEF Init, HeldInv, Emptied, Vacant, Building, HeldNeedsNoRetry, ClosedInv
<1>4. NothingLost
  BY DEF Init, NothingLost, Open
<1>. QED
  BY <1>1, <1>2, <1>3, <1>4 DEF IInv

LEMMA Inductive == Spec => []IInv
<1>1. IInv /\ [Next]_vars => IInv'
  BY TaskStep, SessionStep, RetryStep, LinkStep, RelayStep, LockStep, MineStep,
     HeldStep, LostStep, RetryInvStep, ClosedStep
  DEF IInv, TypeOK
<1>. QED
  BY InitInv, <1>1, PTL DEF Spec

-----------------------------------------------------------------------------
(* However tasks interleave, fail or are cancelled, a link that is open is *)
(* held, kept to be closed, or in the hands of the task building it: what  *)
(* Held.retired and the order of cleanup and dial in establish() are for.  *)
THEOREM LinksAreOwned == Spec => []NothingLost
  BY Inductive, PTL DEF IInv

(* The session never has two links open: the places LinksAreOwned leaves a *)
(* link exclude each other.                                                *)
THEOREM OneLinkAtATime == Spec => []OneLink
<1>1. IInv => OneLink
  <2>. SUFFICES ASSUME IInv, NEW l \in Open, NEW m \in Open PROVE l = m
    BY DEF OneLink
  <2>. USE DEF IInv
  <2>1. l \in Owned /\ m \in Owned
    BY DEF NothingLost
  <2>2. None \notin Links
    BY SessionAssumption DEF SessionAssumption, Links
  <2>3. ASSUME NEW p \in Procs, NEW q \in Procs, mine[p] # None, mine[q] # None
        PROVE  p = q
    BY <2>3 DEF MineInv, LockInv, Inside
  <2>4. ASSUME NEW p \in Procs, mine[p] # None
        PROVE  client = None /\ retired = None
    BY <2>4 DEF MineInv, HeldInv, Vacant
  <2>5. client # None => retired = None
    BY DEF HeldInv
  <2>. QED
    BY <2>1, <2>2, <2>3, <2>4, <2>5 DEF Owned
<1>. QED
  BY Inductive, <1>1, PTL

(* A held client excludes a retry delay, so that a warm() or a call after  *)
(* it is lost dials at once and from the first step of the ladder.         *)
THEOREM NoRetryWhileHeld == Spec => []HeldNeedsNoRetry
  BY Inductive, PTL DEF IInv

(* Once a close() has returned Ok no link is open, and none will be,       *)
(* whichever calls, warm tasks and probes were waiting for the lock.       *)
THEOREM CloseIsFinal == Spec => []ClosedForGood
<1>1. IInv => ClosedForGood
  <2>. SUFFICES ASSUME IInv, closeResult = "ok", NEW l \in Open PROVE FALSE
    BY DEF ClosedForGood
  <2>1. None \notin Links
    BY SessionAssumption DEF SessionAssumption, Links
  <2>2. PICK p \in Procs : mine[p] = l
    BY <2>1 DEF IInv, NothingLost, Owned, Open, ClosedInv
  <2>. QED
    BY <2>1, <2>2 DEF IInv, Open, MineInv, ClosedInv, Vacant
<1>. QED
  BY Inductive, <1>1, PTL

(* A client is announced down before another is announced up: the state    *)
(* callbacks on_state registers never miss that a link was replaced.       *)
THEOREM AnnouncedDownFirst == Spec => NoSilentSwap
<1>1. IInv /\ [Next]_vars
        => (client # None /\ client' # client => client' = None /\ ~hasClient')
  <2>. SUFFICES ASSUME IInv, [Next]_vars, client # None, client' # client
                PROVE  client' = None /\ ~hasClient'
    OBVIOUS
  <2>. USE DEF heldVars
  <2>1. CASE DropClient
    BY <2>1 DEF DropClient
  <2>2. ASSUME NEW p \in Procs, Count(p) PROVE FALSE
    BY <2>2 DEF Count, IInv, HeldInv, Vacant, Building
  <2>. QED
    BY <2>1, <2>2
    DEF Next, Progress, Environment, Relay, vars, Start, CloseSender, Probe,
        Warm, Rewarm, Acquire, LookAlive, CleanPre, CloseDrops, CleanPost,
        Establish, CleanEst, Dial, Dialed, Settle, Settled, CleanLost,
        CleanRefused, Operate, Cancel, LinkDies, QuietEnds, EventArrives,
        RelayReceives, RelayForwards
<1>. QED
  BY Inductive, <1>1, PTL DEF Spec, NoSilentSwap

(* Every link has one owner: two are never open and none is forgotten.     *)
THEOREM LinksHaveOneOwner == Spec => []OneOwner
<1>1. OneLink /\ NothingLost => OneOwner
  BY DEF OneOwner
<1>. QED
  BY <1>1, LinksAreOwned, OneLinkAtATime, PTL

-----------------------------------------------------------------------------
(* What subscribers see: links in order, the events of each in order.      *)

Built(l) == status[l] # "unbuilt"

\* The last event of link l on the bus, and 0 before its first.
LastOf(l) == IF bus.link = l THEN bus.n ELSE 0

(* Links are built one after the other, and whoever has one in hand has    *)
(* the newest, of which nothing was forwarded yet.                         *)
NewestInv ==
  /\ \A l, m \in Links : ~ Built(l) /\ l < m => ~ Built(m)
  /\ client # None => Built(client)
  /\ retired # None => Built(retired)
  /\ \A p \in Procs : mine[p] # None =>
       /\ Built(mine[p]) /\ relay[mine[p]] = "none"
       /\ \A l \in Links : Built(l) => l <= mine[p]

(* The generation is that of the held client.  Its relay has forwarded     *)
(* what it took, but for what it has in hand; the others forward nothing.  *)
ForwardInv ==
  /\ current = client
  /\ client # None => bus.link <= client
  /\ \A l \in Links :
       /\ ~ Built(l) => relay[l] = "none"
       /\ relay[l] = "none" => taken[l] = 0 /\ bus.link # l
       /\ relay[l] = "idle" => l = client /\ taken[l] = LastOf(l)
       /\ relay[l] = "event" /\ l = client => taken[l] = LastOf(l) + 1
       /\ relay[l] = "lagged" /\ l = client => taken[l] > LastOf(l)

\* A step that builds no link, counts none, drops none and forwards nothing.
LEMMA OrderStands ==
  ASSUME TypeOK, NewestInv, ForwardInv,
         UNCHANGED <<client, current, relay, taken, bus>>,
         \A l \in Links : Built(l)' <=> Built(l),
         \A p \in Procs : mine'[p] \in {mine[p], None},
         retired' \in {retired, None} \/ \E p \in Procs : retired' = mine[p]
  PROVE  NewestInv' /\ ForwardInv'
<1> USE DEF TypeOK, TaskTypes, SessionTypes
<1>1. ForwardInv'
  BY DEF ForwardInv, LastOf, Built
<1>2. client' # None => Built(client)'
  <2>1. client # None => client \in Links /\ Built(client)
    BY DEF NewestInv
  <2>. QED
    BY <2>1 DEF Built
<1>3. retired' # None => Built(retired)'
  <2>1. retired' # None => retired' \in Links /\ Built(retired')
    BY DEF NewestInv
  <2>. QED
    BY <2>1 DEF Built
<1>4. ASSUME NEW p \in Procs, mine'[p] # None
      PROVE  /\ Built(mine[p])' /\ relay'[mine'[p]] = "none"
             /\ \A l \in Links : Built(l)' => l <= mine'[p]
  BY <1>4 DEF NewestInv, Built
<1>5. \A l, m \in Links : ~ Built(l)' /\ l < m => ~ Built(m)'
  BY DEF NewestInv
<1>. QED
  BY <1>1, <1>2, <1>3, <1>4, <1>5 DEF NewestInv

LEMMA DropKeepsOrder ==
  ASSUME TypeOK, NewestInv, ForwardInv, DropClient, UNCHANGED <<mine, status>>
  PROVE  NewestInv' /\ ForwardInv'
<1> USE DEF TypeOK, TaskTypes, SessionTypes, RelayTypes
<1>1. /\ client' = None /\ current' = None /\ UNCHANGED <<taken, bus>>
      /\ \A l \in Links : relay'[l] = IF l = client /\ relay[l] = "idle" THEN "off" ELSE relay[l]
      /\ retired' = IF client = None THEN retired ELSE client
  BY DEF DropClient
<1>2. None \notin Links
  BY SessionAssumption DEF Links
<1>3. ForwardInv'
  BY <1>1, <1>2 DEF ForwardInv, LastOf, Built
<1>4. NewestInv'
  BY <1>1, <1>2 DEF NewestInv, Built
<1>. QED
  BY <1>3, <1>4

LEMMA DialKeepsOrder ==
  ASSUME TypeOK, LockInv, MineInv, NewestInv, ForwardInv, NEW p \in Procs, Dial(p)
  PROVE  NewestInv' /\ ForwardInv'
<1> USE DEF TypeOK, TaskTypes, SessionTypes, RelayTypes, LinkTypes
<1>1. UNCHANGED <<client, retired, current, relay, taken, bus>>
  BY DEF Dial, heldVars, busVars
<1>2. CASE UNCHANGED <<mine, status>>
  BY <1>1, <1>2 DEF NewestInv, ForwardInv, LastOf, Built
<1>3. ASSUME NEW l \in Links, status[l] = "unbuilt", \A k \in 1 .. l - 1 : status[k] # "unbuilt",
             status' = [status EXCEPT ![l] = "alive"], mine' = [mine EXCEPT ![p] = l]
      PROVE  NewestInv' /\ ForwardInv'
  <2>1. \A m \in Links : (Built(m)' <=> Built(m) \/ m = l) /\ (Built(m)' => m <= l)
    BY <1>3 DEF Built, NewestInv, Links
  <2>2. ForwardInv'
    BY <1>1, <2>1 DEF ForwardInv, LastOf, Built
  <2>3. \A q \in Procs \ {p} : mine[q] = None
    BY DEF Dial, LockInv, MineInv, Inside, Building
  <2>4. \A k, m \in Links : ~ Built(k)' /\ k < m => ~ Built(m)'
    <3>1. ASSUME NEW k \in Links, NEW m \in Links, ~ Built(k)', k < m, Built(m)' PROVE FALSE
      <4>1. ~ Built(k) /\ k # l /\ m <= l /\ k \in Nat /\ l \in Nat /\ m \in Nat /\ 1 <= k
        BY <2>1, <3>1, SessionAssumption DEF Links
      <4>2. k \in 1 .. l - 1
        BY <3>1, <4>1
      <4>. QED
        BY <1>3, <4>1, <4>2 DEF Built
    <3>. QED
      BY <3>1
  <2>5. relay[l] = "none"
    BY <1>3 DEF ForwardInv, Built
  <2>6. \A q \in Procs : mine'[q] # None => q = p /\ mine'[q] = l
    BY <1>3, <2>3
  <2>. QED
    BY <1>1, <1>3, <2>1, <2>2, <2>4, <2>5, <2>6 DEF NewestInv, Built
<1>. QED
  BY <1>2, <1>3 DEF Dial

LEMMA CountKeepsOrder ==
  ASSUME TypeOK, LockInv, MineInv, HeldInv, NewestInv, ForwardInv, NEW p \in Procs, Count(p)
  PROVE  NewestInv' /\ ForwardInv'
<1> USE DEF TypeOK, TaskTypes, SessionTypes, RelayTypes
<1>1. PICK l \in Links : l = mine[p] /\ l # None
  BY SessionAssumption DEF Count, MineInv, Building
<1>2. /\ current' = l /\ client' = l /\ UNCHANGED <<retired, taken, bus, status>>
      /\ relay' = [relay EXCEPT ![l] = "idle"] /\ mine' = [mine EXCEPT ![p] = None]
  BY <1>1 DEF Count, linkVars
<1>3. client = None /\ Built(l) /\ relay[l] = "none" /\ \A m \in Links : Built(m) => m <= l
  BY <1>1 DEF Count, HeldInv, Vacant, Building, NewestInv
<1>4. \A q \in Procs \ {p} : mine[q] = None
  BY DEF Count, LockInv, MineInv, Inside, Building
<1>5. NewestInv'
  BY <1>2, <1>3, <1>4 DEF NewestInv, Built
<1>6. bus.link <= l
  <2>1. bus.link \in Links \cup {0}
    OBVIOUS
  <2>2. CASE bus.link \in Links
    BY <1>3, <2>2 DEF ForwardInv
  <2>3. CASE bus.link = 0
    BY <2>3 DEF Links
  <2>. QED
    BY <2>1, <2>2, <2>3
<1>7. taken[l] = 0 /\ bus.link # l
  BY <1>3 DEF ForwardInv
<1>8. \A m \in Links : relay[m] # "idle" /\ (m # l => relay'[m] = relay[m]) /\ relay'[l] = "idle"
  BY <1>2, <1>3, SessionAssumption DEF ForwardInv, Links
<1>. QED
  BY <1>2, <1>3, <1>5, <1>6, <1>7, <1>8 DEF ForwardInv, LastOf, Built

LEMMA ReceivesKeepsOrder ==
  ASSUME TypeOK, NewestInv, ForwardInv, NEW l \in Links, RelayReceives(l)
  PROVE  NewestInv' /\ ForwardInv'
<1> USE DEF TypeOK, TaskTypes, SessionTypes, RelayTypes
<1>1. /\ UNCHANGED <<client, current, retired, bus, status, mine>>
      /\ relay[l] = "idle" /\ relay'[l] \in {"event", "lagged"}
      /\ relay'[l] = "event" => taken'[l] = taken[l] + 1
      /\ \A m \in Links \ {l} : relay'[m] = relay[m] /\ taken'[m] = taken[m]
  BY DEF RelayReceives, heldVars, linkVars, taskVars
<1>2. relay'[l] = "lagged" => taken'[l] > taken[l]
  BY SessionAssumption DEF RelayReceives
<1>3. NewestInv'
  BY <1>1 DEF NewestInv, Built
<1>4. Built(l) /\ taken[l] = LastOf(l) /\ LastOf(l) \in Nat
  BY <1>1, SessionAssumption DEF ForwardInv, LastOf
<1>5. \A m \in Links : LastOf(m)' = LastOf(m)
  BY <1>1 DEF LastOf
<1>6. taken'[l] \in Nat
  BY <1>1, <1>4, SessionAssumption DEF RelayReceives
<1>. QED
  BY <1>1, <1>2, <1>3, <1>4, <1>5, <1>6 DEF ForwardInv, Built

LEMMA ForwardsInOrder ==
  ASSUME TypeOK, NewestInv, ForwardInv, NEW l \in Links, RelayForwards(l)
  PROVE  /\ NewestInv' /\ ForwardInv'
         /\ bus' # bus =>
              /\ bus' = [link |-> l, n |-> taken[l], kind |-> relay[l]]
              /\ l >= bus.link /\ taken[l] > LastOf(l)
              /\ relay[l] = "event" => taken[l] = LastOf(l) + 1
<1> USE DEF TypeOK, TaskTypes, SessionTypes, RelayTypes
<1>1. /\ UNCHANGED <<client, current, retired, taken, status, mine>>
      /\ relay[l] \in {"event", "lagged"} /\ relay'[l] \in {"idle", "off"}
      /\ \A m \in Links \ {l} : relay'[m] = relay[m]
  BY DEF RelayForwards, heldVars, linkVars, taskVars
<1>2. NewestInv'
  BY <1>1 DEF NewestInv, Built
<1>3. LastOf(l) \in Nat /\ taken[l] \in Nat /\ l \in Nat /\ l # None
  BY SessionAssumption DEF LastOf, Links
<1>4. CASE relay'[l] = "off" /\ bus' = bus
  BY <1>1, <1>2, <1>4 DEF ForwardInv, LastOf, Built
<1>5. CASE MayForward(l) /\ relay'[l] = "idle" /\ bus' = [link |-> l, n |-> taken[l], kind |-> relay[l]]
  <2>1. client = l /\ bus.link <= l
    BY <1>3, <1>5 DEF MayForward, ForwardInv
  <2>2. LastOf(l)' = taken[l] /\ bus'.link = l
    BY <1>5 DEF LastOf
  <2>3. \A m \in Links \ {l} : relay'[m] # "idle" /\ relay[m] # "idle"
    BY <1>1, <2>1 DEF ForwardInv
  <2>4. ForwardInv'
    BY <1>1, <1>3, <1>5, <2>1, <2>2, <2>3 DEF ForwardInv, Built
  <2>5. taken[l] > LastOf(l) /\ (relay[l] = "event" => taken[l] = LastOf(l) + 1)
    BY <1>1, <1>3, <2>1 DEF ForwardInv
  <2>. QED
    BY <1>2, <1>3, <1>5, <2>1, <2>4, <2>5
<1>. QED
  BY <1>4, <1>5 DEF RelayForwards

Drops(p) == (LookAlive(p) \/ CloseDrops(p) \/ Operate(p)) /\ DropClient

\* Every other step builds, counts, drops and forwards nothing.
LEMMA OtherSteps ==
  ASSUME TypeOK, NewestInv, [Next]_vars, ~ (\E p \in Procs : Drops(p)), ~ (\E p \in Procs : Dial(p) \/ Count(p)),
         ~ (\E l \in Links : Relay(l))
  PROVE  /\ UNCHANGED <<client, current, relay, taken, bus>>
         /\ \A l \in Links : Built(l)' <=> Built(l)
         /\ \A p \in Procs : mine'[p] \in {mine[p], None}
         /\ retired' \in {retired, None} \/ \E p \in Procs : retired' = mine[p]
<1> DEFINE Rest ==
      /\ UNCHANGED <<client, current, relay, taken, bus>>
      /\ \A l \in Links : Built(l)' <=> Built(l)
      /\ \A p \in Procs : mine'[p] \in {mine[p], None}
      /\ retired' \in {retired, None} \/ \E p \in Procs : retired' = mine[p]
<1> USE DEF TypeOK, TaskTypes, SessionTypes, LinkTypes, taskVars, heldVars, busVars, linkVars
<1>0. CleanupWorks => \A l \in Links : Built(l)' <=> Built(l)
  BY SessionAssumption DEF CleanupWorks, Built, NewestInv, Links
<1>1. ASSUME UNCHANGED <<client, current, relay, taken, bus, status, mine, retired>> PROVE Rest
  BY <1>1 DEF Built
<1>2. ASSUME CleanupWorks \/ CleanupFails, UNCHANGED <<client, current, relay, taken, bus, mine>>
      PROVE  Rest
  BY <1>0, <1>2 DEF CleanupWorks, CleanupFails, Built
<1>3. ASSUME NEW p \in Procs, LookAlive(p) \/ CloseDrops(p) \/ Operate(p) PROVE Rest
  BY <1>1, <1>3 DEF Drops, LookAlive, CloseDrops, Operate
<1>4. ASSUME NEW p \in Procs,
             CleanPre(p) \/ CleanPost(p) \/ CleanEst(p) \/ CleanLost(p) \/ CleanRefused(p)
      PROVE  Rest
  BY <1>2, <1>4 DEF CleanPre, CleanPost, CleanEst, CleanLost, CleanRefused
<1>5. ASSUME NEW p \in Procs, Dialed(p) \/ Settle(p) \/ Settled(p) PROVE Rest
  BY <1>1, <1>5 DEF Dialed, Settle, Settled, RetireMine, Built
<1>6. ASSUME NEW p \in Procs, Cancel(p) PROVE Rest
  BY <1>6 DEF Cancel, Built
<1>7. ASSUME NEW p \in Procs, CloseSender(p) \/ Rewarm(p) \/ Establish(p) \/ Acquire(p) PROVE Rest
  BY <1>1, <1>7 DEF CloseSender, Rewarm, Spawn, Establish, Acquire
<1>8. ASSUME NEW p \in Procs, Probe(p) \/ Warm(p) \/ \E o \in Operations : Start(p, o) PROVE Rest
  BY <1>1, <1>8 DEF Probe, Warm, Spawn, Start
<1>9. ASSUME NEW l \in Links, LinkDies(l) \/ EventArrives(l) PROVE Rest
  BY <1>1, <1>9 DEF LinkDies, EventArrives, Alive, Built
<1>10. CASE QuietEnds \/ vars' = vars
  BY <1>1, <1>10 DEF QuietEnds, vars
<1>. QED
  BY <1>3, <1>4, <1>5, <1>6, <1>7, <1>8, <1>9, <1>10 DEF Next, Progress, Environment, Procs

LEMMA OrderKept ==
  ASSUME IInv, NewestInv, ForwardInv, [Next]_vars
  PROVE  /\ NewestInv' /\ ForwardInv'
         /\ bus' # bus => \E l \in Links : RelayForwards(l)
<1> USE DEF IInv
<1>1. ASSUME NEW p \in Procs, Drops(p)
      PROVE  NewestInv' /\ ForwardInv' /\ bus' = bus
  <2>1. DropClient /\ UNCHANGED <<mine, status>>
    BY <1>1 DEF Drops, LookAlive, CloseDrops, Operate, linkVars
  <2>. QED
    BY <2>1, DropKeepsOrder DEF DropClient
<1>2. ASSUME NEW p \in Procs, Dial(p) \/ Count(p)
      PROVE  NewestInv' /\ ForwardInv' /\ bus' = bus
  BY <1>2, DialKeepsOrder, CountKeepsOrder DEF Dial, Count, busVars
<1>3. ASSUME NEW l \in Links, RelayReceives(l)
      PROVE  NewestInv' /\ ForwardInv' /\ bus' = bus
  BY <1>3, ReceivesKeepsOrder DEF RelayReceives
<1>4. ASSUME NEW l \in Links, RelayForwards(l)
      PROVE  NewestInv' /\ ForwardInv'
  BY <1>4, ForwardsInOrder
<1>5. CASE /\ ~ (\E p \in Procs : Drops(p))
           /\ ~ (\E p \in Procs : Dial(p) \/ Count(p))
           /\ ~ (\E l \in Links : Relay(l))
  BY <1>5, OtherSteps, OrderStands
<1>. QED
  BY <1>1, <1>2, <1>3, <1>4, <1>5 DEF Relay

(* What subscribers see of the links, however often the session drops one  *)
(* and builds another, whoever cancels, and however far a relay lags: the  *)
(* links in order, of each the events in order, none twice and none        *)
(* missing but what a lag announces (spawn_relay, establish, drop_client). *)
THEOREM EventsInOrder == Spec => BusInOrder
<1>1. Init => NewestInv /\ ForwardInv
  BY SessionAssumption DEF Init, NewestInv, ForwardInv, Built, LastOf, NoEvent, Links
<1>2. IInv /\ NewestInv /\ ForwardInv /\ [Next]_vars => NewestInv' /\ ForwardInv'
  BY OrderKept
<1>3. ASSUME IInv, NewestInv, ForwardInv, [Next]_vars, bus' # bus
      PROVE  LET before == IF bus'.link = bus.link THEN bus.n ELSE 0 IN
             /\ bus'.link >= bus.link
             /\ bus'.n > before
             /\ bus'.kind = "event" => bus'.n = before + 1
  <2>1. PICK l \in Links : RelayForwards(l)
    BY <1>3, OrderKept
  <2>2. /\ bus' = [link |-> l, n |-> taken[l], kind |-> relay[l]]
        /\ l >= bus.link /\ taken[l] > LastOf(l)
        /\ relay[l] = "event" => taken[l] = LastOf(l) + 1
    BY <1>3, <2>1, ForwardsInOrder DEF IInv
  <2>3. bus'.link = l /\ bus'.n = taken[l] /\ bus'.kind = relay[l]
    BY <2>2
  <2>. QED
    BY <2>2, <2>3 DEF LastOf
<1>4. IInv /\ NewestInv /\ ForwardInv /\ [Next]_vars =>
        [bus' # bus =>
           LET before == IF bus'.link = bus.link THEN bus.n ELSE 0 IN
           /\ bus'.link >= bus.link
           /\ bus'.n > before
           /\ bus'.kind = "event" => bus'.n = before + 1]_vars
  BY <1>3
<1>. QED
  BY Inductive, <1>1, <1>2, <1>4, PTL DEF Spec, BusInOrder

=============================================================================
