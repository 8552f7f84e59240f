------------------------ MODULE LinkSupervisor_proof ------------------------
(***************************************************************************)
(* The supervisor's types and its refusal grace, for every ladder, every   *)
(* grace and every clock; and what run(), which asks it, saw of a link     *)
(* that is no longer so.                                                   *)
(***************************************************************************)
EXTENDS MCSessionLive, TLAPS

(* One doubling stays on the ladder: next_wait never leaves                *)
(* Retry .. Ceiling.                                                       *)
LEMMA NextWaitOnLadder ==
  ASSUME NEW w \in Retry .. Ceiling
  PROVE  NextWait(w) \in Retry .. Ceiling
BY SupervisorAssumption DEF NextWait

(* What one call of after() does to the supervisor's fields: the type      *)
(* part of the induction, for a clock that does not run backwards.         *)
LEMMA AfterTypes ==
  ASSUME TypeOK, NEW o \in Outcomes, NEW t \in Nat, t >= now, After(o, t)
  PROVE  /\ wait' \in Retry .. Ceiling
         /\ refusedSince' \in (0 .. t) \cup {None}
         /\ decision' \in Decisions
<1>0. /\ wait \in Retry .. Ceiling
      /\ wait \in 0 .. Ceiling
      /\ refusedSince \in (0 .. t) \cup {None}
      /\ 0 \in 0 .. Ceiling
  BY SupervisorAssumption DEF TypeOK
<1>1. CASE o = "Up" /\ OnUp
  BY <1>0, <1>1, SupervisorAssumption DEF OnUp, Hold, Decisions, Outcomes
<1>2. CASE o = "Dropped" /\ OnDropped
  BY <1>0, <1>2 DEF OnDropped, RetryIn, Decisions, Outcomes
<1>3. CASE o = "Failed" /\ OnFailed
  BY <1>0, <1>3, NextWaitOnLadder DEF OnFailed, Climb, RetryIn, Decisions
<1>4. CASE o = "Refused" /\ OnRefused(t)
  <2>1. refusedSince' \in 0 .. t
    BY <1>0, <1>4 DEF OnRefused
  <2>2. CASE decision' = GiveUp("Refused") /\ UNCHANGED wait
    BY <1>0, <2>1, <2>2 DEF GiveUp, Decisions, Outcomes
  <2>3. CASE Climb
    BY <1>0, <2>1, <2>3, NextWaitOnLadder DEF Climb, RetryIn, Decisions
  <2>4. QED
    BY <1>4, <2>2, <2>3 DEF OnRefused
<1>5. CASE o \in FatalOutcomes /\ OnFatal(o)
  BY <1>0, <1>5 DEF OnFatal, GiveUp, Decisions, Outcomes
<1>6. QED
  BY <1>1, <1>2, <1>3, <1>4, <1>5 DEF After

(* The supervisor's fields keep their types: in particular the ladder      *)
(* never leaves [retry, retry_ceiling] (LinkSupervisor::after).            *)
THEOREM TypeCorrect == Spec => []TypeOK
<1>1. Init => TypeOK
  BY SupervisorAssumption DEF Init, SupervisorInit, TypeOK, Hold, Decisions
<1>2. TypeOK /\ [Next]_vars => TypeOK'
  <2> SUFFICES ASSUME TypeOK, [Next]_vars PROVE TypeOK'
    OBVIOUS
  <2>1. CASE Next
    <3>1. PICK o \in Outcomes, t \in now .. Horizon : Observe(o, t)
      BY <2>1 DEF Next
    <3>2. /\ t \in Nat /\ t >= now /\ now' = t /\ After(o, t)
      BY <3>1, SupervisorAssumption DEF Observe, TypeOK
    <3>3. notRefused' \in 0 .. now' /\ handedOut' \in Nat
      BY <3>1, <3>2 DEF Observe, TypeOK
    <3>4. QED
      BY <3>2, <3>3, AfterTypes DEF TypeOK
  <2>2. CASE UNCHANGED vars
    BY <2>2 DEF vars, TypeOK
  <2>3. QED
    BY <2>1, <2>2
<1>3. QED
  BY <1>1, <1>2, PTL DEF Spec

(* One step of the supervisor keeps the refusal clock behind the last      *)
(* outcome that was no refusal, and gives up only a whole grace after it.  *)
LEMMA ObserveIsPatient ==
  ASSUME TypeOK, ClockStartsAfresh,
         NEW o \in Outcomes, NEW t \in now .. Horizon, Observe(o, t)
  PROVE  /\ ClockStartsAfresh'
         /\ decision'.reason = "Refused" => now' - notRefused' >= Grace
<1>0. /\ t \in Nat /\ now \in Nat /\ t >= now /\ now' = t /\ After(o, t)
      /\ notRefused \in Nat /\ notRefused <= now
      /\ refusedSince \in (0 .. now) \cup {None}
      /\ None \notin Nat
  BY SupervisorAssumption DEF Observe, TypeOK
<1>1. CASE o = "Refused"
  <2>1. OnRefused(t) /\ notRefused' = notRefused
    BY <1>0, <1>1 DEF After, Observe, FatalOutcomes
  <2>2. /\ refusedSince' \in Nat
        /\ refusedSince' >= notRefused
        /\ refusedSince' <= t
    <3>1. CASE refusedSince = None
      BY <1>0, <2>1, <3>1 DEF OnRefused
    <3>2. CASE refusedSince # None
      <4>1. refusedSince \in 0 .. now /\ refusedSince >= notRefused
        BY <1>0, <3>2 DEF ClockStartsAfresh
      <4>2. refusedSince' = refusedSince
        BY <2>1, <3>2 DEF OnRefused
      <4>3. QED
        BY <1>0, <4>1, <4>2
    <3>3. QED
      BY <3>1, <3>2
  <2>3. ASSUME decision'.reason = "Refused"
        PROVE  now' - notRefused' >= Grace
    <3>1. ~ Climb
      BY <2>3 DEF Climb, RetryIn
    <3>2. t - refusedSince' >= Grace
      BY <1>0, <2>1, <2>2, <3>1, SupervisorAssumption DEF OnRefused, Elapsed
    <3>3. QED
      <4> DEFINE r == refusedSince'
      <4>1. /\ r \in Nat /\ r >= notRefused /\ r <= t /\ t - r >= Grace
            /\ t \in Nat /\ notRefused \in Nat /\ Grace \in Nat
        BY <1>0, <2>2, <3>2, SupervisorAssumption
      <4>2. now' = t /\ notRefused' = notRefused
        BY <1>0, <2>1
      <4> HIDE DEF r
      <4>3. t - notRefused >= Grace
        BY <4>1
      <4>4. QED
        BY <4>2, <4>3
  <2>4. QED
    BY <2>1, <2>2, <2>3 DEF ClockStartsAfresh
<1>2. CASE o \in {"Up", "Failed"}
  BY <1>0, <1>2 DEF After, OnUp, OnFailed, Climb, Hold, RetryIn,
                    FatalOutcomes, ClockStartsAfresh
<1>3. CASE o \in {"Dropped"} \cup FatalOutcomes
  <2>1. /\ UNCHANGED refusedSince
        /\ notRefused' = notRefused
        /\ decision' = RetryIn(0) \/ decision' = GiveUp(o)
    BY <1>0, <1>3 DEF After, OnDropped, OnFatal, FatalOutcomes, Observe
  <2>2. decision'.reason # "Refused"
    BY <1>3, <2>1 DEF RetryIn, GiveUp, FatalOutcomes
  <2>3. QED
    BY <2>1, <2>2 DEF ClockStartsAfresh
<1>4. QED
  BY <1>1, <1>2, <1>3 DEF Outcomes

(* A run of refusals is counted from after the last outcome that was not   *)
(* one (the Up and Failed arms of after()).                                *)
THEOREM RefusalClockIsFresh == Spec => []ClockStartsAfresh
<1>1. Init => ClockStartsAfresh
  BY DEF Init, SupervisorInit, ClockStartsAfresh
<1>2. TypeOK /\ ClockStartsAfresh /\ [Next]_vars => ClockStartsAfresh'
  BY ObserveIsPatient DEF Next, vars, ClockStartsAfresh
<1>3. QED
  BY <1>1, <1>2, TypeCorrect, PTL DEF Spec

(* The supervisor gives up on refusals only after the hub has done nothing *)
(* but refuse for the whole grace.                                         *)
THEOREM PatientWithRefusals == Spec => GivesUpOnlyAfterGrace
<1>1. TypeOK /\ ClockStartsAfresh /\ [Next]_vars
        => [decision'.reason = "Refused" => now' - notRefused' >= Grace]_vars
  BY ObserveIsPatient DEF Next
<1>2. QED
  BY <1>1, TypeCorrect, RefusalClockIsFresh, PTL
     DEF Spec, GivesUpOnlyAfterGrace

(* It never retries a refusal once the refusals have lasted the grace.     *)
THEOREM Impatient == Spec => NeverOverstaysGrace
<1>. DEFINE Retries == decision'.act = "retry" /\ refusedSince' # None
                       /\ decision'.wait > 0
<1>1. ASSUME TypeOK, NEW o \in Outcomes, NEW t \in now .. Horizon,
             Observe(o, t), Retries
      PROVE  now' - refusedSince' < Grace
  <2>1. t \in Nat /\ t >= now /\ now' = t /\ After(o, t)
    BY <1>1, SupervisorAssumption DEF TypeOK, Observe
  <2>2. CASE o = "Refused"
    <3>1. OnRefused(t)
      BY <2>1, <2>2 DEF After, FatalOutcomes
    <3>2. QED
      BY <1>1, <2>1, <3>1, SupervisorAssumption
         DEF OnRefused, Elapsed, GiveUp, TypeOK
  <2>3. CASE o \in {"Up", "Failed"}
    BY <1>1, <2>1, <2>3 DEF After, OnUp, OnFailed, FatalOutcomes
  <2>4. CASE o \in {"Dropped"} \cup FatalOutcomes
    BY <1>1, <2>1, <2>4
       DEF After, OnDropped, OnFatal, RetryIn, GiveUp, FatalOutcomes
  <2>5. QED
    BY <2>2, <2>3, <2>4 DEF Outcomes
<1>2. TypeOK /\ [Next]_vars => [Retries => now' - refusedSince' < Grace]_vars
  BY <1>1 DEF Next
<1>3. QED
  BY <1>2, TypeCorrect, PTL DEF Spec, NeverOverstaysGrace

(* The supervisor gives up on refusals exactly when they have lasted the   *)
(* grace.                                                                  *)
THEOREM GraceHolds == Spec => GraceIsExact
  BY PatientWithRefusals, Impatient DEF GraceIsExact

-----------------------------------------------------------------------------
(* SessionRun: what the loop of HubSession::run saw of a link before       *)
(* another caller replaced it does no harm.                                *)

(* Since run() last dialled a link of its own, its ladder is where it      *)
(* began: until a step of it is handed out nothing climbs, and the only    *)
(* climbed ladder of a fresh link is the one its success is about to       *)
(* reset.                                                                  *)
FreshInv ==
  /\ outcome \in Run!AttemptOutcomes
  /\ ~stepped => runWait = RunRetry \/ (runPc = "decide" /\ outcome = "Up")

(* What the decision after an attempt does to the ladder: an up link       *)
(* resets it, and a wait that is handed out is the step it stood at.       *)
LEMMA AttemptIsTold ==
  ASSUME NEW t, outcome \in Run!AttemptOutcomes, outcome # "Identity",
         Run!Supervisor!Observe(outcome, t)
  PROVE  /\ outcome = "Up" => runWait' = RunRetry /\ runDecision'.act = "hold"
         /\ outcome # "Up" /\ runDecision'.act = "retry" => runDecision'.wait = runWait
         /\ runDecision'.act # "retry" /\ outcome # "Up" => runWait' = runWait
<1>1. Run!Supervisor!After(outcome, t)
  BY DEF Run!Supervisor!Observe
<1>2. CASE outcome = "Up"
  BY <1>1, <1>2 DEF Run!Supervisor!After, Run!Supervisor!OnUp, Run!Supervisor!Hold,
                    Run!Supervisor!FatalOutcomes
<1>3. CASE outcome = "Failed"
  BY <1>1, <1>3 DEF Run!Supervisor!After, Run!Supervisor!OnFailed, Run!Supervisor!Climb,
                    Run!Supervisor!RetryIn, Run!Supervisor!FatalOutcomes
<1>4. CASE outcome = "Refused"
  BY <1>1, <1>4 DEF Run!Supervisor!After, Run!Supervisor!OnRefused, Run!Supervisor!Climb,
                    Run!Supervisor!RetryIn, Run!Supervisor!GiveUp, Run!Supervisor!FatalOutcomes
<1>5. CASE outcome \in Run!Supervisor!FatalOutcomes
  BY <1>1, <1>5 DEF Run!Supervisor!After, Run!Supervisor!OnFatal, Run!Supervisor!GiveUp,
                    Run!Supervisor!FatalOutcomes
<1>6. QED
  BY <1>2, <1>3, <1>4, <1>5 DEF Run!AttemptOutcomes, Run!Supervisor!FatalOutcomes

(* A drop that is redialled at once leaves the ladder where it is.         *)
LEMMA DropIsTold ==
  ASSUME NEW t, Run!Supervisor!Observe("Dropped", t)
  PROVE  runWait' = runWait
BY DEF Run!Supervisor!Observe, Run!Supervisor!After, Run!Supervisor!OnDropped,
       Run!Supervisor!FatalOutcomes

LEMMA FreshKeeps ==
  ASSUME FreshInv, [Run!Next]_(Run!vars)
  PROVE  FreshInv'
<1>1. CASE Run!Recheck
  BY <1>1, DropIsTold DEF FreshInv, Run!Recheck, Run!Goto, Run!supervisorVars, Run!timeVars
<1>2. CASE Run!Decide
  <2>1. CASE outcome = "Identity"
    BY <1>2, <2>1 DEF FreshInv, Run!Decide, Run!supervisorVars
  <2>2. CASE outcome # "Identity"
    <3>1. PICK t : t = clock /\ Run!Supervisor!Observe(outcome, t)
      BY <1>2, <2>2 DEF Run!Decide
    <3>2. /\ runPc = "decide" /\ outcome' = outcome
          /\ \/ runDecision'.act \in {"hold", "giveup"} /\ stepped' = stepped
             \/ stepped' = TRUE
      BY <1>2, <2>2 DEF Run!Decide
    <3>3. QED
      BY <2>2, <3>1, <3>2, AttemptIsTold DEF FreshInv
  <2>3. QED
    BY <2>1, <2>2
<1>3. CASE Run!Register \/ Run!CheckOpen \/ Run!Look \/ Run!WatchEnds \/ Run!ProbeTimer \/ Run!Watched
  BY <1>3 DEF FreshInv, Run!Register, Run!CheckOpen, Run!Look, Run!WatchEnds, Run!ProbeTimer,
              Run!Watched, Run!Goto, Run!Return, Run!supervisorVars, Run!timeVars
<1>4. CASE Run!BeginDial
  BY <1>4 DEF FreshInv, Run!BeginDial, Run!AttemptOutcomes, Run!supervisorVars
<1>5. CASE Run!EndDial
  BY <1>5 DEF FreshInv, Run!EndDial, Run!Goto, Run!AttemptOutcomes, Run!supervisorVars
<1>6. CASE Run!Decided \/ Run!WaitEnds
  BY <1>6 DEF FreshInv, Run!Decided, Run!WaitEnds, Run!Goto, Run!Return, Run!supervisorVars,
              Run!timeVars
<1>7. CASE Run!OtherEstablishes \/ Run!OtherDrops \/ Run!LinkDies \/ Run!CloseMarks \/ Run!CloseStep
           \/ Run!Tick \/ UNCHANGED Run!vars
  BY <1>7 DEF FreshInv, Run!OtherEstablishes, Run!OtherDrops, Run!LinkDies, Run!CloseMarks,
              Run!CloseStep, Run!CloseNotifies, Run!CloseDrops, Run!Tick, Run!vars,
              Run!supervisorVars, Run!runVars, Run!timeVars
<1>8. QED
  BY <1>1, <1>2, <1>3, <1>4, <1>5, <1>6, <1>7 DEF Run!Next, Run!RunStep

(* What goes on beside run() is no step of it, and of its own steps only   *)
(* the re-check and the dial drop a client: a dead one.                    *)
LEMMA NoLiveLinkIsTaken ==
  ASSUME [Run!Next]_(Run!vars), runPc' # runPc, link = "up"
  PROVE  link' = "up"
<1>1. CASE Run!Recheck \/ Run!BeginDial \/ Run!EndDial
  BY <1>1 DEF Run!Recheck, Run!BeginDial, Run!EndDial, Run!LinkComesUp
<1>2. CASE Run!Register \/ Run!CheckOpen \/ Run!Look \/ Run!WatchEnds \/ Run!ProbeTimer \/ Run!Watched
  BY <1>2 DEF Run!Register, Run!CheckOpen, Run!Look, Run!WatchEnds, Run!ProbeTimer,
              Run!Watched, Run!sessionVars
<1>3. CASE Run!Decide \/ Run!Decided \/ Run!WaitEnds
  BY <1>3 DEF Run!Decide, Run!Decided, Run!WaitEnds
<1>4. CASE Run!OtherEstablishes \/ Run!OtherDrops \/ Run!LinkDies \/ Run!CloseMarks \/ Run!CloseStep
           \/ Run!Tick \/ UNCHANGED Run!vars
  BY <1>4 DEF Run!OtherEstablishes, Run!OtherDrops, Run!LinkDies, Run!CloseMarks,
              Run!CloseStep, Run!CloseNotifies, Run!CloseDrops, Run!Tick, Run!vars, Run!runVars
<1>5. QED
  BY <1>1, <1>2, <1>3, <1>4 DEF Run!Next, Run!RunStep

(* The first wait after a link of its own is the first step of the ladder. *)
LEMMA FirstWaitIsFirst ==
  ASSUME FreshInv, [Run!Next]_(Run!vars), runPc = "decide", runPc' = "decided", ~stepped
  PROVE  runDecision'.wait = RunRetry
<1>1. Run!Decide
  BY DEF Run!Next, Run!RunStep, Run!Register, Run!CheckOpen, Run!Look, Run!WatchEnds,
         Run!ProbeTimer, Run!Watched, Run!Recheck, Run!BeginDial, Run!EndDial, Run!Decided,
         Run!WaitEnds, Run!Goto, Run!OtherEstablishes, Run!OtherDrops, Run!LinkDies,
         Run!CloseMarks, Run!CloseStep, Run!CloseNotifies, Run!CloseDrops, Run!Tick, Run!vars,
         Run!runVars
<1>2. outcome # "Identity" /\ runDecision'.act = "retry"
  BY <1>1 DEF Run!Decide, Run!Return
<1>3. PICK t : t = clock /\ Run!Supervisor!Observe(outcome, t)
  BY <1>1, <1>2 DEF Run!Decide
<1>4. QED
  BY <1>2, <1>3, AttemptIsTold DEF FreshInv

(* For every policy, every outcome of every attempt and every              *)
(* interleaving with the session's other callers, run() takes down no live *)
(* link, and its ladder begins anew with every link it dials               *)
(* (HubSession::run).                                                      *)
THEOREM RunIsHarmless ==
  Run!Init /\ [][Run!Next]_(Run!vars) => Run!StaleLookIsHarmless
<1>1. Run!Init => FreshInv
  BY DEF Run!Init, FreshInv, Run!AttemptOutcomes, Run!Supervisor!Init,
         Run!Supervisor!SupervisorInit
<1>2. FreshInv /\ [Run!Next]_(Run!vars) => FreshInv'
  BY FreshKeeps
<1>3. [Run!Next]_(Run!vars) => [(runPc' # runPc /\ link = "up") => link' = "up"]_(Run!vars)
  BY NoLiveLinkIsTaken
<1>4. FreshInv /\ [Run!Next]_(Run!vars) =>
        [(runPc = "decide" /\ runPc' = "decided" /\ ~stepped)
           => runDecision'.wait = RunRetry]_(Run!vars)
  BY FirstWaitIsFirst
<1>5. QED
  BY <1>1, <1>2, <1>3, <1>4, PTL DEF Run!StaleLookIsHarmless, Run!TakesNoLiveLink,
     Run!LadderStartsAfresh

(* The whole of MCSessionLive: its components share no step, so that run() *)
(* is as harmless there.                                                   *)
THEOREM StaleLooksAreHarmless == LiveSpec => StaleLookIsHarmless
<1>1. LiveInit => Run!Init
  BY DEF LiveInit
<1>2. [LiveNext]_LiveVars => [Run!Next]_(Run!vars)
  BY DEF LiveNext, LiveVars, runVars, Run!vars, Run!supervisorVars, Run!runVars,
         Run!sessionVars, Run!timeVars
<1>3. QED
  BY <1>1, <1>2, RunIsHarmless, PTL DEF LiveSpec, StaleLookIsHarmless
=============================================================================
