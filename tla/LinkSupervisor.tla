--------------------------- MODULE LinkSupervisor ---------------------------
(***************************************************************************)
(* How a long-lived hub link is kept up: LinkSupervisor of src/session.rs, *)
(* the function of (outcome of an attempt, time) that HubSession::run asks *)
(* after every attempt.                                                    *)
(*                                                                         *)
(* The supervisor's two fields are the variables wait and refusedSince.    *)
(* The actions On... are the arms of after(); they only constrain the      *)
(* supervisor's own variables, so that SessionRun uses them in the steps   *)
(* of run().  The specification at the end of this module drives them      *)
(* with every outcome at every non-decreasing time, as the vectors of      *)
(* tests/link_keeping.rs do.                                               *)
(***************************************************************************)
EXTENDS Integers

CONSTANTS
  Retry,     \* policy.retry: the first step of the ladder
  Ceiling,   \* policy.retry_ceiling
  Grace,     \* refusal_grace; LinkSupervisor::new accepts zero
  None,      \* the absent refused_since
  Horizon    \* bound on the clock of this specification

ASSUME SupervisorAssumption ==
  /\ Retry \in Nat \ {0}
  /\ Ceiling \in Nat /\ Retry <= Ceiling      \* HubSessionPolicy::validate
  /\ Grace \in Nat
  /\ None \notin Nat
  /\ Horizon \in Nat

VARIABLES
  wait,          \* the next step of the ladder
  refusedSince,  \* when the current run of refusals began, or None
  decision       \* what after() returned last

supervisorVars == <<wait, refusedSince, decision>>

Hold         == [act |-> "hold", wait |-> 0, reason |-> "none"]
RetryIn(w)   == [act |-> "retry", wait |-> w, reason |-> "none"]
GiveUp(o)    == [act |-> "giveup", wait |-> 0, reason |-> o]

FatalOutcomes == {"KeyChanged", "ClientKeyRejected"}
Outcomes      == {"Up", "Dropped", "Failed", "Refused"} \cup FatalOutcomes

Decisions ==
  [act : {"hold", "retry", "giveup"}, wait : 0 .. Ceiling,
   reason : Outcomes \cup {"none"}]

(* Operators named Name_Change are Name as a plausible mistake would have   *)
(* written it: each is what some property is there to exclude.              *)

(* HubSessionPolicy::next_wait.                                            *)
NextWait(w) == IF 2 * w <= Ceiling THEN 2 * w ELSE Ceiling

(* Duration::saturating_sub.                                               *)
Elapsed(t, since) == IF t >= since THEN t - since ELSE 0

SupervisorInit ==
  /\ wait = Retry
  /\ refusedSince = None
  /\ decision = Hold

(* The common tail of after(): hand out the ladder's step and climb.       *)
Climb ==
  /\ decision' = RetryIn(wait)
  /\ wait' = NextWait(wait)

OnUp_KeepsClock ==
  /\ wait' = Retry
  /\ decision' = Hold
  /\ UNCHANGED refusedSince

OnUp ==
  /\ wait' = Retry
  /\ refusedSince' = None
  /\ decision' = Hold

OnDropped ==
  /\ decision' = RetryIn(0)
  /\ UNCHANGED <<wait, refusedSince>>

OnFatal(o) ==
  /\ decision' = GiveUp(o)
  /\ UNCHANGED <<wait, refusedSince>>

OnFailed ==
  /\ refusedSince' = None
  /\ Climb

OnRefused(t) ==
  LET since == IF refusedSince = None THEN t ELSE refusedSince IN
  /\ refusedSince' = since
  /\ \/ /\ Elapsed(t, since) >= Grace
        /\ decision' = GiveUp("Refused")
        /\ UNCHANGED wait
     \/ /\ Elapsed(t, since) < Grace
        /\ Climb

(* LinkSupervisor::after(outcome, t).                                      *)
After(o, t) ==
  \/ o = "Up" /\ OnUp
  \/ o = "Dropped" /\ OnDropped
  \/ o = "Failed" /\ OnFailed
  \/ o = "Refused" /\ OnRefused(t)
  \/ o \in FatalOutcomes /\ OnFatal(o)

-----------------------------------------------------------------------------
(* The supervisor driven by arbitrary outcomes.  The history variables are *)
(* not read by any step: they record, independently of the supervisor's    *)
(* fields, what it was told.                                               *)

VARIABLES
  now,         \* time of the last outcome
  notRefused,  \* when the hub last answered otherwise than by a refusal
               \* or a drop (an Up or a Failed), 0 before the first outcome
  handedOut    \* the ladder's steps handed out since the last Up

vars == <<wait, refusedSince, decision, now, notRefused, handedOut>>

Init ==
  /\ SupervisorInit
  /\ now = 0
  /\ notRefused = 0
  /\ handedOut = 0

Observe(o, t) ==
  /\ now' = t
  /\ After(o, t)
  /\ notRefused' = IF o \in {"Up", "Failed"} THEN t ELSE notRefused
  /\ handedOut' = IF o = "Up" THEN 0
                  ELSE IF decision'.act = "retry" /\ o # "Dropped"
                       THEN handedOut + 1 ELSE handedOut
  /\ handedOut' <= Horizon + 1

Next == \E o \in Outcomes, t \in now .. Horizon : Observe(o, t)

Spec == Init /\ [][Next]_vars

-----------------------------------------------------------------------------
(* The ladder stays between its first step and its ceiling, the refusal    *)
(* clock never runs ahead of the clock, and nothing but a retry carries a  *)
(* wait.                                                                   *)
TypeOK ==
  /\ wait \in Retry .. Ceiling
  /\ refusedSince \in (0 .. now) \cup {None}
  /\ decision \in Decisions
  /\ now \in Nat
  /\ notRefused \in 0 .. now
  /\ handedOut \in Nat

(* A run of refusals is counted from after the last outcome that was not   *)
(* one: a failure or an up link stops the count.  (after(): the Failed and *)
(* Up arms clear refused_since; only a Refused outcome sets it.)           *)
ClockStartsAfresh == refusedSince # None => refusedSince >= notRefused

(* The supervisor gives up on refusals only after the hub has done nothing *)
(* but refuse (or drop) for the whole grace.                               *)
GivesUpOnlyAfterGrace ==
  [][decision'.reason = "Refused" => now' - notRefused' >= Grace]_vars

(* It never waits through the grace: while it retries after a refusal, the *)
(* refusals have lasted less than the grace.                               *)
NeverOverstaysGrace ==
  [][(decision'.act = "retry" /\ refusedSince' # None /\ decision'.wait > 0)
       => now' - refusedSince' < Grace]_vars

(* The supervisor gives up on refusals exactly when they have lasted the   *)
(* grace.                                                                  *)
GraceIsExact == GivesUpOnlyAfterGrace /\ NeverOverstaysGrace

(* The k-th step handed out since the link was last up is                  *)
(* retry * 2^(k-1), capped at the ceiling: outcomes that hand out no step  *)
(* (a drop, a verdict) neither climb nor reset the ladder.                 *)
Capped(n) == IF n <= Ceiling THEN n ELSE Ceiling
LadderDoubles ==
  [][(decision'.act = "retry" /\ decision'.wait > 0)
       => decision'.wait = Capped(Retry * 2 ^ (handedOut' - 1))]_vars
=============================================================================
