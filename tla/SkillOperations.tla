-------------------------- MODULE SkillOperations --------------------------
(***************************************************************************)
(* Skills installed, moved or removed on the runtime a hub shares          *)
(* (control/hub_skills.rs): a change is one request that the hub accepts   *)
(* as an operation, and `wait_for_hub_skill_operation` may be abandoned    *)
(* and taken up again with what was accepted, then or after other changes. *)
(***************************************************************************)
EXTENDS Naturals, Sequences

CONSTANTS
    None,
    Poll,           \* poll_interval
    Timeouts,       \* bound: the timeouts a caller may ask for
    MaxTime,
    MaxWaits,       \* bound: waits of the caller
    MaxChanges      \* bound: changes the caller asks for

SkillOperationsAssumption ==
    /\ Poll \in Nat /\ Timeouts \subseteq Nat
    /\ MaxTime \in Nat /\ MaxWaits \in Nat /\ MaxChanges \in Nat
    /\ None \notin Nat \cup {"pending", "ready", "failed", "timed_out", "error", "timeout"}

VARIABLES
    now,
    at,             \* "idle", "sent", "taken", "due", "reading", "asleep"
    changes,        \* the changes asked for with a valid timeout
    operations,     \* the hub: what each change it has taken came to so far
    accepted,       \* the operations of which the caller holds the answer
    waitedFor,      \* the operation of the last wait, or None
    patience,       \* the timeout of a change that is to be waited for, or None
    deadline, wakes,
    seen,           \* the status a read brought, on its way
    readAt,         \* when the last read was begun
    outcome, waits

callerVars == <<changes, accepted, waitedFor, patience, waits>>
waitVars == <<deadline, wakes, seen, readAt>>
skillVars == <<now, at, operations, outcome, callerVars, waitVars>>

SkillOperationsInit ==
    /\ now = 0 /\ at = "idle" /\ changes = 0 /\ operations = <<>> /\ accepted = {}
    /\ waitedFor = None /\ patience = None /\ deadline = 0 /\ wakes = 0
    /\ seen = None /\ readAt = None /\ outcome = None /\ waits = 0

Ends(what) == outcome' = what /\ at' = "idle"

\* A timeout or an interval of zero is refused before anything is sent.
Valid(timeout) == timeout > 0 /\ Poll > 0

-----------------------------------------------------------------------------
(* A change: one request.                                                  *)

Sends(timeout) ==
    /\ at' = "sent" /\ patience' = timeout
    /\ outcome' = None /\ waitedFor' = None /\ readAt' = None

\* `change_hub_skill`.
Change(timeout, wait) ==
    /\ at = "idle" /\ changes < MaxChanges
    /\ IF Valid(timeout)
       THEN Sends(IF wait THEN timeout ELSE None) /\ changes' = changes + 1
       ELSE Ends("refused_here") /\ UNCHANGED <<changes, patience, waitedFor, readAt>>
    /\ UNCHANGED <<now, operations, accepted, deadline, wakes, seen, waits>>

\* The hub takes whatever request reaches it as a change of its own.
HubAccepts ==
    /\ at = "sent" /\ at' = "taken"
    /\ operations' = Append(operations, "pending")
    /\ UNCHANGED <<now, outcome, callerVars, waitVars>>

HubWorks == \E n \in DOMAIN operations, s \in {"ready", "failed", "timed_out"} :
    /\ operations[n] = "pending" /\ operations' = [operations EXCEPT ![n] = s]
    /\ UNCHANGED <<now, at, outcome, callerVars, waitVars>>

\* It is refused, or cut off before or after the hub took it.
ChangeFails ==
    /\ at \in {"sent", "taken"} /\ Ends("error")
    /\ UNCHANGED <<now, operations, callerVars, waitVars>>

\* The time a wait may take begins when it does.
BeginsWait(n, timeout) ==
    /\ at' = "due" /\ waitedFor' = n /\ deadline' = now + timeout /\ waits' = waits + 1

\* The accepted answer names its operation, or the wait has nothing to read.
Accepted(named) ==
    /\ at = "taken"
    /\ IF patience = None
       THEN /\ accepted' = accepted \cup IF named THEN {Len(operations)} ELSE {}
            /\ Ends("accepted") /\ UNCHANGED <<waitedFor, deadline, waits>>
       ELSE /\ IF named THEN BeginsWait(Len(operations), patience) /\ UNCHANGED outcome
                        ELSE Ends("error") /\ UNCHANGED <<waitedFor, deadline, waits>>
            /\ UNCHANGED accepted
    /\ UNCHANGED <<now, operations, changes, patience, wakes, seen, readAt>>

-----------------------------------------------------------------------------
(* A wait for an operation.                                                *)

Resume_Resends(n, timeout) ==
    /\ at = "idle" /\ n \in accepted /\ waits < MaxWaits
    /\ IF Valid(timeout) THEN Sends(timeout)
       ELSE Ends("refused_here") /\ UNCHANGED <<patience, waitedFor, readAt>>
    /\ UNCHANGED <<now, operations, accepted, changes, waits, deadline, wakes, seen>>

\* The caller waits for an operation it was given the accepted answer of.
Resume(n, timeout) ==
    /\ at = "idle" /\ n \in accepted /\ waits < MaxWaits
    /\ IF Valid(timeout)
       THEN BeginsWait(n, timeout) /\ outcome' = None /\ readAt' = None
       ELSE Ends("refused_here") /\ UNCHANGED <<waitedFor, deadline, waits, readAt>>
    /\ UNCHANGED <<now, operations, accepted, changes, patience, wakes, seen>>

\* The future is dropped; nothing goes on polling.
Abandon ==
    /\ at # "idle" /\ Ends("abandoned")
    /\ UNCHANGED <<now, operations, callerVars, waitVars>>

Overdue == now >= deadline

Reads ==
    /\ at = "due"
    /\ IF Overdue THEN Ends("timeout") /\ UNCHANGED <<seen, readAt>>
       ELSE at' = "reading" /\ seen' = None /\ readAt' = now /\ UNCHANGED outcome
    /\ UNCHANGED <<now, operations, callerVars, deadline, wakes>>

HubAnswers ==
    /\ at = "reading" /\ seen = None /\ seen' \in {operations[waitedFor], "error"}
    /\ UNCHANGED <<now, at, operations, outcome, callerVars, deadline, wakes, readAt>>

\* Any error of a read ends the wait, named by its operation.
Judge ==
    CASE seen = "ready" -> Ends("ready") /\ UNCHANGED wakes
      [] seen \in {"failed", "timed_out"} -> Ends("failed") /\ UNCHANGED wakes
      [] seen = "error" -> Ends("unread") /\ UNCHANGED wakes
      [] seen = "pending" -> /\ at' = "asleep" /\ UNCHANGED outcome
                             /\ wakes' = IF now + Poll < deadline THEN now + Poll ELSE deadline

Hears ==
    /\ at = "reading" /\ seen # None /\ Judge
    /\ UNCHANGED <<now, operations, callerVars, deadline, seen, readAt>>

ReadTimesOut ==
    /\ at = "reading" /\ seen = None /\ Overdue /\ Ends("timeout")
    /\ UNCHANGED <<now, operations, callerVars, waitVars>>

Wakes ==
    /\ at = "asleep" /\ now >= wakes /\ at' = "due"
    /\ UNCHANGED <<now, operations, outcome, callerVars, waitVars>>

\* A timer that is due fires before time goes on.
Tick ==
    /\ now < MaxTime
    /\ at = "asleep" => now < wakes
    /\ at = "reading" => now < deadline
    /\ now' = now + 1
    /\ UNCHANGED <<at, operations, outcome, callerVars, waitVars>>

SkillOperationsNext ==
    \/ \E timeout \in Timeouts, wait \in BOOLEAN : Change(timeout, wait)
    \/ \E n \in accepted, timeout \in Timeouts : Resume(n, timeout)
    \/ \E named \in BOOLEAN : Accepted(named)
    \/ HubAccepts \/ HubWorks \/ ChangeFails \/ Abandon \/ Reads \/ HubAnswers \/ Hears
    \/ ReadTimesOut \/ Wakes \/ Tick

SkillOperationsSpec == SkillOperationsInit /\ [][SkillOperationsNext]_skillVars

-----------------------------------------------------------------------------
\* However often a wait is given up, times out or is taken up again, the hub is
\* sent no change but the ones asked for: it takes every request that reaches it
\* as a change, and has never taken more of them.
DoneOnce == Len(operations) <= changes

\* What a wait tells is what its own operation came to, whichever others were
\* begun since, and a timeout is told only when the whole time of this wait is
\* over, with no read begun after it.
WaitIsTrue ==
    /\ outcome = "ready" => operations[waitedFor] = "ready"
    /\ outcome = "failed" => operations[waitedFor] \in {"failed", "timed_out"}
    /\ outcome = "timeout" => now >= deadline
    /\ readAt # None => readAt < deadline
=============================================================================
