----------------------------- MODULE SessionRun -----------------------------
(***************************************************************************)
(* HubSession::run of src/session.rs: the loop that keeps a session        *)
(* connected until it is closed.  It is modelled with its own steps -- the *)
(* registration with the wake, the checks of `closed', the watch of a held *)
(* link, the dial, the decision of the LinkSupervisor, the wait -- against *)
(* what goes on beside it: the link dying, other callers of the session    *)
(* that build or drop a link, and close().                                 *)
(*                                                                         *)
(* What the other callers do inside the lock of the session is one step    *)
(* here; HubSession models it in full.                                     *)
(***************************************************************************)
EXTENDS Integers

CONSTANTS
  Retry, Ceiling, Grace, None,  \* as in LinkSupervisor
  Horizon                       \* bound on the clock

(* HubSessionPolicy::validate; None stands for an absent time.              *)
RunAssumption ==
  /\ Retry \in Nat \ {0}
  /\ Ceiling \in Nat /\ Retry <= Ceiling
  /\ Grace \in Nat
  /\ None \notin Nat
  /\ Horizon \in Nat

VARIABLES
  \* the supervisor run() keeps, and what it was told
  wait, refusedSince, decision, lastAt, notRefused, handedOut,
  \* run(): its step, the outcome of its last attempt, the end of its sleep,
  \* and what it returned
  pc, outcome, deadline, result,
  \* the session: its held client, whether the client run() watches has
  \* stopped, the closed flag, the progress of close(), and whether run() is
  \* registered with wake and has been woken
  link, gone, closed, closing, registered, woken,
  \* the monotonic clock; history: when a link last came up, the same when
  \* run() last dialled, and whether a step of the ladder was handed out
  \* since run() dialled a link
  clock, lastUp, upBefore, stepped

Supervisor == INSTANCE LinkSupervisor WITH now <- lastAt

supervisorVars == <<wait, refusedSince, decision, lastAt, notRefused, handedOut>>
runVars        == <<pc, outcome, deadline, result>>
sessionVars    == <<link, gone, closed, closing, registered, woken>>
timeVars       == <<clock, lastUp, upBefore, stepped>>
vars           == <<supervisorVars, runVars, sessionVars, timeVars>>

Steps == {"top", "check", "look", "watch", "watched", "recheck", "dial",
          "dialing", "decide", "decided", "wait", "done"}

\* What connect() may report: an outcome of the supervisor, or an identity
\* the client cannot use at all.
AttemptOutcomes == {"Up", "Failed", "Refused", "KeyChanged",
                    "ClientKeyRejected", "Identity"}

Init ==
  /\ Supervisor!Init
  /\ pc = "top" /\ outcome = "Failed" /\ deadline = 0 /\ result = "running"
  /\ link = "none" /\ gone = FALSE /\ closed = FALSE /\ closing = "open"
  /\ registered = FALSE /\ woken = FALSE
  /\ clock = 0 /\ lastUp = 0 /\ upBefore = 0 /\ stepped = FALSE

Goto(from, to) ==
  /\ pc = from
  /\ pc' = to

Return(r) ==
  /\ pc' = "done"
  /\ result' = r
  /\ registered' = FALSE
  /\ UNCHANGED woken

-----------------------------------------------------------------------------
(* run(), from the top of its loop.                                        *)

(* `notified()' and `enable()': a notify_waiters() from here on is seen.   *)
Register ==
  /\ Goto("top", "check")
  /\ registered' = TRUE
  /\ woken' = FALSE
  /\ UNCHANGED <<supervisorVars, outcome, deadline, result, link, gone,
                 closed, closing, timeVars>>

CheckOpen ==
  /\ \/ /\ pc = "check"
        /\ closed
        /\ Return("ok")
     \/ /\ ~closed
        /\ Goto("check", "look")
        /\ UNCHANGED <<result, registered, woken>>
  /\ UNCHANGED <<supervisorVars, outcome, deadline, link, gone, closed,
                 closing, timeVars>>

(* The held client, and whether it is alive.                               *)
Look ==
  /\ \/ link = "up" /\ Goto("look", "watch") /\ gone' = FALSE
     \/ link # "up" /\ Goto("look", "dial") /\ UNCHANGED gone
  /\ UNCHANGED <<supervisorVars, outcome, deadline, result, link, closed,
                 closing, registered, woken, timeVars>>

(* The select! on a held link: it stopped, or close() woke the loop...     *)
WatchEnds_OnlyProbed ==
  /\ woken
  /\ Goto("watch", "watched")
  /\ UNCHANGED <<supervisorVars, outcome, deadline, result, sessionVars,
                 timeVars>>

WatchEnds ==
  /\ gone \/ woken
  /\ Goto("watch", "watched")
  /\ UNCHANGED <<supervisorVars, outcome, deadline, result, sessionVars,
                 timeVars>>

(* ... or policy.probe elapsed: a timer, which may always fire.            *)
ProbeTimer ==
  /\ Goto("watch", "watched")
  /\ UNCHANGED <<supervisorVars, outcome, deadline, result, sessionVars,
                 timeVars>>

Watched ==
  /\ \/ /\ pc = "watched"
        /\ closed
        /\ Return("ok")
     \/ /\ ~closed
        /\ Goto("watched", "recheck")
        /\ UNCHANGED <<result, registered, woken>>
  /\ UNCHANGED <<supervisorVars, outcome, deadline, link, gone, closed,
                 closing, timeVars>>

Recheck_OfWatched ==
  /\ Goto("recheck", "top")
  /\ registered' = FALSE
  /\ \/ /\ gone /\ link # "none"
        /\ link' = "none"
        /\ Supervisor!Observe("Dropped", clock)
     \/ /\ ~gone \/ link = "none"
        /\ UNCHANGED <<link, supervisorVars>>
  /\ UNCHANGED <<outcome, deadline, result, gone, closed, closing, woken,
                 timeVars>>

(* Under the lock: the client held now, if that is dead, is dropped, to be *)
(* dialled again at once; the one run() watched may have been replaced.    *)
(* Either way the loop starts over, its wake forgotten.                    *)
Recheck ==
  /\ Goto("recheck", "top")
  /\ registered' = FALSE
  /\ \/ /\ link = "down"
        /\ link' = "none"
        /\ Supervisor!Observe("Dropped", clock)
     \/ /\ link # "down"
        /\ UNCHANGED <<link, supervisorVars>>
  /\ UNCHANGED <<outcome, deadline, result, gone, closed, closing, woken,
                 timeVars>>

(* connect(): a held, alive client is the attempt's success; a dead one is *)
(* dropped; a closed session is not dialled.                               *)
BeginDial ==
  /\ pc = "dial"
  /\ \/ /\ link = "up"
        /\ pc' = "decide" /\ outcome' = "Up"
        /\ UNCHANGED link
     \/ /\ link # "up"
        /\ link' = "none"
        /\ \/ closed /\ pc' = "decide" /\ outcome' = "Failed"
           \/ ~closed /\ pc' = "dialing" /\ UNCHANGED outcome
  /\ upBefore' = lastUp
  /\ UNCHANGED <<supervisorVars, deadline, result, gone, closed, closing,
                 registered, woken, clock, lastUp, stepped>>

LinkComesUp ==
  /\ link' = "up"
  /\ lastUp' = clock

(* The attempt ends.  A session closed meanwhile retires the new client.   *)
EndDial ==
  \E o \in AttemptOutcomes :
    /\ Goto("dialing", "decide")
    /\ \/ /\ o = "Up" /\ ~closed
          /\ LinkComesUp /\ stepped' = FALSE
          /\ outcome' = "Up"
       \/ /\ o = "Up" /\ closed
          /\ outcome' = "Failed"
          /\ UNCHANGED <<link, lastUp, stepped>>
       \/ /\ o # "Up"
          /\ outcome' = o
          /\ UNCHANGED <<link, lastUp, stepped>>
    /\ UNCHANGED <<supervisorVars, deadline, result, gone, closed, closing,
                   registered, woken, clock, upBefore>>

(* The match on connect()'s result: what the supervisor is told, and       *)
(* whether run() loops, waits or returns.                                  *)
Decide ==
  /\ pc = "decide"
  /\ \/ /\ outcome = "Identity"
        /\ Return("identity")
        /\ UNCHANGED <<supervisorVars, stepped>>
     \/ /\ outcome # "Identity"
        /\ Supervisor!Observe(outcome, clock)
        /\ \/ /\ decision'.act = "hold"
              /\ pc' = "top"
              /\ registered' = FALSE
              /\ UNCHANGED <<result, woken, stepped>>
           \/ /\ decision'.act = "giveup"
              /\ Return(decision'.reason)
              /\ UNCHANGED stepped
           \/ /\ decision'.act = "retry"
              /\ pc' = "decided"
              /\ stepped' = TRUE
              /\ UNCHANGED <<result, registered, woken>>
  /\ UNCHANGED <<outcome, deadline, link, gone, closed, closing, clock,
                 lastUp, upBefore>>

(* The check of `closed' after the match, and the start of the sleep.      *)
Decided ==
  /\ \/ /\ pc = "decided"
        /\ closed
        /\ Return("ok")
        /\ UNCHANGED deadline
     \/ /\ ~closed
        /\ Goto("decided", "wait")
        /\ deadline' = clock + decision.wait
        /\ UNCHANGED <<result, registered, woken>>
  /\ UNCHANGED <<supervisorVars, outcome, link, gone, closed, closing,
                 timeVars>>

WaitEnds ==
  /\ clock >= deadline \/ woken
  /\ Goto("wait", "top")
  /\ registered' = FALSE
  /\ UNCHANGED <<supervisorVars, outcome, deadline, result, link, gone,
                 closed, closing, woken, timeVars>>

-----------------------------------------------------------------------------
(* Beside run().  While run() dials it holds the session's lock.           *)

(* Another caller's ask, emit or warm finds no live client and builds one. *)
OtherEstablishes ==
  /\ pc # "dialing" /\ ~closed /\ link # "up"
  /\ LinkComesUp
  /\ UNCHANGED <<supervisorVars, runVars, gone, closed, closing, registered,
                 woken, clock, upBefore, stepped>>

(* Another caller's failed operation, or a probe, drops the client.        *)
OtherDrops ==
  /\ pc # "dialing" /\ link # "none"
  /\ link' = "none"
  /\ gone' = TRUE
  /\ UNCHANGED <<supervisorVars, runVars, closed, closing, registered, woken,
                 timeVars>>

(* The link dies.  A session a failed send invalidated reads as down       *)
(* without waking anyone (RuntimeTransport::stopped).                      *)
LinkDies ==
  /\ link = "up"
  /\ link' = "down"
  /\ gone' \in {gone, TRUE}
  /\ UNCHANGED <<supervisorVars, runVars, closed, closing, registered, woken,
                 timeVars>>

(* close(): the flag, the wake, then the client under the lock.            *)
CloseMarks ==
  /\ closing = "open"
  /\ closing' = "marked"
  /\ closed' = TRUE
  /\ UNCHANGED <<supervisorVars, runVars, link, gone, registered, woken,
                 timeVars>>

CloseNotifies_Nobody ==
  /\ closing = "marked"
  /\ closing' = "notified"
  /\ UNCHANGED <<supervisorVars, runVars, link, gone, closed, registered,
                 woken, timeVars>>

CloseNotifies ==
  /\ closing = "marked"
  /\ closing' = "notified"
  /\ woken' = (woken \/ registered)
  /\ UNCHANGED <<supervisorVars, runVars, link, gone, closed, registered,
                 timeVars>>

CloseDrops ==
  /\ closing = "notified"
  /\ pc # "dialing"
  /\ closing' = "dropped"
  /\ link' = "none"
  /\ gone' = (gone \/ link # "none")
  /\ UNCHANGED <<supervisorVars, runVars, closed, registered, woken,
                 timeVars>>

Tick ==
  /\ clock < Horizon
  /\ clock' = clock + 1
  /\ UNCHANGED <<supervisorVars, runVars, sessionVars, lastUp, upBefore, stepped>>

RunStep ==
  \/ Register \/ CheckOpen \/ Look \/ WatchEnds \/ Watched \/ Recheck
  \/ BeginDial \/ EndDial \/ Decide \/ Decided \/ WaitEnds

CloseStep == CloseNotifies \/ CloseDrops

Next ==
  \/ RunStep \/ ProbeTimer
  \/ OtherEstablishes \/ OtherDrops \/ LinkDies
  \/ CloseMarks \/ CloseStep
  \/ Tick

(* run() is a task the runtime polls, and every dial ends (connect() is    *)
(* bounded by its timeout).  close(), once called, is polled too.  Nothing *)
(* is assumed of the clock, of the hub or of the other callers.            *)
Fairness == WF_vars(RunStep) /\ WF_vars(CloseStep)

Spec == Init /\ [][Next]_vars /\ Fairness

-----------------------------------------------------------------------------
TypeOK ==
  /\ Supervisor!TypeOK
  /\ pc \in Steps
  /\ outcome \in AttemptOutcomes
  /\ deadline \in 0 .. Horizon + Ceiling
  /\ result \in {"running", "ok", "identity", "Refused", "KeyChanged",
                 "ClientKeyRejected"}
  /\ link \in {"none", "up", "down"}
  /\ gone \in BOOLEAN /\ closed \in BOOLEAN
  /\ closing \in {"open", "marked", "notified", "dropped"}
  /\ registered \in BOOLEAN /\ woken \in BOOLEAN
  /\ clock \in 0 .. Horizon /\ lastUp \in 0 .. clock /\ upBefore \in 0 .. clock /\ stepped \in BOOLEAN

(* run() ends once the session is closed, whatever it was doing, and waits *)
(* out no timer first: neither the clock nor the probe is fair here.       *)
CloseEndsRun == closed ~> (pc = "done")

(* A link that stops while run() watches it is dialled again at once: no   *)
(* probe and no ladder step has to pass first.                             *)
DropRedialledAtOnce ==
  (pc = "watch" /\ gone)
     ~> (pc \in {"dialing", "done"} \/ link = "up" \/ closed)

(* run() gives up on refusals only when they have lasted refusal_grace:    *)
(* when no link had come up for that long before the last attempt.         *)
RefusalsLastedGrace ==
  [][(result' = "Refused" /\ result = "running")
       => clock - upBefore >= Grace]_vars

(* The wait after the first failed attempt since run() dialled a link is   *)
(* the first step of the ladder, whoever else built links meanwhile.       *)
LadderStartsAfresh ==
  [][(pc = "decide" /\ pc' = "decided" /\ ~stepped)
       => decision'.wait = Retry]_vars

(* A live link is nothing run() takes down: what it drops is dead when it  *)
(* drops it, though the client it watched died long before and another     *)
(* caller has put a new one in its place.                                  *)
TakesNoLiveLink == [][(pc' # pc /\ link = "up") => link' = "up"]_vars

(* run() decides from a clone of a client it let the lock go of, while     *)
(* other callers drop and build links: what it saw costs them no live      *)
(* link, and costs run() no step of the ladder that a dead one did not.    *)
StaleLookIsHarmless == TakesNoLiveLink /\ LadderStartsAfresh
=============================================================================
