---------------------------- MODULE MCSessionLive -----------------------------
(*****************************************************************************)
(* The supervisor and its two users: `run()`, and the session whose callers, *)
(* warm task and close() contend for one lock over a link whose relay falls  *)
(* behind.                                                                   *)
(*****************************************************************************)
EXTENDS LinkSupervisor

CONSTANTS
    RunRetry, RunCeiling, RunGrace, RunHorizon,
    Callers, Warmers

VARIABLES
    component,      \* the one this behaviour is of
    runWait, runRefusedSince, runDecision, lastAt, runNotRefused,
    runHandedOut, runPc, outcome, deadline, result, link, gone, runClosed,
    closing, registered, woken, clock, lastUp, upBefore, stepped,
    sessionPc, op, mine, lock, client, retired, sessionClosed, hasClient,
    warming, quiet, retryWait, current, senderOpen, status, abandoned, relay,
    sent, taken, bus, closeResult

Run == INSTANCE SessionRun WITH
    Retry <- RunRetry, Ceiling <- RunCeiling, Grace <- RunGrace, Horizon <-
    RunHorizon, wait <- runWait, refusedSince <- runRefusedSince, decision <-
    runDecision, notRefused <- runNotRefused, handedOut <- runHandedOut, pc <-
    runPc, closed <- runClosed

Session == INSTANCE HubSession WITH
    MaxLinks <- 1, MaxEvents <- 2, Buffer <- 1, Retry <- 1, Ceiling <- 1, pc
    <- sessionPc, closed <- sessionClosed

ASSUME RunConstants == Run!RunAssumption

runVars == <<runWait, runRefusedSince, runDecision, lastAt, runNotRefused,
    runHandedOut, runPc, outcome, deadline, result, link, gone, runClosed,
    closing, registered, woken, clock, lastUp, upBefore, stepped>>
sessionVars == <<sessionPc, op, mine, lock, client, retired, sessionClosed,
    hasClient, warming, quiet, retryWait, current, senderOpen, status,
    abandoned, relay, sent, taken, bus, closeResult>>
LiveVars == <<component, vars, runVars, sessionVars>>

\* The components share no state: only the one chosen moves, and the others rest
\* in one of their initial states.
LiveInit ==
    /\ component \in {"supervisor", "run", "session"}
    /\ Init
    /\ Run!Init
    /\ Session!Init

LiveNext ==
    /\ UNCHANGED component
    /\ \/ component = "supervisor" /\ Next
          /\ UNCHANGED <<runVars, sessionVars>>
       \/ component = "run" /\ Run!Next
          /\ UNCHANGED <<vars, sessionVars>>
       \/ component = "session" /\ Session!Next
          /\ UNCHANGED <<vars, runVars>>

(* What the components' own specifications assume of them.  run() is there *)
(* from the start; whatever else is fair is idle at first.                 *)
RunMoves(A) == component = "run" /\ A
SessionMoves(A) == component = "session" /\ A

LiveFairness ==
    /\ WF_runVars(RunMoves(Run!RunStep)) /\ WF_runVars(RunMoves(Run!CloseStep))
    /\ \A p \in Session!Procs :
          /\ WF_sessionVars(SessionMoves(Session!Progress(p)))
          /\ SF_sessionVars(SessionMoves(Session!Acquire(p)))
    /\ \A l \in Session!Links :
          WF_sessionVars(SessionMoves(Session!Relay(l)))

LiveSpec == LiveInit /\ [][LiveNext]_LiveVars /\ LiveFairness

-----------------------------------------------------------------------------
\* What run() saw of a link before another caller replaced it costs nobody a
\* live link, and costs run() no step of its ladder.
StaleLookIsHarmless == Run!StaleLookIsHarmless

\* run() ends once the session is closed, whatever it was doing, and waits out
\* no timer first.
CloseEndsRun == Run!CloseEndsRun

\* A link that stops while run() watches it is dialled again at once.
DropRedialledAtOnce == Run!DropRedialledAtOnce

\* Every operation of the session ends: nobody holds its lock for ever.
OperationsEnd == Session!OperationsEnd

\* An event of the held link reaches the subscribers, in full or as a lag,
\* unless the link is dropped or the session closed.
EventsReachBus == Session!EventsReachBus
===============================================================================
