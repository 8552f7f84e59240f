------------------------------ MODULE MCControl -------------------------------
(*****************************************************************************)
(* The control plane's client: sign-in, provisioning, configuration, single  *)
(* requests and skill operations.                                            *)
(*****************************************************************************)
EXTENDS Provisioning

CONSTANTS
    Planes, ApiTokens, Sessions, Codes, Natives, Interval, SlowDown,
    SignInTimeout, SignInCalls, MaxSlow,
    Writers, Leaves, Exact, Inexact, Attempts, MaxRevision,
    Callers, Blank, RequestVersions, RequestCalls,
    SkillPoll, Timeouts, MaxTime, MaxWaits, MaxChanges

VARIABLES
    component,      \* the one this behaviour is of
    held, heldId, revokedOwn, intervals, op, minted, dead, code, native,
    grants, signingCalls, slowed, heard,
    config, revision, said, personas, work,
    url, token, requestsCall, status, requestsOutcome, etag, hub,
    requestsCalls,
    now, at, changes, operations, accepted, waitedFor, patience, deadline, wakes,
    seen, readAt, skillsOutcome, waits

Signing == INSTANCE SignIn WITH
    Timeout <- SignInTimeout, MaxCalls <- SignInCalls, calls <- signingCalls

Config == INSTANCE RuntimeConfig

Requests == INSTANCE ControlRequests WITH
    MaxVersion <- RequestVersions, MaxCalls <- RequestCalls, call <-
    requestsCall, outcome <- requestsOutcome, calls <- requestsCalls

Skills == INSTANCE SkillOperations WITH
    Poll <- SkillPoll, outcome <- skillsOutcome

ASSUME ComponentAssumptions ==
    /\ Signing!SignInAssumption
    /\ Config!RuntimeConfigAssumption
    /\ Requests!ControlRequestsAssumption
    /\ Skills!SkillOperationsAssumption

signingVars == <<held, heldId, revokedOwn, intervals, op, minted, dead, code,
    native, grants, signingCalls, slowed, heard>>
configVars == <<config, revision, said, personas, work>>
requestsVars == <<url, token, requestsCall, status, requestsOutcome, etag,
    hub, requestsCalls>>
skillsVars == <<now, at, changes, operations, accepted, waitedFor, patience,
    deadline, wakes, seen, readAt, skillsOutcome, waits>>
ControlVars == <<component, provisionVars, signingVars, configVars, requestsVars, skillsVars>>

\* The components share no state: only the one chosen moves, and the others rest
\* in one of their initial states.
ControlInit ==
    /\ component \in {"provisioning", "signing", "config", "requests",
          "skills"}
    /\ ProvisioningInit
    /\ component # "provisioning" => asked = None
    /\ Signing!SignInInit
    /\ Config!RuntimeConfigInit
    /\ component # "config" => config = Config!Nothing
    /\ Requests!ControlRequestsInit
    /\ component # "requests" => url = "https" /\ token
    /\ Skills!SkillOperationsInit

ControlNext ==
    /\ UNCHANGED component
    /\ \/ component = "provisioning" /\ ProvisioningNext
          /\ UNCHANGED <<signingVars, configVars, requestsVars, skillsVars>>
       \/ component = "signing" /\ Signing!SignInNext
          /\ UNCHANGED <<provisionVars, configVars, requestsVars, skillsVars>>
       \/ component = "config" /\ Config!RuntimeConfigNext
          /\ UNCHANGED <<provisionVars, signingVars, requestsVars, skillsVars>>
       \/ component = "requests" /\ Requests!ControlRequestsNext
          /\ UNCHANGED <<provisionVars, signingVars, configVars, skillsVars>>
       \/ component = "skills" /\ Skills!SkillOperationsNext
          /\ UNCHANGED <<provisionVars, signingVars, configVars, requestsVars>>

ControlSpec == ControlInit /\ [][ControlNext]_ControlVars

-----------------------------------------------------------------------------
\* The waits tell what the hub came to: an admission wait that ended says
\* admitted, failed or out of time only when that is so, no poll comes before the
\* wait the API asked for is over, and a skill wait tells of its own operation,
\* and of a timeout only when its whole time is over.
WaitsAreTrue == AdmissionIsTheHubs /\ AskedWaitIsKept /\ Skills!WaitIsTrue

\* A plane's token id always names the token it holds, whichever sign-ins,
\* revokes and lost answers came before; it forgets a token only once that token
\* is dead at the API; and "slow down" is obeyed for good.
TokensAreTrue ==
    [](Signing!IdNamesToken /\ Signing!SlowDownIsForGood) /\ Signing!ForgetsOnlyDead

\* No accepted write is overwritten by one who had not seen it: a configuration
\* is what its writes say, one after the other, and a hub is changed only from
\* the version its caller read.
NoLostUpdate == Config!NoLostUpdate /\ Requests!NoLostUpdate

\* A skill operation that is waited for again is not asked for again: the hub
\* takes no change but the ones its caller asked for.
DoneOnce == Skills!DoneOnce
===============================================================================
