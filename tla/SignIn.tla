------------------------------- MODULE SignIn -------------------------------
(***************************************************************************)
(* Signing a control plane in and out: `login_with_options`,               *)
(* `complete_native_sign_in`, `login_with_browser_as`,                     *)
(* `begin_device_login_as`, `poll_device_login` and `revoke_api_token` of  *)
(* control.rs, over an API whose answers may be lost.  Planes are control  *)
(* planes, each used by one task at a time (the methods take `&mut self`), *)
(* some of them clones of others, so that two may hold the same token.     *)
(***************************************************************************)
EXTENDS Naturals, FiniteSets

CONSTANTS
    Planes,         \* control planes
    ApiTokens,      \* tokens of a device or native sign-in; one is its own id
    Sessions,       \* tokens of a password sign-in, which carry no id
    Codes,          \* device codes
    Natives,        \* authorization codes of the browser grant
    None,
    Interval,       \* the poll interval the API asks for
    SlowDown,       \* DEVICE_SLOW_DOWN
    Timeout,        \* DeviceLoginOptions::timeout
    MaxCalls,       \* bound: calls made by the application
    MaxSlow         \* bound: slow_down answers

SignInAssumption ==
    /\ Interval \in Nat /\ SlowDown \in Nat \ {0} /\ Timeout \in Nat
    /\ MaxCalls \in Nat /\ MaxSlow \in Nat
    /\ None \notin ApiTokens \cup Sessions \cup Codes \cup Natives \cup Nat

VARIABLES
    held,           \* access_token of each plane
    heldId,         \* token_id
    revokedOwn,     \* revoked_own
    intervals,      \* device_intervals
    op,             \* the call in progress on each plane
    minted,         \* the API: every token it has minted
    dead,           \* the API: tokens revoked or expired
    code,           \* the API: what became of each device code
    native,         \* the API: the token each authorization code minted
    grants,         \* device codes the application was given
    calls,          \* calls made so far
    slowed,         \* slow_down answers given so far
    heard           \* the slow_downs each plane heard of each code

planeVars == <<held, heldId, revokedOwn, intervals>>
apiVars == <<minted, dead, code, native, slowed>>
signInVars == <<held, heldId, revokedOwn, intervals, op, minted, dead, code,
                native, grants, calls, slowed, heard>>

Tokens == ApiTokens \cup Sessions

Idle == [kind |-> "idle", at |-> None, phase |-> "done", answer |-> "none",
         token |-> None, wait |-> 0, rest |-> 0, elapsed |-> 0]

Asks(k, what) == [Idle EXCEPT !.kind = k, !.at = what, !.phase = "sent"]

\* A plane made with a token of the caller's, or with none.
SignInInit ==
    /\ held \in [Planes -> {None}] /\ heldId = [p \in Planes |-> None]
    /\ revokedOwn = [p \in Planes |-> FALSE]
    /\ intervals = [p \in Planes |-> [c \in Codes |-> None]]
    /\ op = [p \in Planes |-> Idle]
    /\ minted = {} /\ dead = {} /\ grants = {}
    /\ code = [c \in Codes |-> "new"] /\ native = [n \in Natives |-> None]
    /\ calls = 0 /\ slowed = 0
    /\ heard = [p \in Planes |-> [c \in Codes |-> 0]]

IdOf(t) == IF t \in ApiTokens THEN t ELSE None

\* Every sign-in sets the id from its own answer, so that a session token,
\* which has none, never leaves an older one behind.
AcceptToken(p, t) ==
    /\ held' = [held EXCEPT ![p] = t]
    /\ heldId' = [heldId EXCEPT ![p] = IdOf(t)]
    /\ revokedOwn' = [revokedOwn EXCEPT ![p] = FALSE]

-----------------------------------------------------------------------------
(* The application calls.  One call at a time on a plane.                  *)

MayCall(p) == op[p] = Idle /\ calls < MaxCalls /\ calls' = calls + 1

Call(p, request) ==
    /\ MayCall(p)
    /\ op' = [op EXCEPT ![p] = request]

Login(p) ==
    /\ Call(p, Asks("password", None))
    /\ UNCHANGED <<planeVars, apiVars, grants, heard>>

CompleteNative(p, n) ==
    /\ Call(p, Asks("native", n))
    /\ UNCHANGED <<planeVars, apiVars, grants, heard>>

BeginDevice(p) ==
    /\ Call(p, Asks("authorize", None))
    /\ UNCHANGED <<planeVars, apiVars, grants, heard>>

LoginWithBrowser(p) ==
    /\ Call(p, Asks("browser", None))
    /\ UNCHANGED <<planeVars, apiVars, grants, heard>>

\* The entry is made before the request, so a poll that is dropped leaves it.
PollDevice(p, c) ==
    /\ c \in grants
    /\ LET wait == IF intervals[p][c] = None THEN Interval
                                             ELSE intervals[p][c]
       IN  /\ Call(p, [Asks("poll", c) EXCEPT !.wait = wait])
           /\ intervals' = [intervals EXCEPT ![p][c] = wait]
    /\ UNCHANGED <<held, heldId, revokedOwn, apiVars, grants, heard>>

\* revoke_api_token: the id given, else the plane's own; with neither it
\* succeeds without a request only after its own was revoked and forgotten.
Revoke(p, given) ==
    LET target == IF given = None THEN heldId[p] ELSE given
    IN  /\ target # None /\ held[p] # None
        /\ Call(p, Asks("revoke", target))
        /\ UNCHANGED <<planeVars, apiVars, grants, heard>>

RevokeNothing(p) ==
    /\ MayCall(p) /\ heldId[p] = None
    /\ UNCHANGED <<planeVars, op, apiVars, grants, heard>>

\* A clone, here a plane not used so far, holds its own copy of everything
\* the plane knew.
CloneOf(p, q) ==
    /\ p # q /\ op[q] = Idle /\ MayCall(p)
    /\ held[q] = None /\ ~revokedOwn[q] /\ \A c \in Codes : intervals[q][c] = None
    /\ held' = [held EXCEPT ![q] = held[p]]
    /\ heldId' = [heldId EXCEPT ![q] = heldId[p]]
    /\ revokedOwn' = [revokedOwn EXCEPT ![q] = revokedOwn[p]]
    /\ intervals' = [intervals EXCEPT ![q] = intervals[p]]
    /\ heard' = [heard EXCEPT ![q] = heard[p]]
    /\ UNCHANGED <<op, apiVars, grants>>

-----------------------------------------------------------------------------
(* The API answers; any answer may be lost before or after it took effect. *)

Answer(p, what, t) ==
    op' = [op EXCEPT ![p].phase = "answered", ![p].answer = what,
                     ![p].token = t]

Mints(p, t) ==
    /\ t \notin minted /\ minted' = minted \cup {t}
    /\ Answer(p, "token", t)

ApiLogsIn(p) ==
    /\ op[p].kind = "password" /\ op[p].phase = "sent"
    /\ \E t \in Sessions : Mints(p, t)
    /\ UNCHANGED <<planeVars, dead, code, native, slowed, grants, calls, heard>>

\* A code presented twice revokes the token the first exchange minted.
ApiExchanges(p) ==
    /\ op[p].kind = "native" /\ op[p].phase = "sent"
    /\ LET n == op[p].at
       IN  IF native[n] = None
           THEN /\ \E t \in ApiTokens :
                     /\ Mints(p, t)
                     /\ native' = [native EXCEPT ![n] = t]
                /\ UNCHANGED dead
           ELSE /\ Answer(p, "refused", None)
                /\ dead' = dead \cup {native[n]}
                /\ UNCHANGED <<minted, native>>
    /\ UNCHANGED <<planeVars, code, slowed, grants, calls, heard>>

ApiAuthorizes(p) ==
    /\ op[p].kind \in {"authorize", "browser"} /\ op[p].phase = "sent"
    /\ op[p].at = None
    /\ \E c \in Codes :
          /\ code[c] = "new"
          /\ code' = [code EXCEPT ![c] = "pending"]
          /\ op' = [op EXCEPT ![p].at = c, ![p].phase = "answered",
                              ![p].answer = "grant"]
    /\ UNCHANGED <<planeVars, minted, dead, native, slowed, grants, calls,
                   heard>>

Polling(p) == op[p].kind \in {"poll", "browser"} /\ op[p].phase = "sent"
                                                /\ op[p].at # None

\* An approved code is worth one token; asked again it is an expired one.
ApiPolled(p) ==
    /\ Polling(p)
    /\ LET c == op[p].at
       IN  \/ /\ code[c] = "approved"
              /\ \E t \in ApiTokens : Mints(p, t)
              /\ code' = [code EXCEPT ![c] = "expired"]
              /\ UNCHANGED slowed
           \/ /\ code[c] \in {"pending", "denied", "expired"}
              /\ Answer(p, code[c], None)
              /\ UNCHANGED <<minted, code, slowed>>
           \/ /\ code[c] = "pending" /\ slowed < MaxSlow
              /\ slowed' = slowed + 1
              /\ Answer(p, "slow_down", None)
              /\ UNCHANGED <<minted, code>>
    /\ UNCHANGED <<planeVars, dead, native, grants, calls, heard>>

ApiRevokes(p) ==
    /\ op[p].kind = "revoke" /\ op[p].phase = "sent"
    /\ LET target == op[p].at
       IN  IF held[p] \in dead
           THEN Answer(p, "401", None) /\ UNCHANGED dead
           ELSE IF target \in minted \ dead
           THEN Answer(p, "ok", None) /\ dead' = dead \cup {target}
           ELSE Answer(p, "404", None) /\ UNCHANGED dead
    /\ UNCHANGED <<planeVars, minted, code, native, slowed, grants, calls,
                   heard>>

\* The request never arrives, the API fails it, or its answer is not usable.
AnswerFails(p) ==
    /\ op[p].phase \in {"sent", "answered"}
    /\ Answer(p, "failed", None)
    /\ op[p].answer # "failed"
    /\ UNCHANGED <<planeVars, apiVars, grants, calls, heard>>

\* A person decides, or the code or a token expires.
Decides(c) ==
    /\ code[c] = "pending"
    /\ \E d \in {"approved", "denied", "expired"} : code' = [code EXCEPT ![c] = d]
    /\ UNCHANGED <<planeVars, op, minted, dead, native, slowed, grants, calls,
                   heard>>

Expires(t) ==
    /\ t \in minted \ dead /\ dead' = dead \cup {t}
    /\ UNCHANGED <<planeVars, op, minted, code, native, slowed, grants, calls,
                   heard>>

-----------------------------------------------------------------------------
(* The call hears its answer.                                              *)

Hears(p, kinds, answers) ==
    /\ op[p].phase = "answered" /\ op[p].kind \in kinds
    /\ op[p].answer \in answers

SignedIn(p) ==
    /\ Hears(p, {"password", "native", "poll", "browser"}, {"token"})
    /\ AcceptToken(p, op[p].token)
    /\ intervals' = IF op[p].kind = "poll"
                    THEN [intervals EXCEPT ![p][op[p].at] = None]
                    ELSE intervals
    /\ heard' = IF op[p].kind \in {"poll", "browser"}
                THEN [heard EXCEPT ![p][op[p].at] = 0] ELSE heard
    /\ op' = [op EXCEPT ![p] = Idle]
    /\ UNCHANGED <<apiVars, grants, calls>>

\* poll_interval() of the grant; the browser's login polls at once.
Granted(p) ==
    /\ Hears(p, {"authorize", "browser"}, {"grant"})
    /\ IF op[p].kind = "authorize"
       THEN op' = [op EXCEPT ![p] = Idle] /\ grants' = grants \cup {op[p].at}
       ELSE /\ op' = [op EXCEPT ![p] = [Asks("browser", op[p].at)
                                             EXCEPT !.wait = Interval]]
            /\ UNCHANGED grants
    /\ UNCHANGED <<planeVars, apiVars, calls, heard>>

Longer(p) == op[p].wait + IF op[p].answer = "slow_down" THEN SlowDown ELSE 0

Heard(p) == IF op[p].answer = "slow_down"
            THEN [heard EXCEPT ![p][op[p].at] = @ + 1] ELSE heard

\* DeviceLoginPending: the interval is kept for this code, for good.
StillPending(p) ==
    /\ Hears(p, {"poll"}, {"pending", "slow_down"})
    /\ intervals' = [intervals EXCEPT ![p][op[p].at] = Longer(p)]
    /\ heard' = Heard(p)
    /\ op' = [op EXCEPT ![p] = Idle]
    /\ UNCHANGED <<held, heldId, revokedOwn, apiVars, grants, calls>>

\* Only an expired or a denied code is forgotten.
ForgetsCode(p) == op[p].kind = "poll" /\ op[p].answer \in {"denied", "expired"}

\* Every other answer ends the call with an error.
CallFails(p) ==
    /\ Hears(p, {"password", "native", "authorize", "poll", "browser"},
             {"failed", "refused", "denied", "expired"})
    /\ intervals' = IF ForgetsCode(p)
                    THEN [intervals EXCEPT ![p][op[p].at] = None]
                    ELSE intervals
    /\ heard' = IF op[p].kind \in {"poll", "browser"} /\ op[p].at # None
                   /\ op[p].answer \in {"denied", "expired"}
                THEN [heard EXCEPT ![p][op[p].at] = 0] ELSE heard
    /\ op' = [op EXCEPT ![p] = Idle]
    /\ UNCHANGED <<held, heldId, revokedOwn, apiVars, grants, calls>>

\* poll_device_token_with: past the timeout the login gives up, else it
\* sleeps for the interval or for what is left, and asks again.
KeepsAsking(p) ==
    /\ Hears(p, {"browser"}, {"pending", "slow_down"})
    /\ IF op[p].elapsed >= Timeout
       THEN op' = [op EXCEPT ![p] = Idle]
       ELSE LET left == Timeout - op[p].elapsed
            IN  op' = [op EXCEPT ![p].phase = "asleep", ![p].answer = "none",
                          ![p].wait = Longer(p),
                          ![p].rest = IF Longer(p) < left THEN Longer(p)
                                                          ELSE left]
    /\ heard' = Heard(p)
    /\ UNCHANGED <<planeVars, apiVars, grants, calls>>

Passes(p) ==
    /\ op[p].kind = "browser" /\ op[p].at # None
    /\ op[p].elapsed < Timeout
    /\ op[p].phase # "asleep" \/ op[p].rest > 0
    /\ op' = [op EXCEPT ![p].elapsed = @ + 1,
                        ![p].rest = IF @ > 0 THEN @ - 1 ELSE 0]
    /\ UNCHANGED <<planeVars, apiVars, grants, calls, heard>>

AsksAgain(p) ==
    /\ op[p].phase = "asleep" /\ op[p].rest = 0
    /\ op' = [op EXCEPT ![p].phase = "sent"]
    /\ UNCHANGED <<planeVars, apiVars, grants, calls, heard>>

IsOwn(p) == heldId[p] = op[p].at

\* The token in use cannot authenticate its own revoke once it is dead.
MeansRevoked(p) == op[p].answer = "ok" \/ (op[p].answer = "401" /\ IsOwn(p))

Forgets_WhatItHolds(p) ==
    /\ held' = [held EXCEPT ![p] = None]
    /\ heldId' = [heldId EXCEPT ![p] = None]
    /\ revokedOwn' = [revokedOwn EXCEPT ![p] = TRUE]

Forgets(p) ==
    IF IsOwn(p)
    THEN /\ held' = [held EXCEPT ![p] = None]
         /\ heldId' = [heldId EXCEPT ![p] = None]
         /\ revokedOwn' = [revokedOwn EXCEPT ![p] = TRUE]
    ELSE UNCHANGED <<held, heldId, revokedOwn>>

RevokeReturns(p) ==
    /\ Hears(p, {"revoke"}, {"ok", "401", "404", "failed"})
    /\ IF MeansRevoked(p) THEN Forgets(p)
                          ELSE UNCHANGED <<held, heldId, revokedOwn>>
    /\ op' = [op EXCEPT ![p] = Idle]
    /\ UNCHANGED <<intervals, apiVars, grants, calls, heard>>

\* The caller drops the future; what the API did stays done.
Dropped(p) ==
    /\ op[p] # Idle
    /\ op' = [op EXCEPT ![p] = Idle]
    /\ UNCHANGED <<planeVars, apiVars, grants, calls, heard>>

SignInNext ==
    \/ \E p \in Planes :
          \/ Login(p) \/ BeginDevice(p) \/ LoginWithBrowser(p)
          \/ \E n \in Natives : CompleteNative(p, n)
          \/ \E c \in Codes : PollDevice(p, c)
          \/ \E t \in ApiTokens \cup {None} : Revoke(p, t)
          \/ RevokeNothing(p)
          \/ \E q \in Planes : CloneOf(p, q)
          \/ ApiLogsIn(p) \/ ApiExchanges(p) \/ ApiAuthorizes(p)
          \/ ApiPolled(p) \/ ApiRevokes(p) \/ AnswerFails(p)
          \/ SignedIn(p) \/ Granted(p) \/ StillPending(p) \/ CallFails(p)
          \/ KeepsAsking(p) \/ Passes(p) \/ AsksAgain(p)
          \/ RevokeReturns(p) \/ Dropped(p)
    \/ \E c \in Codes : Decides(c)
    \/ \E t \in ApiTokens : Expires(t)

SignInSpec == SignInInit /\ [][SignInNext]_signInVars

-----------------------------------------------------------------------------
\* A plane's token id always names the token it holds: whichever sign-ins,
\* revokes and lost answers came before, revoke_api_token() without an id
\* revokes the token in use or says there is none to revoke.
IdNamesToken == \A p \in Planes : heldId[p] # None => heldId[p] = held[p]

\* A plane forgets a token only once that token is dead at the API, whatever
\* answer its revoke had and whichever token it was asked to revoke.
ForgetsOnlyDead ==
    [][\A p \in Planes : held'[p] = None /\ held[p] # None => held[p] \in dead]_signInVars

\* A slow_down lengthens a device code's interval for good: until the code is
\* decided, every poll of it waits as long as all the slow_downs the plane
\* has heard of it ask, through failed and dropped polls alike.
SlowDownIsForGood ==
    \A p \in Planes, c \in Codes :
        intervals[p][c] # None =>
            intervals[p][c] >= Interval + SlowDown * heard[p][c]
=============================================================================
