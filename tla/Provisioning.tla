---------------------------- MODULE Provisioning ----------------------------
(***************************************************************************)
(* Making a hub connection of a named kind and waiting for the hub to      *)
(* admit it: `provision_client_identity`, `require_connection_type`,       *)
(* `delete_client` and `wait_for_admission` of control.rs, over an API     *)
(* that may make another kind of connection than the one asked for, whose  *)
(* answers may be lost or refused, and whose resources other programs      *)
(* change in between.                                                      *)
(***************************************************************************)
EXTENDS Naturals

CONSTANTS
    None,
    MaxVersion,     \* bound: changes other programs make to the client
    Poll,           \* poll_interval of wait_for_admission
    Timeout,        \* its timeout
    Waits           \* what a 429 may ask: seconds, or None

ASSUME ProvisioningAssumption ==
    /\ MaxVersion \in Nat /\ Poll \in Nat \ {0} /\ Timeout \in Nat
    /\ Waits \subseteq Nat \cup {None} /\ None \notin Nat

VARIABLES
    asked,          \* the kind asked for, or None: an ordinary connection
    client,         \* the API: the client, [exists, kind, etag]
    operation,      \* the API: the hub's admission of it
    call,           \* where the SDK is, and what it holds
    result          \* what the last call returned

provisionVars == <<asked, client, operation, call, result>>

Kinds == {"home_assistant", "ordinary"}

NoClient == [exists |-> FALSE, kind |-> "ordinary", etag |-> 0]

\* `id` and `etag` are what the create's answer named; attempt counts the
\* rounds of a delete; at is the clock of a wait, next its next poll.
Rest == [at |-> "idle", id |-> FALSE, etag |-> None, attempt |-> 0,
         heard |-> "none", clock |-> 0, next |-> 0, owed |-> 0]

ProvisioningInit ==
    /\ asked \in {None, "home_assistant"}
    /\ client = NoClient /\ operation = "requested"
    /\ call = Rest /\ result = "none"

Returns(r) == call' = [Rest EXCEPT !.clock = call.clock] /\ result' = r

\* A wait that is over: what it heard last, and when, is what it is judged by.
WaitEnds(r) == call' = [call EXCEPT !.at = "idle"] /\ result' = r

-----------------------------------------------------------------------------
(* provision_client_identity: one POST, then a look at what it made.       *)

\* A blank name, a hub without an id and a blank kind fail before a request.
Create ==
    /\ call.at = "idle" /\ result = "none"
    /\ \/ call' = [call EXCEPT !.at = "creating"] /\ UNCHANGED result
       \/ Returns("invalid")
    /\ UNCHANGED <<asked, client, operation>>

\* The API makes the client, of the kind asked for or, when it does not know
\* kinds, an ordinary one; or it refuses.  Its answer may be lost, or come
\* without the client's id or etag.
ApiCreates ==
    /\ call.at = "creating" /\ call.heard = "none"
    /\ \/ /\ \E k \in {"ordinary"} \cup ({asked} \ {None}) :
                client' = [exists |-> TRUE, kind |-> k, etag |-> 1]
          /\ \E id \in BOOLEAN, e \in {None, 1} :
                call' = [call EXCEPT !.heard = "made", !.id = id, !.etag = e]
       \/ /\ \E r \in {"refuses_kind", "refused", "lost"} :
                call' = [call EXCEPT !.heard = r]
          /\ UNCHANGED client
    /\ UNCHANGED <<asked, operation, result>>

LoseAnswer ==
    /\ call.at = "creating" /\ call.heard = "made"
    /\ call' = [call EXCEPT !.heard = "lost", !.id = FALSE, !.etag = None]
    /\ UNCHANGED <<asked, client, operation, result>>

RightKind == asked = None \/ client.kind = asked

\* An untyped connection needs no echo; the identity may still fail to be
\* built, when the hub names no usable endpoint.
Created ==
    /\ call.at = "creating" /\ call.heard = "made" /\ RightKind
    /\ \E r \in {"created", "no_endpoint"} : Returns(r)
    /\ UNCHANGED <<asked, client, operation>>

WrongKind ==
    /\ call.at = "creating" /\ call.heard = "made" /\ ~RightKind
    /\ IF call.id
       THEN /\ call' = [call EXCEPT !.at = "delete", !.attempt = 1]
            /\ UNCHANGED result
       ELSE Returns("unsupported_unnamed")
    /\ UNCHANGED <<asked, client, operation>>

\* Only a 422 about the kind, and only when one was asked for, is an
\* unsupported kind.
RefusesConnectionType(heard) == heard = "refuses_kind"

CreateFails ==
    /\ call.at = "creating" /\ call.heard \in {"refuses_kind", "refused", "lost"}
    /\ Returns(IF RefusesConnectionType(call.heard) /\ asked # None
               THEN "unsupported" ELSE "create_failed")
    /\ UNCHANGED <<asked, client, operation>>

-----------------------------------------------------------------------------
(* delete_client: the etag given, else the one a read finds; one retry of  *)
(* a precondition that another program's change made fail.                 *)

DeleteClient ==
    /\ call.at = "idle" /\ result = "created"
    /\ \E e \in {None, 1} :
          call' = [call EXCEPT !.at = "delete", !.attempt = 1, !.etag = e]
    /\ result' = "deleting"
    /\ UNCHANGED <<asked, client, operation>>

GoneCounts_AnyAnswer(r) == r \in {"ok", "404", "412"}

GoneCounts(r) == r \in {"ok", "404"}

\* What `require_connection_type` makes of the delete, when that ran it.
Unwanted == result # "deleting"

DeleteEnds(gone) ==
    Returns(IF Unwanted
            THEN IF gone THEN "unsupported_deleted" ELSE "unsupported_named"
            ELSE IF gone THEN "deleted" ELSE "delete_failed")

\* One of the two requests is answered with r.
DeleteHears(r) ==
    IF GoneCounts(r) THEN DeleteEnds(TRUE)
    ELSE IF r = "412" /\ call.attempt < 2
    THEN /\ call' = [call EXCEPT !.attempt = @ + 1, !.etag = None]
         /\ UNCHANGED result
    ELSE DeleteEnds(FALSE)

ReadEtag ==
    /\ call.at = "delete" /\ call.etag = None
    /\ \/ /\ client.exists
          /\ \/ call' = [call EXCEPT !.etag = client.etag] /\ UNCHANGED result
             \/ DeleteHears("failed")
       \/ /\ ~client.exists /\ \E r \in {"404", "failed"} : DeleteHears(r)
    /\ UNCHANGED <<asked, client, operation>>

ApiDeletes ==
    /\ call.at = "delete" /\ call.etag # None
    /\ \/ /\ client.exists /\ client.etag = call.etag
          /\ client' = [client EXCEPT !.exists = FALSE]
          /\ \E r \in {"ok", "failed"} : DeleteHears(r)
       \/ /\ client.exists /\ client.etag # call.etag
          /\ \E r \in {"412", "failed"} : DeleteHears(r)
          /\ UNCHANGED client
       \/ /\ ~client.exists /\ \E r \in {"404", "failed"} : DeleteHears(r)
          /\ UNCHANGED client
       \/ DeleteHears("failed") /\ UNCHANGED client
    /\ UNCHANGED <<asked, operation>>

\* Another program changes the client, or deletes it.
OthersChange ==
    /\ client.exists
    /\ \/ /\ client.etag < MaxVersion
          /\ client' = [client EXCEPT !.etag = @ + 1]
       \/ client' = [client EXCEPT !.exists = FALSE]
    /\ UNCHANGED <<asked, operation, call, result>>

-----------------------------------------------------------------------------
(* wait_for_admission                                                      *)

\* No operation is nothing to wait for; one that points at another origin,
\* has no id, or a zero interval is refused before a request.
Wait ==
    /\ call.at = "idle" /\ result = "created"
    /\ \/ /\ call' = [call EXCEPT !.at = "wait", !.next = 0]
          /\ result' = "waiting"
       \/ \E r \in {"admitted_untracked", "invalid"} : Returns(r)
    /\ UNCHANGED <<asked, client, operation>>

Due == call.at = "wait" /\ call.heard = "none" /\ call.clock >= call.next

\* What a 429 asks: what its problem says, else its headers, else nothing.
AskedWait(problem, header) ==
    IF problem # None THEN problem ELSE IF header # None THEN header ELSE 0

\* The API answers a poll with what it knows of the operation, or refuses it.
ApiAnswers ==
    /\ Due
    /\ \/ call' = [call EXCEPT !.heard = operation, !.owed = 0]
       \/ \E r \in {"404", "401", "400", "500", "unreachable"} :
             call' = [call EXCEPT !.heard = r, !.owed = 0]
       \/ \E problem, header \in Waits :
             call' = [call EXCEPT !.heard = "429",
                                  !.owed = AskedWait(problem, header)]
    /\ UNCHANGED <<asked, client, operation, result>>

Left == Timeout - call.clock

\* Past the deadline the wait ends; else the next poll comes after `wait` or
\* at the deadline, whichever is first.
PollsAfter(wait) ==
    IF Left = 0 THEN WaitEnds("admission_timeout")
    ELSE /\ call' = [call EXCEPT !.heard = "none",
                          !.next = call.clock + IF wait < Left THEN wait ELSE Left]
         /\ UNCHANGED result

\* A 429 is waited out as long as it asks, never less than the interval.
Paced == IF call.owed > Poll THEN call.owed ELSE Poll

\* What an answer ends the wait with, or "none" while it goes on.  Both of the
\* "admission" failures are AdmissionFailed: of the hub, with its error code and
\* no status, or of the poll, with its status and no error code.
Verdict(heard) ==
    CASE heard \in {"ready", "404"} -> "admitted"
      [] heard \in {"failed", "timed_out"} -> "admission_failed"
      [] heard = "401" -> "unauthorized"
      [] heard = "400" -> "admission_refused"
      [] heard = "unreachable" -> "unreachable"
      [] OTHER -> "none"

Hear ==
    /\ call.at = "wait" /\ call.heard # "none"
    /\ IF Verdict(call.heard) # "none" THEN WaitEnds(Verdict(call.heard))
       ELSE IF call.heard = "429"
       THEN IF Paced > Left THEN WaitEnds("admission_timeout") ELSE PollsAfter(Paced)
       ELSE PollsAfter(Poll)
    /\ UNCHANGED <<asked, client, operation>>

ReadBy_Anew == call.next + Timeout

\* timeout_at: a read has what is left of the wait, not a time of its own.
ReadBy == Timeout

ReadTimesOut ==
    /\ Due /\ call.clock >= ReadBy
    /\ WaitEnds("admission_timeout")
    /\ UNCHANGED <<asked, client, operation>>

\* A timer that is due fires before time goes on.
Tick ==
    /\ call.at = "wait" /\ call.heard = "none"
    /\ Due => call.clock < ReadBy
    /\ call' = [call EXCEPT !.clock = @ + 1, !.owed = IF @ > 0 THEN @ - 1 ELSE 0]
    /\ UNCHANGED <<asked, client, operation, result>>

HubAdmits ==
    /\ client.exists /\ operation \in {"requested", "applied"}
    /\ operation' \in {"applied", "ready", "failed", "timed_out"} \ {operation}
    /\ UNCHANGED <<asked, client, call, result>>

ProvisioningNext ==
    \/ Create \/ ApiCreates \/ LoseAnswer \/ Created \/ WrongKind \/ CreateFails
    \/ DeleteClient \/ ReadEtag \/ ApiDeletes \/ OthersChange
    \/ Wait \/ ApiAnswers \/ Hear \/ ReadTimesOut \/ Tick \/ HubAdmits

ProvisioningSpec == ProvisioningInit /\ [][ProvisioningNext]_provisionVars

-----------------------------------------------------------------------------
\* A connection the API made of another kind than the one asked for is never
\* left behind in silence, through every change, refusal and lost answer of the
\* create and the delete: the call says it was deleted, as a delete that returns
\* Ok does, only when it is gone, and a call that leaves it has failed: naming
\* it, telling what was made when the answer named nothing, or, when no answer
\* came, as a create that may have been made.
UnwantedGoneOrTold ==
    /\ result \in {"unsupported_deleted", "deleted"} => ~client.exists
    /\ client.exists /\ asked # None /\ client.kind # asked /\ call.at = "idle" =>
          result \in {"unsupported_named", "unsupported_unnamed", "create_failed"}

\* The wait for admission tells what the hub came to: admitted only when the hub
\* is ready or the API no longer tracks the operation, failed with the hub's
\* error only when the hub failed, and never a failure of the hub for a poll
\* that was refused.  It says the time is over only when it is, or when a 429
\* asks for more than is left, and it never outlasts its timeout, however long
\* the API takes over a read.
AdmissionIsTheHubs ==
    /\ result = "admitted" => operation = "ready" \/ call.heard = "404"
    /\ result = "admission_failed" => operation \in {"failed", "timed_out"}
    /\ result = "admission_timeout" =>
          call.clock = Timeout \/ (call.heard = "429" /\ call.clock + Paced > Timeout)
    /\ call.at = "wait" => call.clock <= Timeout /\ call.next <= Timeout

\* A poll is never sent before the wait the API last asked for has passed:
\* one early poll more, on a plan of sixty requests a minute, is another 429.
AskedWaitIsKept == Due => call.owed = 0
=============================================================================
