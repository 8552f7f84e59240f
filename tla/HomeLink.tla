------------------------------ MODULE HomeLink ------------------------------
(***************************************************************************)
(* The Home Assistant link of home.rs: `answer_home_requests` answers      *)
(* every request of a session on a task of its own, each by                *)
(* `answer_home_request_within`, whose handler runs on another task and    *)
(* whose reply goes through the session's one send path                    *)
(* (`HubSession::reply`, `send_detached` of transport.rs).                 *)
(***************************************************************************)
EXTENDS Naturals, FiniteSets

CONSTANTS
    Requests,       \* requests the hub sends
    None,
    Timeout,        \* what the caller gives the handler
    Bound,          \* HOME_REQUEST_TIMEOUT
    MaxTime         \* bound: the clock

ResponseTypes == {"action_done", "query_answer", "error"}
ErrorCodes == {"failed_to_handle", "unknown", "timeout"}

ASSUME HomeLinkAssumption ==
    /\ Timeout \in Nat /\ Bound \in Nat /\ MaxTime \in Nat
    /\ None \notin Requests \cup ErrorCodes

VARIABLES
    now,
    subscribed,     \* the handler is on, and the session not closed
    task,           \* the answering task of each request
    handler,        \* the handler's own task
    path,           \* the request whose reply holds the send path, or None
    heard           \* what the hub received for each request

homeVars == <<now, subscribed, task, handler, path, heard>>

\* What a handler may say, in the contract or outside it.
HandlerSays == [type : ResponseTypes \cup {"other"}, code : ErrorCodes \cup {"other", None}]

Failed == [type |-> "error", code |-> "failed_to_handle"]
TooSlow == [type |-> "error", code |-> "timeout"]

HomeResponse_AsSaid(answer) ==
    [answer EXCEPT !.code = IF answer.type = "error" THEN @ ELSE None]

\* home_response: a type or a code outside the contract is an unknown error,
\* and only an error carries a code.
HomeResponse(answer) ==
    IF answer.type \notin ResponseTypes
          \/ (answer.type = "error" /\ answer.code \notin ErrorCodes)
    THEN [type |-> "error", code |-> "unknown"]
    ELSE [answer EXCEPT !.code = IF answer.type = "error" THEN @ ELSE None]

Away == [at |-> "away", since |-> 0, answer |-> TooSlow]

HomeLinkInit ==
    /\ now = 0 /\ subscribed = TRUE /\ path = None
    /\ task = [r \in Requests |-> Away]
    /\ handler = [r \in Requests |-> "none"]
    /\ heard = [r \in Requests |-> {}]

Ends(r, how) == task' = [task EXCEPT ![r].at = how]

Earliest(a, b) == IF a < b THEN a ELSE b

\* The handler gets its timeout or the hub's bound, whichever is less.
HandlerDeadline(r) == task[r].since + Earliest(Timeout, Bound)

HubGivesUp_FromTheReply(r) == HandlerDeadline(r) + Bound

\* The bound counts from the request's arrival, not from the reply.
HubGivesUp(r) == task[r].since + Bound

-----------------------------------------------------------------------------
\* The hub asks: the session's handler starts a task, which starts the
\* handler on another.  A handler that panics before it returns its future
\* starts none.
Arrives(r) ==
    /\ subscribed /\ task[r].at = "away"
    /\ \/ /\ task' = [task EXCEPT ![r].at = "handling", ![r].since = now]
          /\ handler' = [handler EXCEPT ![r] = "running"]
       \/ /\ task' = [task EXCEPT ![r] = [at |-> "answering", since |-> now,
                                          answer |-> Failed]]
          /\ UNCHANGED handler
    /\ UNCHANGED <<now, subscribed, path, heard>>

\* The handler answers, fails or panics, in time or late; a result that
\* nobody waits for is dropped.
HandlerEnds(r) ==
    /\ handler[r] = "running"
    /\ handler' = [handler EXCEPT ![r] = "ended"]
    /\ IF task[r].at = "handling"
       THEN \E said \in HandlerSays \cup {Failed} :
               task' = [task EXCEPT ![r].at = "answering",
                                    ![r].answer = HomeResponse(said)]
       ELSE UNCHANGED task
    /\ UNCHANGED <<now, subscribed, path, heard>>

\* At its deadline the handler is left to finish on its own.
HandlerTimesOut(r) ==
    /\ task[r].at = "handling" /\ now >= HandlerDeadline(r)
    /\ task' = [task EXCEPT ![r].at = "answering", ![r].answer = TooSlow]
    /\ UNCHANGED <<now, subscribed, handler, path, heard>>

\* No reply is started for a hub that has given up.
Answers(r) ==
    /\ task[r].at = "answering"
    /\ IF now < HubGivesUp(r) THEN Ends(r, "waiting") ELSE Ends(r, "silent")
    /\ UNCHANGED <<now, subscribed, handler, path, heard>>

\* The session lock, then the send path; then the write runs to its end
\* whatever becomes of the caller.
TakesPath(r) ==
    /\ task[r].at = "waiting" /\ path = None
    /\ path' = r /\ Ends(r, "writing")
    /\ UNCHANGED <<now, subscribed, handler, heard>>

\* A link that cannot send; the error has nowhere to be reported.
ReplyFails(r) ==
    /\ task[r].at \in {"waiting", "writing"}
    /\ Ends(r, "failed")
    /\ path' = IF path = r THEN None ELSE path
    /\ UNCHANGED <<now, subscribed, handler, heard>>

\* timeout_at: the call returns without a payload.  A reply that has not
\* begun to be written leaves nothing behind.
Withdraws(r) ==
    /\ task[r].at \in {"waiting", "writing"} /\ now >= HubGivesUp(r)
    /\ Ends(r, "silent")
    /\ UNCHANGED <<now, subscribed, handler, path, heard>>

WriteEnds(r) ==
    /\ path = r /\ path' = None
    /\ heard' = [heard EXCEPT ![r] = @ \cup {[answer |-> task[r].answer, at |-> now]}]
    /\ IF task[r].at = "writing" THEN Ends(r, "sent") ELSE UNCHANGED task
    /\ UNCHANGED <<now, subscribed, handler>>

\* The link dies under a write its caller has left.
WriteFails(r) ==
    /\ path = r /\ task[r].at # "writing" /\ path' = None
    /\ UNCHANGED <<now, subscribed, task, handler, heard>>

\* stop(), or a drop: the answering tasks are cancelled; a handler task and a
\* write that has begun are not.
Stops ==
    /\ subscribed /\ subscribed' = FALSE
    /\ task' = [r \in Requests |->
                  IF task[r].at \in {"handling", "answering", "waiting", "writing"}
                  THEN [task[r] EXCEPT !.at = "stopped"] ELSE task[r]]
    /\ UNCHANGED <<now, handler, path, heard>>

\* A timer that is due fires before the clock goes on.
Tick ==
    /\ now < MaxTime
    /\ \A r \in Requests :
          /\ task[r].at = "handling" => now < HandlerDeadline(r)
          /\ task[r].at \in {"waiting", "writing"} => now < HubGivesUp(r)
          /\ task[r].at # "answering"
    /\ now' = now + 1
    /\ UNCHANGED <<subscribed, task, handler, path, heard>>

HomeLinkNext ==
    \/ \E r \in Requests :
          \/ Arrives(r) \/ HandlerEnds(r) \/ HandlerTimesOut(r) \/ Answers(r)
          \/ TakesPath(r) \/ ReplyFails(r) \/ Withdraws(r)
          \/ WriteEnds(r) \/ WriteFails(r)
    \/ Stops \/ Tick

HomeLinkSpec == HomeLinkInit /\ [][HomeLinkNext]_homeVars

-----------------------------------------------------------------------------
\* A request has at most one answer, in the contract whatever the handler
\* said; a handler that fails, panics or is too slow is answered for, and what
\* it says afterwards is not heard.
OneAnswerInContract ==
    \A r \in Requests :
        /\ Cardinality(heard[r]) <= 1
        /\ \A h \in heard[r] :
              /\ h.answer = task[r].answer
              /\ h.answer.type \in ResponseTypes
              /\ h.answer.type = "error" <=> h.answer.code \in ErrorCodes

\* No reply takes the send path once the hub's bound, counted from the
\* request's arrival, has passed: however long the handler ran and however
\* many other replies were in front of it.
NothingStartedLate ==
    [][\A r \in Requests : 
          path' = r /\ path # r => now <= task[r].since + Bound]_homeVars

\* The call that says it sent nothing sent nothing: a reply withdrawn at the
\* bound never reaches the hub.
WithdrawnIsUnsent ==
    \A r \in Requests : task[r].at = "silent" => heard[r] = {}
=============================================================================
