------------------------------ MODULE HttpLink ------------------------------
(***************************************************************************)
(* HttpTransport of src/transport.rs: a link made of requests.  /connect   *)
(* registers the client with the hub, which then leaves it an offer; the   *)
(* handshake and every later message of the hub are fetched by polling;    *)
(* /disconnect ends the registration.                                      *)
(*                                                                         *)
(* The gate of ConnectionControl is held by a connect, a poll, a send or   *)
(* the cleanup of a disconnect(); between two requests of its holder only  *)
(* `cancelled' and the poll task's last words can change.  A request is    *)
(* one step, with the outcome the network gives it: it is lost, it is      *)
(* acted on and its answer is lost, or it is answered.  A caller that      *)
(* stops waiting in the middle of a request loses the answer.              *)
(*                                                                         *)
(* The hub is external: what these steps rest on is that it offers a       *)
(* session only to a client that was not registered when it asked, as the  *)
(* comment in connect_locked says, and hands out each message once.        *)
(***************************************************************************)
EXTENDS Integers, Sequences

CONSTANTS
  MaxAttempts,  \* bound: connects
  MaxPolls,     \* bound: poll tasks
  MaxEvents,    \* bound: events the hub sends
  None

HttpAssumption ==
  /\ MaxAttempts \in Nat /\ MaxPolls \in Nat /\ MaxEvents \in Nat
  /\ None \notin {"connect", "poll", "cleanup"}

VARIABLES
  gate,         \* who holds it: "connect", "poll", "cleanup", "send" or None
  dial,         \* the connect: where in connect_locked it is
  xx,           \* its second attempt: ConnectionControl.force_xx
  outcome,      \* what the last connect returned
  attempts,     \* connects begun
  owed,         \* the cleanup a disconnect() or a dropped attempt left
  cancelled,    \* ConnectionControl.cancelled
  admitted,     \* HttpTransportState.admitted
  channel,      \* HttpTransportState.noise: none, opened, answered, ready
  session,      \* the hub session the channel speaks, once it has an offer
  connected,    \* TransportHealth.connected
  complete,     \* TransportHealth.handshake_complete
  poll,         \* the poll tasks, by number: its state
  pollTask,     \* HttpTransportState.poll_task: 0, or the number kept
  heard,        \* ConnectionControl.heard
  refusedAfter, \* ConnectionControl.refused_after_handshake
  peer,         \* the hub: the session it has for this client, or 0
  sessions,     \* the hub: sessions it has offered
  queue,        \* the hub: what waits to be fetched
  sent,         \* the hub: events it has sent in this session
  got,          \* events of this session that were dispatched
  kkWorks,      \* the hub knows this client's key
  faulty,       \* history: something went wrong during this connect
  stranded      \* history: a registration whose /connect went unanswered

dialVars   == <<dial, xx, outcome, attempts, faulty>>
healthVars == <<connected, complete>>
verdicts   == <<heard, refusedAfter>>
linkVars   == <<channel, session, healthVars>>
pollVars   == <<poll, pollTask>>
hubVars    == <<peer, sessions, queue, sent, stranded>>
httpVars   == <<gate, dialVars, owed, cancelled, admitted, linkVars, pollVars,
                verdicts, hubVars, got, kkWorks>>

PollTasks == 1 .. MaxPolls

Init ==
  /\ gate = None /\ dial = "idle" /\ xx = FALSE /\ outcome = "none"
  /\ attempts = 0 /\ owed = FALSE /\ cancelled = FALSE
  /\ admitted = FALSE /\ channel = "none" /\ session = 0
  /\ connected = FALSE /\ complete = FALSE
  /\ poll = [n \in PollTasks |-> "none"] /\ pollTask = 0
  /\ heard = FALSE /\ refusedAfter = FALSE
  /\ peer = 0 /\ sessions = 0 /\ queue = <<>> /\ sent = 0 /\ got = 0
  /\ kkWorks \in BOOLEAN
  /\ faulty = FALSE /\ stranded = FALSE

-----------------------------------------------------------------------------
(* The hub and the network.  A request is acted on or not, and answered or *)
(* not; one that is refused (401, 403) or lost is not acted on.            *)

Fates == {"answered", "unanswered", "lost", "refused"}

ActedOn(fate) == fate \in {"answered", "unanswered"}

(* /connect: a client that is registered already gets no offer.            *)
HubConnects(fate) ==
  IF ActedOn(fate)
  THEN IF peer = 0
       THEN /\ sessions' = sessions + 1 /\ peer' = sessions + 1
            /\ queue' = <<"offer">> /\ sent' = 0
            /\ stranded' = (fate = "unanswered")
       ELSE /\ stranded' = (stranded \/ fate = "unanswered")
            /\ UNCHANGED <<sessions, peer, queue, sent>>
  ELSE UNCHANGED hubVars

HubDisconnects(fate) ==
  IF ActedOn(fate)
  THEN /\ peer' = 0 /\ queue' = <<>> /\ stranded' = FALSE
       /\ UNCHANGED <<sessions, sent>>
  ELSE UNCHANGED hubVars

HubSends ==
  /\ peer # 0 /\ peer = session /\ channel = "ready" /\ sent < MaxEvents
  /\ sent' = sent + 1
  /\ queue' = Append(queue, sent')
  /\ UNCHANGED <<gate, dialVars, owed, cancelled, admitted, linkVars,
                 pollVars, verdicts, peer, sessions, stranded, got, kkWorks>>

(* The hub forgets the client: it restarted, or took it for gone.          *)
HubForgets ==
  /\ peer # 0
  /\ peer' = 0 /\ queue' = <<>> /\ stranded' = FALSE
  /\ faulty' = TRUE
  /\ UNCHANGED <<gate, dial, xx, outcome, attempts, owed, cancelled,
                 admitted, linkVars, pollVars, verdicts, sessions, sent, got,
                 kkWorks>>

-----------------------------------------------------------------------------
(* Health and channel.                                                     *)

MarkError ==
  /\ channel' = "none" /\ session' = 0
  /\ connected' = FALSE /\ complete' = FALSE

(* stop_polling: the task is aborted and waited for.                       *)
StopPolling ==
  /\ poll' = IF pollTask = 0 THEN poll ELSE [poll EXCEPT ![pollTask] = "done"]
  /\ pollTask' = 0

-----------------------------------------------------------------------------
(* connect_with_timeout, connect_kk_then_xx and connect_locked.            *)

Begin ==
  /\ dial = "idle" /\ gate = None /\ attempts < MaxAttempts
  /\ cancelled \/ ~(connected /\ complete /\ channel = "ready")
  /\ gate' = "connect" /\ attempts' = attempts + 1
  /\ owed' = FALSE \* its generation is past: the cleanup skips itself
  /\ cancelled' = FALSE /\ xx' = FALSE
  /\ dial' = "stop" /\ outcome' = "none" /\ faulty' = FALSE
  /\ UNCHANGED <<admitted, linkVars, pollVars, verdicts, hubVars, got,
                 kkWorks>>

StopsPolling ==
  /\ dial = "stop"
  /\ heard' = FALSE /\ refusedAfter' = FALSE \* reset_link
  /\ StopPolling
  /\ dial' = IF admitted THEN "reset" ELSE "clear"
  /\ UNCHANGED <<gate, xx, outcome, attempts, faulty, owed, cancelled,
                 admitted, linkVars, hubVars, got, kkWorks>>

(* Of connect_attempt's ends: KK that failed is followed by XX.            *)
AttemptFails(kk) ==
  \/ /\ kk /\ ~xx
     /\ xx' = TRUE /\ dial' = "stop"
     /\ UNCHANGED <<gate, outcome, owed, cancelled>>
  \/ /\ ~(kk /\ ~xx)
     /\ dial' = "idle" /\ gate' = None /\ outcome' = "error"
     /\ owed' = TRUE /\ cancelled' = TRUE \* ConnectionAttempt::drop
     /\ UNCHANGED xx

(* "Already Disconnected" is an answer like "Disconnected".                *)
Reset ==
  /\ dial = "reset"
  /\ \E fate \in Fates :
       /\ HubDisconnects(fate)
       /\ faulty' = (faulty \/ fate # "answered")
       /\ IF fate = "answered"
          THEN /\ admitted' = FALSE /\ dial' = "clear"
               /\ UNCHANGED <<gate, xx, outcome, owed, cancelled, linkVars>>
          ELSE /\ MarkError /\ AttemptFails(FALSE)
               /\ UNCHANGED admitted
  /\ UNCHANGED <<attempts, pollVars, verdicts, got, kkWorks>>

Clear ==
  /\ dial = "clear"
  /\ channel' = "opened" /\ session' = 0
  /\ connected' = FALSE /\ complete' = FALSE
  /\ dial' = "open"
  /\ UNCHANGED <<gate, xx, outcome, attempts, faulty, owed, cancelled,
                 admitted, pollVars, verdicts, hubVars, got, kkWorks>>

Open ==
  /\ dial = "open"
  /\ \E fate \in Fates :
       /\ HubConnects(fate)
       /\ faulty' = (faulty \/ fate # "answered")
       /\ IF fate = "answered"
          THEN /\ admitted' = TRUE /\ connected' = TRUE /\ dial' = "shake"
               /\ UNCHANGED <<gate, xx, outcome, owed, cancelled, channel,
                              session, complete>>
          ELSE /\ MarkError /\ AttemptFails(FALSE)
               /\ UNCHANGED admitted
  /\ UNCHANGED <<attempts, pollVars, verdicts, got, kkWorks>>

(* /get_messages hands the queue over once, whether or not it is heard.    *)
Fetches(fate) ==
  IF ActedOn(fate) /\ peer # 0
  THEN queue' = <<>> ELSE UNCHANGED queue

Answered(fate) == fate = "answered" /\ peer # 0

(* One poll of the handshake.  The offer is answered with KK or XX; the    *)
(* hub's answer to that completes it, once the last frames of this side    *)
(* are out, unless the hub does not know the key KK uses.  `write' is the  *)
(* fate of this side's frames.                                             *)
Shake ==
  /\ dial = "shake"
  /\ \E fate \in Fates, write \in Fates :
       LET brought == Answered(fate) /\ queue # <<>>
           wrong   == brought /\ channel = "answered" /\ ~xx /\ ~kkWorks
           fine    == Answered(fate) /\ ~wrong /\ (brought => write = "answered")
           refused == fate = "refused" \/ (brought /\ write = "refused")
           pending == \/ channel = "answered" /\ ~brought
                      \/ channel = "opened" /\ brought
       IN /\ faulty' = (faulty \/ fate # "answered"
                               \/ (brought /\ ~wrong /\ write # "answered"))
          /\ \/ /\ fine /\ brought /\ channel = "opened"
                /\ queue' = <<"answer">> /\ session' = peer
                /\ channel' = "answered"
                /\ UNCHANGED <<gate, dial, xx, outcome, owed, cancelled,
                               verdicts, healthVars, got>>
             \/ /\ fine /\ brought /\ channel = "answered"
                /\ queue' = Tail(queue)
                /\ channel' = "ready" /\ complete' = TRUE /\ dial' = "ready"
                /\ got' = 0
                /\ UNCHANGED <<gate, xx, outcome, owed, cancelled, verdicts,
                               session, connected>>
             \/ /\ fine /\ ~brought
                /\ UNCHANGED <<queue, gate, dial, xx, outcome, owed,
                               cancelled, verdicts, linkVars, got>>
             \/ /\ ~fine
                /\ Fetches(fate)
                /\ MarkError
                /\ AttemptFails(~xx /\ (wrong \/ (refused /\ pending)))
                /\ refusedAfter' = (refused /\ channel = "answered"
                                    /\ brought /\ ~wrong /\ ~heard)
                /\ UNCHANGED <<heard, got>>
  /\ UNCHANGED <<attempts, admitted, pollVars, peer, sessions, sent,
                 stranded, kkWorks>>

(* Twenty seconds without an answer: nothing is there to be fetched.       *)
GivesUp ==
  /\ dial = "shake" /\ peer # 0 /\ queue = <<>>
  /\ MarkError /\ AttemptFails(FALSE)
  /\ UNCHANGED <<attempts, faulty, admitted, pollVars, verdicts, hubVars, got,
                 kkWorks>>

Ready ==
  /\ dial = "ready"
  /\ \E n \in PollTasks :
       /\ poll[n] = "none" /\ \A m \in PollTasks : m < n => poll[m] # "none"
       /\ poll' = [poll EXCEPT ![n] = "asleep"] /\ pollTask' = n
  /\ dial' = "idle" /\ gate' = None /\ outcome' = "ok"
  /\ UNCHANGED <<xx, attempts, faulty, owed, cancelled, admitted, linkVars,
                 verdicts, hubVars, got, kkWorks>>

(* The caller leaves, or disconnect() strikes: at an await.  A request     *)
(* under way goes its own way.                                             *)
Abandon ==
  /\ gate = "connect"
  /\ \/ /\ dial = "open"
        /\ \E fate \in {"unanswered", "lost"} : HubConnects(fate)
     \/ /\ dial = "reset"
        /\ \E fate \in {"unanswered", "lost"} : HubDisconnects(fate)
     \/ /\ dial = "shake"
        /\ queue' \in {queue, <<>>}
        /\ UNCHANGED <<peer, sessions, sent, stranded>>
     \/ /\ dial \notin {"open", "reset", "shake"}
        /\ UNCHANGED hubVars
  /\ dial' = "idle" /\ gate' = None /\ outcome' = "left"
  /\ owed' = TRUE /\ cancelled' = TRUE \* ConnectionAttempt::drop
  /\ UNCHANGED <<xx, attempts, faulty, admitted, linkVars,
                 pollVars, verdicts, got, kkWorks>>

-----------------------------------------------------------------------------
(* disconnect(), and what its worker or that of a dropped attempt does.    *)

Disconnect ==
  /\ attempts > 0
  /\ cancelled' = TRUE /\ owed' = TRUE
  /\ UNCHANGED <<gate, dialVars, admitted, linkVars, pollVars, verdicts,
                 hubVars, got, kkWorks>>

CleanupBegins ==
  /\ owed /\ gate = None
  /\ owed' = FALSE /\ gate' = "cleanup"
  /\ StopPolling
  /\ channel' = "none" /\ session' = 0
  /\ connected' = FALSE /\ complete' = FALSE
  /\ UNCHANGED <<dialVars, cancelled, admitted, verdicts, hubVars, got,
                 kkWorks>>

CleanupAsks_Forgets ==
  /\ gate = "cleanup"
  /\ gate' = None
  /\ \/ /\ ~admitted /\ UNCHANGED <<hubVars, admitted>>
     \/ /\ admitted
        /\ \E fate \in Fates : HubDisconnects(fate)
        /\ admitted' = FALSE
  /\ UNCHANGED <<dialVars, owed, cancelled, linkVars, pollVars, verdicts, got,
                 kkWorks>>

(* Only a client that was admitted says goodbye; one whose goodbye failed, *)
(* or was cut off by the budget, still is.                                 *)
CleanupAsks ==
  /\ gate = "cleanup"
  /\ gate' = None
  /\ \/ /\ ~admitted /\ UNCHANGED <<hubVars, admitted>>
     \/ /\ admitted
        /\ \E fate \in Fates :
             /\ HubDisconnects(fate)
             /\ admitted' = (fate # "answered")
  /\ UNCHANGED <<dialVars, owed, cancelled, linkVars, pollVars, verdicts, got,
                 kkWorks>>

-----------------------------------------------------------------------------
(* The poll task: poll_once, and its end.                                  *)

PollWakes(n) ==
  /\ poll[n] = "asleep" /\ gate = None
  /\ gate' = "poll" /\ poll' = [poll EXCEPT ![n] = "polls"]
  /\ UNCHANGED <<dialVars, owed, cancelled, admitted, linkVars, pollTask,
                 verdicts, hubVars, got, kkWorks>>

Polls_KeepsSession(n) ==
  /\ poll[n] = "polls"
  /\ gate' = None
  /\ \E fate \in Fates :
       IF ~connected
       THEN /\ poll' = [poll EXCEPT ![n] = "asleep"]
            /\ UNCHANGED <<queue, got, heard, refusedAfter, linkVars>>
       ELSE /\ Fetches(fate)
            /\ poll' = [poll EXCEPT ![n] = "asleep"]
            /\ UNCHANGED <<heard, refusedAfter, linkVars>>
            /\ IF Answered(fate) THEN got' = got + Len(queue)
               ELSE UNCHANGED got
  /\ UNCHANGED <<dialVars, owed, cancelled, admitted, pollTask, peer,
                 sessions, sent, stranded, kkWorks>>

(* What is fetched is dispatched; whatever goes wrong ends the session,    *)
(* since what was fetched and not heard is gone.                           *)
Polls(n) ==
  /\ poll[n] = "polls"
  /\ gate' = None
  /\ \E fate \in Fates :
       IF ~connected
       THEN /\ poll' = [poll EXCEPT ![n] = "asleep"]
            /\ UNCHANGED <<queue, got, heard, refusedAfter, linkVars>>
       ELSE /\ Fetches(fate)
            /\ \/ /\ Answered(fate)
                  /\ got' = got + Len(queue)
                  /\ heard' = (heard \/ queue # <<>>)
                  /\ poll' = [poll EXCEPT ![n] = "asleep"]
                  /\ UNCHANGED <<refusedAfter, linkVars>>
               \/ /\ ~Answered(fate)
                  /\ MarkError
                  /\ refusedAfter' = IF fate = "refused" /\ channel = "ready"
                                     THEN ~heard ELSE refusedAfter
                  /\ poll' = [poll EXCEPT ![n] = "failed"]
                  /\ UNCHANGED <<got, heard>>
  /\ UNCHANGED <<dialVars, owed, cancelled, admitted, pollTask, peer,
                 sessions, sent, stranded, kkWorks>>

(* The task's own word on the health, after the gate is free again.        *)
PollEnds(n) ==
  /\ poll[n] = "failed"
  /\ poll' = [poll EXCEPT ![n] = "done"]
  /\ connected' = FALSE
  /\ UNCHANGED <<gate, dialVars, owed, cancelled, admitted, channel, session,
                 complete, pollTask, verdicts, hubVars, got, kkWorks>>

(* A send: what it does to the session is NoiseSends's; here, that a       *)
(* message not acknowledged ends it.                                       *)
SendFails ==
  /\ gate = None /\ ~cancelled
  /\ channel = "ready"
  /\ MarkError
  /\ UNCHANGED <<gate, dialVars, owed, cancelled, admitted, pollVars,
                 verdicts, hubVars, got, kkWorks>>

Next ==
  \/ HubSends \/ HubForgets
  \/ Begin \/ StopsPolling \/ Reset \/ Clear \/ Open \/ Shake \/ GivesUp
  \/ Ready \/ Abandon
  \/ Disconnect \/ CleanupBegins \/ CleanupAsks
  \/ \E n \in PollTasks : PollWakes(n) \/ Polls(n) \/ PollEnds(n)
  \/ SendFails

Spec == Init /\ [][Next]_httpVars

-----------------------------------------------------------------------------
TypeOK ==
  /\ gate \in {None, "connect", "poll", "cleanup"}
  /\ dial \in {"idle", "stop", "reset", "clear", "open", "shake", "ready"}
  /\ xx \in BOOLEAN /\ outcome \in {"none", "ok", "error", "left"}
  /\ attempts \in 0 .. MaxAttempts
  /\ owed \in BOOLEAN /\ cancelled \in BOOLEAN /\ admitted \in BOOLEAN
  /\ channel \in {"none", "opened", "answered", "ready"}
  /\ session \in Nat /\ connected \in BOOLEAN /\ complete \in BOOLEAN
  /\ poll \in [PollTasks -> {"none", "asleep", "polls", "failed", "done"}]
  /\ pollTask \in {0} \cup PollTasks
  /\ heard \in BOOLEAN /\ refusedAfter \in BOOLEAN
  /\ peer \in Nat /\ sessions \in Nat /\ sent \in 0 .. MaxEvents
  /\ got \in Nat
  /\ kkWorks \in BOOLEAN /\ faulty \in BOOLEAN /\ stranded \in BOOLEAN

(* A connect during which no request was lost or refused succeeds,         *)
(* whatever earlier connects, disconnects and abandoned attempts left on   *)
(* the hub: an admitted session is reset first, a registration that is     *)
(* gone counts as reset, and the XX attempt does not inherit the KK        *)
(* attempt's registration.  The one thing it cannot undo is a registration *)
(* whose /connect was never answered.                                      *)
CleanConnectSucceeds ==
  outcome = "error" => faulty \/ stranded

(* The hub holds no registration for this client that the client does not  *)
(* know it has to end, but for a /connect that went unanswered.            *)
NoOrphanPeer == peer # 0 /\ ~stranded => admitted

(* While the link is told to be up, nothing the hub handed out in this     *)
(* session was lost: what was sent was dispatched or still waits.          *)
NoSilentGap ==
  channel = "ready" /\ dial = "idle" /\ peer = session =>
    got + Len(queue) = sent

(* The health tells of the channel there is: no task of an earlier link    *)
(* speaks for a later one, and a link told to be up is polled.             *)
HealthIsReal ==
  ~cancelled /\ channel = "ready" =>
    /\ connected /\ complete
    /\ gate # "connect" =>
         pollTask # 0 /\ poll[pollTask] \in {"asleep", "polls"}
=============================================================================
