------------------------------ MODULE MqttLink ------------------------------
(***************************************************************************)
(* MqttTransport of src/transport.rs: the hub is reached through a broker. *)
(* One task, the event loop, drives the broker connection: it takes what   *)
(* is to be published from a bounded queue and hands what was published    *)
(* for us to a second task through another bounded queue.  That second     *)
(* task decrypts and, during the handshake, publishes the replies, under   *)
(* the lock of the Noise channel; senders publish under the same lock.     *)
(* The loop's own last act, telling that the link is down, needs the lock  *)
(* too.                                                                    *)
(*                                                                         *)
(* An aborted task runs no further.  Deadlines (one second for goodbyes,   *)
(* twenty for a connect) may pass at any time.  Broker and hub are         *)
(* external.                                                               *)
(***************************************************************************)
EXTENDS Integers, Sequences

CONSTANTS
  Publishes,    \* capacity of the queue of requests (16 in the code)
  Receives,     \* capacity of the queue of received frames (64 in the code)
  Frames,       \* frames a message is encrypted into
  MaxAttempts,  \* bound: connects
  MaxEvents,    \* bound: events the hub sends over one link
  None

MqttAssumption ==
  /\ Publishes \in Nat \ {0} /\ Receives \in Nat \ {0} /\ Frames \in Nat \ {0}
  /\ MaxAttempts \in Nat /\ MaxEvents \in Nat
  /\ None \notin {"connect", "cleanup", "send", "worker"}

VARIABLES
  gate,       \* who holds the gate: "connect", "cleanup", "send" or None
  lock,       \* who holds the Noise channel: "worker", "send" or None
  dial,       \* the connect: where in connect_inner it is
  ending,     \* where in disconnect_inner the holder of the gate is
  attempts,   \* connects begun
  owed,       \* the cleanup a disconnect() or a dropped attempt left
  cancelled,  \* ConnectionControl.cancelled
  client,     \* MqttTransportState.client is there
  requests,   \* length of the queue of requests
  loop,       \* the event task
  received,   \* the queue of received frames
  worker,     \* the incoming task
  frame,      \* the frame it handles
  channel,    \* MqttTransportState.noise: none, opened or ready
  connected,  \* TransportHealth.connected
  complete,   \* TransportHealth.handshake_complete
  notified,   \* handshake_notify has fired since the connect enabled it
  send,       \* a send task: where it is
  left,       \* frames it still has to publish
  asked,      \* the hub: it was sent the HELLO
  sent,       \* the hub: events it has sent over this link
  got         \* events of this link that were dispatched

dialVars == <<dial, attempts, notified>>
taskVars == <<client, requests, loop, received, worker, frame>>
linkVars == <<channel, connected, complete>>
sendVars == <<send, left>>
hubVars  == <<asked, sent>>
mqttVars == <<gate, lock, dialVars, ending, owed, cancelled, taskVars,
              linkVars, sendVars, hubVars, got>>

Init ==
  /\ gate = None /\ lock = None /\ dial = "idle" /\ ending = "no"
  /\ attempts = 0 /\ owed = FALSE /\ cancelled = FALSE
  /\ client = FALSE /\ requests = 0 /\ loop = "none" /\ received = <<>>
  /\ worker = "none" /\ frame = 0
  /\ channel = "none" /\ connected = FALSE /\ complete = FALSE
  /\ notified = FALSE /\ send = "idle" /\ left = 0
  /\ asked = FALSE /\ sent = 0 /\ got = 0

(* healthcheck, as connect_with_timeout reads it.                          *)
Up == connected /\ complete /\ channel = "ready" /\ ~cancelled

(* mark_error and mark_disconnected: they take the Noise lock.             *)
MarkDown ==
  /\ channel' = "none" /\ connected' = FALSE /\ complete' = FALSE

(* The queue of requests is closed once the loop was dropped.              *)
Listens == loop \in {"runs", "failed"}

Publish ==
  /\ client /\ Listens /\ requests < Publishes
  /\ requests' = requests + 1

CannotPublish == ~client \/ ~Listens

-----------------------------------------------------------------------------
(* The event task.                                                         *)

LoopPublishes ==
  /\ loop = "runs" /\ requests > 0
  /\ requests' = requests - 1
  /\ asked' = (asked \/ dial \in {"waits", "ready"} \/ channel = "ready")
  /\ UNCHANGED <<gate, lock, dialVars, ending, owed, cancelled, client, loop,
                 received, worker, frame, linkVars, sendVars, sent, got>>

LoopReceives_Drops ==
  /\ loop = "runs" /\ asked
  /\ \/ /\ channel = "ready" /\ sent < MaxEvents
        /\ sent' = sent + 1
     \/ UNCHANGED sent
  /\ \E f \in IF channel = "ready"
              THEN {-1} \cup {n \in {sent'} : n > sent} ELSE {0, -1} :
       /\ received' = IF Len(received) < Receives THEN Append(received, f)
                      ELSE received
       /\ UNCHANGED loop
  /\ UNCHANGED <<gate, lock, dialVars, ending, owed, cancelled, client,
                 requests, worker, frame, linkVars, sendVars, asked, got>>

(* A frame for us: the hub's answer (0), its next event, or one that will  *)
(* not decrypt (-1).  A full queue ends the link: no frame is left out.    *)
LoopReceives ==
  /\ loop = "runs" /\ asked
  /\ \/ /\ channel = "ready" /\ sent < MaxEvents
        /\ sent' = sent + 1
     \/ UNCHANGED sent
  /\ \E f \in IF channel = "ready"
              THEN {-1} \cup {n \in {sent'} : n > sent} ELSE {0, -1} :
       IF Len(received) < Receives
       THEN received' = Append(received, f) /\ UNCHANGED loop
       ELSE loop' = "failed" /\ UNCHANGED received
  /\ UNCHANGED <<gate, lock, dialVars, ending, owed, cancelled, client,
                 requests, worker, frame, linkVars, sendVars, asked, got>>

(* The broker ends the connection, or never made it.                       *)
LoopFails ==
  /\ loop = "runs"
  /\ loop' = "failed"
  /\ UNCHANGED <<gate, lock, dialVars, ending, owed, cancelled, client,
                 requests, received, worker, frame, linkVars, sendVars,
                 hubVars, got>>

LoopDrops_Later ==
  /\ loop = "failed" /\ lock = None
  /\ loop' = "dropped" /\ requests' = 0
  /\ UNCHANGED <<gate, lock, dialVars, ending, owed, cancelled, client,
                 received, worker, frame, linkVars, sendVars, hubVars, got>>

(* It is dropped before the lock is waited for, so that who waits for      *)
(* space in its queue wakes with an error and lets go of the lock.         *)
LoopDrops ==
  /\ loop = "failed"
  /\ loop' = "dropped" /\ requests' = 0
  /\ UNCHANGED <<gate, lock, dialVars, ending, owed, cancelled, client,
                 received, worker, frame, linkVars, sendVars, hubVars, got>>

LoopTells ==
  /\ loop = "dropped" /\ lock = None
  /\ loop' = "done"
  /\ MarkDown /\ notified' = TRUE
  /\ UNCHANGED <<gate, lock, dial, attempts, ending, owed, cancelled, client,
                 requests, received, worker, frame, sendVars, hubVars, got>>

-----------------------------------------------------------------------------
(* The incoming task.                                                      *)

WorkerTakes ==
  /\ worker = "waits" /\ received # <<>>
  /\ worker' = "has" /\ frame' = Head(received) /\ received' = Tail(received)
  /\ UNCHANGED <<gate, lock, dialVars, ending, owed, cancelled, client,
                 requests, loop, linkVars, sendVars, hubVars, got>>

(* The loop has dropped its end of the queue.                              *)
WorkerEnds ==
  /\ worker = "waits" /\ received = <<>> /\ loop \in {"done", "none"}
  /\ worker' = "done"
  /\ UNCHANGED <<gate, lock, dialVars, ending, owed, cancelled, client,
                 requests, loop, received, frame, linkVars, sendVars, hubVars,
                 got>>

(* handle_raw_mqtt_payload, as far as its first publish.                   *)
WorkerReads ==
  /\ worker = "has" /\ lock = None
  /\ \/ /\ channel = "none" \/ frame = -1
        /\ worker' = "failing"
        /\ UNCHANGED <<lock, got, complete>>
     \/ /\ channel = "opened" /\ frame = 0
        /\ worker' = "writes" /\ lock' = "worker"
        /\ UNCHANGED <<got, complete>>
     \/ /\ channel = "ready" /\ frame > 0
        /\ IF frame = got + 1
           THEN worker' = "waits" /\ got' = frame /\ complete' = TRUE
           ELSE worker' = "failing" /\ UNCHANGED <<got, complete>>
        /\ UNCHANGED lock
     \/ /\ channel = "ready" /\ frame = 0
        /\ worker' = "failing"
        /\ UNCHANGED <<lock, got, complete>>
  /\ UNCHANGED <<gate, dialVars, ending, owed, cancelled, client, requests,
                 loop, received, frame, channel, connected, sendVars,
                 hubVars>>

(* The frames that complete the handshake.                                 *)
WorkerWrites ==
  /\ worker = "writes"
  /\ lock' = None
  /\ \/ /\ Publish
        /\ channel' = "ready" /\ complete' = TRUE /\ notified' = TRUE
        /\ worker' = "waits"
     \/ /\ CannotPublish
        /\ worker' = "failing"
        /\ UNCHANGED <<requests, channel, complete, notified>>
  /\ UNCHANGED <<gate, dial, attempts, ending, owed, cancelled, client, loop,
                 received, frame, connected, sendVars, hubVars, got>>

(* It aborts the event task, unless disconnect_inner has it, and then has  *)
(* to tell what the aborted task no longer can.                            *)
WorkerFails ==
  /\ worker = "failing" /\ ending # "loop"
  /\ worker' = "tells"
  /\ loop' = IF ending \in {"no", "offline"} THEN "done" ELSE loop
  /\ requests' = IF ending \in {"no", "offline"} THEN 0 ELSE requests
  /\ UNCHANGED <<gate, lock, dialVars, ending, owed, cancelled, client,
                 received, frame, linkVars, sendVars, hubVars, got>>

WorkerTells ==
  /\ worker = "tells" /\ lock = None
  /\ worker' = "done"
  /\ MarkDown /\ notified' = TRUE
  /\ UNCHANGED <<gate, lock, dial, attempts, ending, owed, cancelled, client,
                 requests, loop, received, frame, sendVars, hubVars, got>>

-----------------------------------------------------------------------------
(* A send: under the gate and the lock, until its last frame is queued.    *)

SendBegins ==
  /\ send = "idle" /\ gate = None
  /\ gate' = "send" /\ send' = "locks"
  /\ UNCHANGED <<lock, dialVars, ending, owed, cancelled, taskVars, linkVars,
                 left, hubVars, got>>

SendEncodes ==
  /\ send = "locks" /\ lock = None
  /\ IF channel = "ready" /\ ~cancelled
     THEN lock' = "send" /\ send' = "writes" /\ left' = Frames
     ELSE send' = "fails" /\ UNCHANGED <<lock, left>>
  /\ UNCHANGED <<gate, dialVars, ending, owed, cancelled, taskVars, linkVars,
                 hubVars, got>>

SendPublishes ==
  /\ send = "writes" /\ ~cancelled /\ left > 0
  /\ Publish
  /\ left' = left - 1
  /\ UNCHANGED <<gate, lock, dialVars, ending, owed, cancelled, client, loop,
                 received, worker, frame, linkVars, send, hubVars, got>>

SendEnds ==
  /\ send = "writes" /\ left = 0
  /\ send' = "idle" /\ lock' = None /\ gate' = None
  /\ UNCHANGED <<dialVars, ending, owed, cancelled, taskVars, linkVars, left,
                 hubVars, got>>

(* The queue is closed, or a disconnect() struck.                          *)
SendBreaks ==
  /\ send = "writes" /\ left > 0 /\ (cancelled \/ CannotPublish)
  /\ send' = "fails" /\ lock' = None
  /\ UNCHANGED <<gate, dialVars, ending, owed, cancelled, taskVars, linkVars,
                 left, hubVars, got>>

SendFails ==
  /\ send = "fails" /\ lock = None
  /\ MarkDown
  /\ send' = "idle" /\ left' = 0 /\ gate' = None
  /\ UNCHANGED <<lock, dialVars, ending, owed, cancelled, taskVars, hubVars,
                 got>>

-----------------------------------------------------------------------------
(* disconnect_inner: at the start and at the failed end of a connect, and  *)
(* in a cleanup.                                                           *)

SaysOffline ==
  /\ ending = "offline"
  /\ client' = FALSE /\ ending' = "loop"
  /\ \/ requests' = requests
     \/ client /\ Listens /\ requests < Publishes /\ requests' = requests + 1
  /\ UNCHANGED <<gate, lock, dialVars, owed, cancelled, loop, received, worker,
                 frame, linkVars, sendVars, hubVars, got>>

(* The loop flushes and ends, or is aborted after a second; until then the *)
(* incoming task cannot have it.                                           *)
EndsLoop ==
  /\ ending = "loop"
  /\ loop' = "none" /\ requests' = 0 /\ ending' = "worker"
  /\ UNCHANGED <<gate, lock, dialVars, owed, cancelled, client, received,
                 worker, frame, linkVars, sendVars, hubVars, got>>

EndsWorker ==
  /\ ending = "worker"
  /\ worker' = "none" /\ received' = <<>>
  /\ lock' = IF lock = "worker" THEN None ELSE lock
  /\ ending' = "mark"
  /\ UNCHANGED <<gate, dialVars, owed, cancelled, client, requests, loop,
                 frame, linkVars, sendVars, hubVars, got>>

MarksEnd ==
  /\ ending = "mark" /\ lock = None
  /\ MarkDown /\ ending' = "no"
  /\ \/ /\ gate = "connect" /\ dial = "begin"
        /\ dial' = "opens"
        /\ UNCHANGED <<gate, owed, cancelled>>
     \/ /\ gate = "connect" /\ dial = "failed"
        /\ dial' = "idle" /\ gate' = None
        /\ owed' = TRUE /\ cancelled' = TRUE \* ConnectionAttempt::drop
     \/ /\ gate = "cleanup"
        /\ gate' = None
        /\ UNCHANGED <<dial, owed, cancelled>>
  /\ UNCHANGED <<lock, attempts, notified, taskVars, sendVars, hubVars, got>>

-----------------------------------------------------------------------------
(* connect_with_timeout and connect_inner.                                 *)

Begin ==
  /\ dial = "idle" /\ gate = None /\ attempts < MaxAttempts /\ ~Up
  /\ gate' = "connect" /\ attempts' = attempts + 1
  /\ owed' = FALSE \* its generation is past: the cleanup skips itself
  /\ cancelled' = FALSE
  /\ dial' = "begin" /\ ending' = "offline"
  /\ UNCHANGED <<lock, notified, taskVars, linkVars, sendVars, hubVars, got>>

(* The channel, the wait for the handshake, and only then the tasks.       *)
Opens ==
  /\ dial = "opens" /\ lock = None
  /\ channel' = "opened" /\ client' = TRUE /\ notified' = FALSE
  /\ loop' = "runs" /\ worker' = "waits"
  /\ requests' = 0 /\ received' = <<>> /\ frame' = 0
  /\ asked' = FALSE /\ sent' = 0 /\ got' = 0
  /\ dial' = "subscribes"
  /\ UNCHANGED <<gate, lock, attempts, ending, owed, cancelled, connected,
                 complete, sendVars>>

Greet(from, to) ==
  /\ dial = from
  /\ \/ /\ Publish
        /\ dial' = to
        /\ UNCHANGED ending
     \/ /\ CannotPublish
        /\ dial' = "failed" /\ ending' = "offline"
        /\ UNCHANGED requests
  /\ connected' = (connected \/ dial' = "hello")
  /\ UNCHANGED <<gate, lock, attempts, notified, owed, cancelled, client,
                 loop, received, worker, frame, channel, complete, sendVars,
                 hubVars, got>>

Subscribe   == Greet("subscribes", "online")
SayOnline   == Greet("online", "hello")
SayHello    == Greet("hello", "looks")

(* is_handshake_complete, and the health, before it waits.                 *)
Looks ==
  /\ dial = "looks"
  /\ dial' = IF complete /\ channel = "ready" THEN "ready"
             ELSE IF connected THEN "waits" ELSE "failed"
  /\ ending' = IF dial' = "failed" THEN "offline" ELSE ending
  /\ UNCHANGED <<gate, lock, attempts, notified, owed, cancelled, taskVars,
                 linkVars, sendVars, hubVars, got>>

Wakes ==
  /\ dial = "waits" /\ notified
  /\ IF complete /\ channel = "ready"
     THEN dial' = "ready" /\ UNCHANGED ending
     ELSE dial' = "failed" /\ ending' = "offline"
  /\ UNCHANGED <<gate, lock, attempts, notified, owed, cancelled, taskVars,
                 linkVars, sendVars, hubVars, got>>

Ready ==
  /\ dial = "ready"
  /\ dial' = "idle" /\ gate' = None
  /\ UNCHANGED <<lock, attempts, notified, ending, owed, cancelled, taskVars,
                 linkVars, sendVars, hubVars, got>>

(* The caller leaves, its deadline passes or disconnect() strikes, at any  *)
(* await; or a cleanup's budget runs out.                                  *)
Abandon ==
  /\ gate \in {"connect", "cleanup"}
  /\ loop' = IF ending = "loop" THEN "none" ELSE loop \* AbortTaskOnDrop
  /\ requests' = IF ending = "loop" THEN 0 ELSE requests
  /\ ending' = "no" /\ dial' = "idle" /\ gate' = None
  /\ IF gate = "connect" THEN owed' = TRUE /\ cancelled' = TRUE
     ELSE UNCHANGED <<owed, cancelled>>
  /\ UNCHANGED <<lock, attempts, notified, client, received, worker, frame,
                 linkVars, sendVars, hubVars, got>>

Disconnect ==
  /\ attempts > 0 /\ ~cancelled
  /\ cancelled' = TRUE /\ owed' = TRUE
  /\ UNCHANGED <<gate, lock, dialVars, ending, taskVars, linkVars, sendVars,
                 hubVars, got>>

CleanupBegins ==
  /\ owed /\ gate = None
  /\ owed' = FALSE /\ gate' = "cleanup" /\ ending' = "offline"
  /\ UNCHANGED <<lock, dialVars, cancelled, taskVars, linkVars, sendVars,
                 hubVars, got>>

Next ==
  \/ LoopPublishes \/ LoopReceives \/ LoopFails \/ LoopDrops \/ LoopTells
  \/ WorkerTakes \/ WorkerEnds \/ WorkerReads \/ WorkerWrites
  \/ WorkerFails \/ WorkerTells
  \/ SendBegins \/ SendEncodes \/ SendPublishes \/ SendEnds \/ SendBreaks
  \/ SendFails
  \/ SaysOffline \/ EndsLoop \/ EndsWorker \/ MarksEnd
  \/ Begin \/ Opens \/ Subscribe \/ SayOnline \/ SayHello \/ Looks \/ Wakes
  \/ Ready
  \/ Abandon \/ Disconnect \/ CleanupBegins

(* The runtime polls every task; a free lock is given in turn.  Broker and *)
(* hub owe nothing, and no deadline is taken to pass.                      *)
Fairness ==
  /\ WF_mqttVars(LoopDrops) /\ SF_mqttVars(LoopTells)
  /\ WF_mqttVars(WorkerWrites)
  /\ SF_mqttVars(WorkerFails) /\ SF_mqttVars(WorkerTells)
  /\ WF_mqttVars(SendEnds) /\ WF_mqttVars(SendBreaks)
  /\ WF_mqttVars(Looks) /\ WF_mqttVars(Wakes)

Spec == Init /\ [][Next]_mqttVars /\ Fairness

-----------------------------------------------------------------------------
TypeOK ==
  /\ gate \in {None, "connect", "cleanup", "send"}
  /\ lock \in {None, "worker", "send"}
  /\ dial \in {"idle", "begin", "opens", "subscribes", "online", "hello",
               "looks", "waits", "ready", "failed"}
  /\ ending \in {"no", "offline", "loop", "worker", "mark"}
  /\ attempts \in 0 .. MaxAttempts /\ requests \in 0 .. Publishes
  /\ owed \in BOOLEAN /\ cancelled \in BOOLEAN /\ client \in BOOLEAN
  /\ loop \in {"none", "runs", "failed", "dropped", "done"}
  /\ received \in Seq(-1 .. MaxEvents) /\ Len(received) <= Receives
  /\ worker \in {"none", "waits", "has", "writes", "failing", "tells", "done"}
  /\ frame \in -1 .. MaxEvents
  /\ channel \in {"none", "opened", "ready"}
  /\ connected \in BOOLEAN /\ complete \in BOOLEAN /\ notified \in BOOLEAN
  /\ send \in {"idle", "locks", "writes", "fails"} /\ left \in 0 .. Frames
  /\ asked \in BOOLEAN /\ sent \in 0 .. MaxEvents /\ got \in 0 .. MaxEvents

(* A link that is told to be up is driven by an event loop, or one of its  *)
(* two tasks is on its way to tell that it is not, or whoever holds the    *)
(* gate is taking it down.                                                 *)
UpIsServed ==
  Up => \/ loop \in {"runs", "failed", "dropped"}
        \/ worker = "tells" \/ ending # "no"

(* Nothing the hub sent over a link that is up is skipped: what was not    *)
(* dispatched yet is queued, or in the hands of the incoming task.         *)
NothingSkipped ==
  Up /\ loop = "runs" /\ received = <<>> /\ worker = "waits" => got = sent

(* When the broker connection ends, the health is told and a connect that  *)
(* waits for its handshake is released, whoever holds the Noise lock and   *)
(* without any deadline passing.                                           *)
EndIsHeard ==
  (loop = "failed") ~> (loop \in {"done", "none"} /\ dial # "waits")
=============================================================================
