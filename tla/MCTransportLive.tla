--------------------------- MODULE MCTransportLive ----------------------------
(*****************************************************************************)
(* What must happen on a link in the end, and what it comes to: the          *)
(* lifecycle, the WSS connect, the MQTT link and the event stream above      *)
(* them.                                                                     *)
(*****************************************************************************)
EXTENDS Connection

VARIABLES
    component,      \* the one this behaviour is of
    password, pin, known, admitted, cache, patient, wssPc, attempt, error,
    cause, result, forceXX, kkFailed, verdict, heard, completedXX,
    keyRejected, closedRefused, done, wssChannel, psk, wssValid, wssShaken,
    wssPhase, lastError, wssWoken, wssReader, wssReading, cleanup, said,
    timedOut,
    mqttGate, lock, dial, ending, attempts, owed, mqttCancelled, client,
    requests, loop, mqttReceived, worker, frame, mqttChannel, connected,
    complete, notified, send, left, asked, sent, got,
    link, links, events, position, stream, limit, expired, receiving,
    streamReceived, from

Wss == INSTANCE WssLink WITH
    MaxAttempts <- 2, pc <- wssPc, channel <- wssChannel, valid <- wssValid,
    shaken <- wssShaken, phase <- wssPhase, woken <- wssWoken, reader <-
    wssReader, reading <- wssReading

Mqtt == INSTANCE MqttLink WITH
    Publishes <- 1, Frames <- 2, Receives <- 1, MaxAttempts <- 1, MaxEvents <- 1, gate <-
    mqttGate, cancelled <- mqttCancelled, received <- mqttReceived, channel <-
    mqttChannel

Stream == INSTANCE EventStream WITH
    Capacity <- 1, MaxEvents <- 3, Limits <- {0, 1, 2}, MaxLinks <- 2,
    received <- streamReceived

ASSUME ComponentAssumptions ==
    /\ Wss!WssLinkAssumption
    /\ Mqtt!MqttAssumption

wssVars == <<password, pin, known, admitted, cache, patient, wssPc, attempt,
    error, cause, result, forceXX, kkFailed, verdict, heard, completedXX,
    keyRejected, closedRefused, done, wssChannel, psk, wssValid, wssShaken,
    wssPhase, lastError, wssWoken, wssReader, wssReading, cleanup, said,
    timedOut>>
mqttVars == <<mqttGate, lock, dial, ending, attempts, owed, mqttCancelled,
    client, requests, loop, mqttReceived, worker, frame, mqttChannel,
    connected, complete, notified, send, left, asked, sent, got>>
streamVars == <<link, links, events, position, stream, limit, expired,
    receiving, streamReceived, from>>
LinksVars == <<component, vars, wssVars, mqttVars, streamVars>>

\* The components share no state: only the one chosen moves, and the others rest
\* in one of their initial states.
LinksInit ==
    /\ component \in {"lifecycle", "wss", "mqtt", "stream"}
    /\ Init
    /\ Wss!Init
    \* The hub admits this client, which meets it for the first time.
    /\ password /\ known /\ admitted /\ pin = "none" /\ cache = "none"
    /\ component # "wss" => patient
    /\ Mqtt!Init
    /\ Stream!EventStreamInit
    /\ component # "stream" => limit = 0

LinksNext ==
    /\ UNCHANGED component
    /\ \/ component = "lifecycle" /\ Next
          /\ UNCHANGED <<wssVars, mqttVars, streamVars>>
       \/ component = "wss" /\ Wss!Next
          /\ UNCHANGED <<vars, mqttVars, streamVars>>
       \/ component = "mqtt" /\ Mqtt!Next
          /\ UNCHANGED <<vars, wssVars, streamVars>>
       \/ component = "stream" /\ Stream!EventStreamNext
          /\ UNCHANGED <<vars, wssVars, mqttVars>>

(* What each component's own specification assumes of it.                  *)
LifecycleMoves(A) == component = "lifecycle" /\ A
WssMoves(A) == component = "wss" /\ A
MqttMoves(A) == component = "mqtt" /\ A
StreamMoves(A) == component = "stream" /\ A

LinksFairness ==
    /\ \A c \in Callers :
          /\ WF_vars(LifecycleMoves(Connecting(c)))
          /\ WF_vars(LifecycleMoves(Disconnecting(c)))
    /\ \A g \in Generations : SF_vars(LifecycleMoves(CleanupLocks(g)))
    /\ WF_vars(LifecycleMoves(Cleaning))
    /\ \A w \in Watchers : WF_vars(LifecycleMoves(Watching(w)))
    /\ WF_wssVars(WssMoves(Wss!Progress)) /\ WF_wssVars(WssMoves(Wss!Reader))
    /\ WF_mqttVars(MqttMoves(Mqtt!LoopDrops))
    /\ SF_mqttVars(MqttMoves(Mqtt!LoopTells))
    /\ WF_mqttVars(MqttMoves(Mqtt!WorkerWrites))
    /\ SF_mqttVars(MqttMoves(Mqtt!WorkerFails))
    /\ SF_mqttVars(MqttMoves(Mqtt!WorkerTells))
    /\ WF_mqttVars(MqttMoves(Mqtt!SendEnds))
    /\ WF_mqttVars(MqttMoves(Mqtt!SendBreaks))
    /\ WF_mqttVars(MqttMoves(Mqtt!Looks)) /\ WF_mqttVars(MqttMoves(Mqtt!Wakes))
    /\ WF_streamVars(StreamMoves(Stream!Takes))
    /\ WF_streamVars(StreamMoves(Stream!Overflows))
    /\ WF_streamVars(StreamMoves(Stream!Expires))
    /\ WF_streamVars(StreamMoves(Stream!Probe))

LinksSpec == LinksInit /\ [][LinksNext]_LinksVars /\ LinksFairness

-----------------------------------------------------------------------------
\* A connect does not sit out its twenty seconds on a link that has ended: the
\* end of a WSS reader and of an MQTT event loop releases it, whoever holds the
\* Noise lock.
EndReleasesConnect == Wss!EndReleasesConnect /\ Mqtt!EndIsHeard

\* A recv() on a link that is gone for good comes back.
DeadLinkIsTold == Stream!DeadLinkIsTold
===============================================================================
