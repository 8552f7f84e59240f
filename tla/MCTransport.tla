----------------------------- MODULE MCTransport ------------------------------
(*****************************************************************************)
(* The transports under every interleaving, safety only: the lifecycle all   *)
(* three share (over the WSS link), the polled HTTP link, sending over an    *)
(* established link, the Noise handshake and the framing of its messages,    *)
(* the WSS connect and what it reports, the MQTT link, the event stream      *)
(* above a link, and what is kept on disk: the store of keys and pins, and   *)
(* the cache of inventories.                                                 *)
(*****************************************************************************)
EXTENDS Connection

CONSTANTS
    HttpAttempts, HttpPolls, HttpEvents,
    ChunkSize, MaxReassembly, MaxLength, MaxMessages,
    Procs, Nodes, HubKeys, StoreOps, StorePreseed,
    Senders, SendsReader, SendsFrames, SendsSessions,
    WssAttempts,
    MqttRequests, Receives, MqttFrames, MqttAttempts, MqttEvents,
    StreamCapacity, StreamEvents, Limits, StreamLinks,
    Suites, MaxConnects,
    Readers, Writers, Sources, Hosts, Ttl, MaxFiles, MaxTime

VARIABLES
    component,      \* the one this behaviour is of
    httpGate, httpDial, xx, outcome, httpAttempts, httpOwed, httpCancelled,
    httpAdmitted, httpChannel, httpSession, httpConnected, httpComplete, poll,
    pollTask, httpHeard, refusedAfter, peer, sessions, queue, httpSent,
    httpGot, kkWorks, faulty, stranded,
    encoded, transit, nonce, expected, open, delivered, framingFailed,
    disturbed,
    key, file, holder, op, at, read, storeGot, begun, fresh, kept, forgotten,
    protocol, caller, told, task, part, first, struck, path, sendsSession,
    counter, sendsFailed, sendsValid, sendsCancelled, sendsCleanup, wire, late,
    password, pin, known, wssAdmitted, cache, patient, wssPc, attempt, error,
    cause, result, forceXX, kkFailed, verdict, wssHeard, completedXX,
    keyRejected, closedRefused, done, wssChannel, psk, wssValid, wssShaken,
    wssPhase, lastError, wssWoken, wssReader, wssReading, wssCleanup, said,
    timedOut,
    mqttGate, lock, mqttDial, ending, mqttAttempts, mqttOwed, mqttCancelled,
    client, requests, loop, mqttReceived, worker, frame, mqttChannel,
    mqttConnected, mqttComplete, notified, send, left, asked, mqttSent,
    mqttGot,
    link, links, events, position, stream, limit, expired, receiving,
    streamReceived, from,
    hub, hubPassword, pins, psks, shaking, connects, xxOnly, kkRefused, hello,
    offer, mine, envelope, answer, shakeError, altered, stale,
    now, named, files, scratch, entry, past, step, cacheKey, about, cacheFile,
    opened, crashed

\* The suites the client and the hub know, in the client's order.
NoiseSuites == <<"ChaChaPoly", "AESGCM">>

Http == INSTANCE HttpLink WITH
    MaxAttempts <- HttpAttempts, MaxPolls <- HttpPolls, MaxEvents <-
    HttpEvents, gate <- httpGate, dial <- httpDial, attempts <- httpAttempts,
    owed <- httpOwed, cancelled <- httpCancelled, admitted <- httpAdmitted,
    channel <- httpChannel, session <- httpSession, connected <-
    httpConnected, complete <- httpComplete, heard <- httpHeard, sent <-
    httpSent, got <- httpGot

Framing == INSTANCE NoiseFraming WITH
    failed <- framingFailed

Store == INSTANCE KeyStore WITH
    MaxOps <- StoreOps, Preseed <- StorePreseed, got <- storeGot

Sends == INSTANCE NoiseSends WITH
    Reader <- SendsReader, Frames <- SendsFrames, MaxSessions <-
    SendsSessions, session <- sendsSession, failed <- sendsFailed, valid <-
    sendsValid, cancelled <- sendsCancelled, cleanup <- sendsCleanup

Wss == INSTANCE WssLink WITH
    MaxAttempts <- WssAttempts, admitted <- wssAdmitted, pc <- wssPc, heard <-
    wssHeard, channel <- wssChannel, valid <- wssValid, shaken <- wssShaken,
    phase <- wssPhase, woken <- wssWoken, reader <- wssReader, reading <-
    wssReading, cleanup <- wssCleanup

Mqtt == INSTANCE MqttLink WITH
    Publishes <- MqttRequests, Frames <- MqttFrames, MaxAttempts <- MqttAttempts, MaxEvents <-
    MqttEvents, gate <- mqttGate, dial <- mqttDial, attempts <- mqttAttempts,
    owed <- mqttOwed, cancelled <- mqttCancelled, received <- mqttReceived,
    channel <- mqttChannel, connected <- mqttConnected, complete <-
    mqttComplete, sent <- mqttSent, got <- mqttGot

Stream == INSTANCE EventStream WITH
    Capacity <- StreamCapacity, MaxEvents <- StreamEvents, MaxLinks <-
    StreamLinks, received <- streamReceived

Shake == INSTANCE NoiseHandshake WITH
    password <- hubPassword, pc <- shaking, forceXX <- xxOnly, kkFailed <-
    kkRefused, error <- shakeError

Cache == INSTANCE InventoryCache WITH
    key <- cacheKey, file <- cacheFile

ASSUME ComponentAssumptions ==
    /\ Http!HttpAssumption
    /\ Framing!FramingAssumption
    /\ Store!StoreAssumption
    /\ Sends!SendsAssumption
    /\ Wss!WssLinkAssumption
    /\ Mqtt!MqttAssumption
    /\ Shake!HandshakeAssumption
    /\ Cache!InventoryCacheAssumption

httpVars == <<httpGate, httpDial, xx, outcome, httpAttempts, httpOwed,
    httpCancelled, httpAdmitted, httpChannel, httpSession, httpConnected,
    httpComplete, poll, pollTask, httpHeard, refusedAfter, peer, sessions,
    queue, httpSent, httpGot, kkWorks, faulty, stranded>>
framingVars == <<encoded, transit, nonce, expected, open, delivered,
    framingFailed, disturbed>>
storeVars == <<key, file, holder, op, at, read, storeGot, begun, fresh, kept,
    forgotten>>
sendsVars == <<protocol, caller, told, task, part, first, struck, path,
    sendsSession, counter, sendsFailed, sendsValid, sendsCancelled,
    sendsCleanup, wire, late>>
wssVars == <<password, pin, known, wssAdmitted, cache, patient, wssPc,
    attempt, error, cause, result, forceXX, kkFailed, verdict, wssHeard,
    completedXX, keyRejected, closedRefused, done, wssChannel, psk, wssValid,
    wssShaken, wssPhase, lastError, wssWoken, wssReader, wssReading,
    wssCleanup, said, timedOut>>
mqttVars == <<mqttGate, lock, mqttDial, ending, mqttAttempts, mqttOwed,
    mqttCancelled, client, requests, loop, mqttReceived, worker, frame,
    mqttChannel, mqttConnected, mqttComplete, notified, send, left, asked,
    mqttSent, mqttGot>>
streamVars == <<link, links, events, position, stream, limit, expired,
    receiving, streamReceived, from>>
shakeVars == <<hub, hubPassword, pins, psks, shaking, connects, xxOnly,
    kkRefused, hello, offer, mine, envelope, answer, shakeError, altered,
    stale>>
cacheVars == <<now, named, files, scratch, entry, past, step, cacheKey, about,
    cacheFile, opened, crashed>>
TransportVars == <<component, vars, httpVars, framingVars, storeVars,
    sendsVars, wssVars, mqttVars, streamVars, shakeVars, cacheVars>>

\* The components share no state: only the one chosen moves, and the others rest
\* in one of their initial states.
TransportInit ==
    /\ component \in {"connection", "http", "framing", "store", "sends",
          "wss", "mqtt", "stream", "handshake", "cache"}
    /\ Init
    /\ Http!Init
    /\ component # "http" => kkWorks
    /\ Framing!Init
    /\ Store!Init
    /\ component # "store" => \A n \in Nodes : file["default"]["pins"][n] = None
    /\ Sends!Init
    /\ component # "sends" => protocol = "wss"
    /\ Wss!Init
    /\ component # "wss" => password /\ known /\ wssAdmitted /\ patient /\ pin = "none" /\ cache = "none"
    /\ Mqtt!Init
    /\ Stream!EventStreamInit
    /\ component # "stream" => limit = 0
    /\ Shake!HandshakeInit
    /\ component # "handshake" =>
          /\ hub = [node |-> CHOOSE n \in Nodes : TRUE, key |-> CHOOSE k \in HubKeys : TRUE,
                    patterns |-> {}, suites |-> {}, knows |-> FALSE]
          /\ hubPassword /\ \A n \in Nodes : pins[n] = None /\ psks[n] = None
    /\ Cache!InventoryCacheInit
    /\ component # "cache" => named = [s \in Sources |-> CHOOSE h \in Hosts : TRUE]

TransportNext ==
    /\ UNCHANGED component
    /\ \/ component = "connection" /\ Next
          /\ UNCHANGED <<httpVars, framingVars, storeVars, sendsVars, wssVars,
                        mqttVars, streamVars, shakeVars, cacheVars>>
       \/ component = "http" /\ Http!Next
          /\ UNCHANGED <<vars, framingVars, storeVars, sendsVars, wssVars,
                        mqttVars, streamVars, shakeVars, cacheVars>>
       \/ component = "framing" /\ Framing!Next
          /\ UNCHANGED <<vars, httpVars, storeVars, sendsVars, wssVars,
                        mqttVars, streamVars, shakeVars, cacheVars>>
       \/ component = "store" /\ Store!Next
          /\ UNCHANGED <<vars, httpVars, framingVars, sendsVars, wssVars,
                        mqttVars, streamVars, shakeVars, cacheVars>>
       \/ component = "sends" /\ Sends!Next
          /\ UNCHANGED <<vars, httpVars, framingVars, storeVars, wssVars,
                        mqttVars, streamVars, shakeVars, cacheVars>>
       \/ component = "wss" /\ Wss!Next
          /\ UNCHANGED <<vars, httpVars, framingVars, storeVars, sendsVars,
                        mqttVars, streamVars, shakeVars, cacheVars>>
       \/ component = "mqtt" /\ Mqtt!Next
          /\ UNCHANGED <<vars, httpVars, framingVars, storeVars, sendsVars,
                        wssVars, streamVars, shakeVars, cacheVars>>
       \/ component = "stream" /\ Stream!EventStreamNext
          /\ UNCHANGED <<vars, httpVars, framingVars, storeVars, sendsVars,
                        wssVars, mqttVars, shakeVars, cacheVars>>
       \/ component = "handshake" /\ Shake!HandshakeNext
          /\ UNCHANGED <<vars, httpVars, framingVars, storeVars, sendsVars,
                        wssVars, mqttVars, streamVars, cacheVars>>
       \/ component = "cache" /\ Cache!InventoryCacheNext
          /\ UNCHANGED <<vars, httpVars, framingVars, storeVars, sendsVars,
                        wssVars, mqttVars, streamVars, shakeVars>>

TransportSpec == TransportInit /\ [][TransportNext]_TransportVars

-----------------------------------------------------------------------------
\* A hub holds no registration over HTTP that the client does not know it has to
\* end, but for a /connect that went unanswered.
NoOrphanPeer == Http!NoOrphanPeer

\* While an HTTP link is told to be up, nothing the hub handed out in its
\* session was lost: it was dispatched or still waits.
NoSilentGap == Http!NoSilentGap

\* What is kept on disk stays whole, whoever crashes and whoever else writes: who
\* uses the store gets the key it keeps, no pin is lost, an adopted key comes with
\* the pin of its hub; and an inventory the cache hands over is whole, recent and
\* of the hub it was asked for.
StoreAgrees ==
    /\ Store!StoreAgrees
    /\ Cache!CacheAgrees

\* What decrypting hands on are the messages encrypted, whole, in order and
\* once, whatever is lost, repeated or overtaken: NoiseFraming implements
\* MessageChannel.
DeliversInOrder ==
    /\ Framing!Channel!Init
    /\ [][component = "framing" => Framing!Channel!Next]_<<encoded, delivered,
                                                          framingFailed>>

\* The hub receives whole messages only, in the order of their counters, and
\* none whose sender had left before it was its turn.
SendsAreWhole == Sends!SendsAreWhole

\* The reason a WSS connect gives is the case.
TellsWhy == Wss!TellsWhy

\* The pin is set on first contact and never replaced.
PinIsKept == Wss!PinIsKept

\* A session runs over the pattern and the suite both ends would choose from what
\* the hub offered, whatever became of the offer on its way; and a connect says
\* why its handshake failed.
NegotiationAgrees == Shake!NegotiationAgrees

\* Nothing that was sent is skipped: over an MQTT link that is told to be up,
\* which is served, and by a stream since its listen() was called.
NothingSkipped == Mqtt!NothingSkipped /\ Mqtt!UpIsServed /\ Stream!NothingSkipped
===============================================================================
