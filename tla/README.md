# TLA+ models of the Thalovant Rust SDK

The SDK connects an application or a device to a Thalovant hub.  Over a link (HTTPS polling, a
WebSocket or MQTT) it runs an authenticated Noise handshake, then exchanges encrypted messages:
utterances and their replies, bus events, commands of the hub's skills.  A second, independent part
speaks to the control plane over HTTPS (sign-in, admission of connections, configuration).  What is
hard about it is not its arithmetic but its order of events: every public operation is an async
function that any number of tasks may call together on shared handles and that its caller may drop
at any await, and every answer of a hub or of the API may be late, lost, repeated or another's.
These modules model that, part by part; paths below are relative to the repository.

## Inventory

| part | source | state it keeps | operations | what is hard | what makes it correct |
|---|---|---|---|---|---|
| Link supervisor | `src/session.rs` 40-172 | next step of the ladder, start of the current refusals | `after(outcome, time)` | boundaries of the grace, what resets which clock | gives up on refusals after a whole grace of them and not before |
| Hub session: links | `src/session.rs` 180-890 | held client, retired client, retry delay, flags, event generation, one relay per link | `connect`, `ask`/`emit`/`reply` (`call`), `warm`, `probe`, `close` | one lock held over awaits, cancelled callers, closes that fail, links that die at any time, a lagging relay | one link at a time, none lost, closed means closed, events in order |
| Hub session: `run` | 735-843 | supervisor, wake-up, watch, timers | `run` | lost wake-ups, decisions from stale reads, other users of the session | ends when closed, redials a drop at once |
| Hub session: handlers | 190-365, 457-516, 846-870 | handler list, task map per handler, callbacks | `on`, `on_state_change`, `off`, `dispatch`, `close` | two locks, tasks that start while they are removed | `off` and `close` are final; maps are exact; callbacks hear the truth |
| Origin preference | 936-988 | last failure per address | prefer, failed, succeeded | cooldown boundary | the preferred address is retried after the cooldown |
| Transport lifecycle | `src/transport.rs` 125-640, 800-912 | gate, generation, cancelled, attempt flag, wake-ups | `connect_with_timeout`, `disconnect`, `stopped`, `ConnectionAttempt::drop` | callers that join, own or abandon an attempt; cleanups that outlive their caller | a cleanup touches only its own generation; a cancelled link is cleaned up |
| HTTP transport | 913-1575 | admission, hub session, poll task | connect, poll, send, disconnect | requests that took effect and were not answered; polls beside reconnects | no registration forgotten; no event lost on a link that is told to be up |
| WSS link | 1576-2145 | socket, reader task, health, verdict of the hub | `connect_locked`, reader, `disconnect_inner` | the reader runs beside connects; a close must be read as what it is | the error a connect reports is the case |
| MQTT transport | 2146-2605 | broker client, event loop, incoming task, two bounded queues | connect, publish, event loop, disconnect | three tasks, two queues and one lock | nobody waits for nobody; nothing skipped while up |
| Noise channel and sends | 800-909, 2000-2075, 2622-3006 | handshake, session, `failed`, the send path | `receive`, `encode`, `send_detached`, `write_unless_retired` | a cipher that advanced cannot be rolled back; writes outlive their callers | whole messages in counter order; a pin never changes silently |
| Noise framing | `src/noise.rs` | counters, message being put together | `encrypt_message`, `decrypt_frame` | chunk boundaries, lost, repeated and overtaken frames, the cap | what is handed on is what was sent, or an error |
| Noise negotiation | `src/noise.rs` 26-364, `src/transport.rs` 2891-3006 | pins, cached PSKs | choice of pattern and suite, prologue, handshake | clear messages reordered or changed on their way, stale PSKs | no weaker terms than both have; a failure has a reason |
| Key and pin store | `src/noise_store.rs` | key, pin and PSK files, their lock | load or create, adopt, pin, forget | two processes, crashes and failed writes between files | one key per folder; no pin lost |
| Client: replies | `src/client.rs`, `src/refusal.rs` | reservations, untracked sends, windows | `ask`, `query`, `send_utterance` | late, foreign and early replies, refusals without an id, slow writes | each answer is its own; a refusal is never given to the wrong one |
| Client: conversations | `src/client.rs` 50-190 | map from session ids to conversations | remember, continue | aliases taken over, eviction | the map behaves as a set of conversations |
| Event stream | `src/stream.rs` | receiver, limit, deadline | `listen`, `recv`, `close` | subscribes before it connects, overflow, silent end of the link | nothing missed; a dead link is told |
| Home link | `src/home.rs` | a task per request | `answer_home_requests` | handlers that hang or panic, one send path, the hub's ten seconds | one answer, in time, in the contract |
| Control: sign-in | `src/control.rs` 487-1024 | token, its id, device intervals | `login*`, device login, `revoke_api_token` | lost answers, clones of a plane, several kinds of sign-in | the id names the token held; only dead tokens are forgotten |
| Control: provisioning | 1744-2174 | none | create, provision, delete, wait for admission | several requests, of which any may fail or be answered late | nothing left behind in silence; waits tell what the hub came to |
| Control: configuration, requests | 1026-1742, 2195-2463, `control/bridges.rs` | none | every single request; merges | lost answers, concurrent writers | no lost update |
| Control: skill operations | `control/hub_skills.rs` | none | install, update, remove, wait | a wait abandoned and taken up again, beside other changes | no change is repeated; a wait tells of its own operation |
| Intents | `src/intents.rs`, `src/language_matching.rs` | none across calls | describe, list, merge | many answers under one deadline, retries in other spellings | descriptions are the hub's own; a retry makes nothing worse |
| Inventory cache | `src/inventory.rs` 142-182, 308-431 | a file per key | `load`, `store` | programs that share it and stop anywhere, identity files rewritten | a load is whole, its own and fresh |
| Native authentication | `src/native_auth.rs` | a listener | wait for one redirect | its deadline | the redirect is its own |
| Listings, identity, protocols, hubs, wire, events, rich, hive, context, chat applications, errors, redaction, constants | the rest of `src/` | none | parse, format, encode | nothing concurrent | data |

How they meet: `HubSession` owns a *factory*, normally one that makes a `Client` over a
`RuntimeTransport` and connects it; the transport owns its link, its `NoiseChannel` and broadcast
rings of events; the channel frames messages and reads and writes the key store.  `Client` sends
through the transport and reads replies from a subscription of its rings; so do event streams and the
descriptions of intents.  A link that goes down wakes `stopped()`, which `run` watches; the relay of a
link copies the transport's events to the session's subscribers and handlers, the home link's among
them, whose replies go back through `HubSession::reply`.  `run` tells the outcome of each attempt to
its `LinkSupervisor`.  The control plane only meets the rest through the identity it produces.

## Modules

Names of actions and variables are those of the code where TLA+ has them; the comment above a
definition names what it is not obvious from.

| module | models | composes or implements | proofs |
|---|---|---|---|
| `LinkSupervisor` | `LinkSupervisor::after` and the ladder | | `LinkSupervisor_proof` |
| `SessionRun` | the loop of `HubSession::run` beside `close()`, the dying link and other users | uses the actions of `LinkSupervisor` | `LinkSupervisor_proof` |
| `HubSession` | every operation of the session that takes its lock, the relay of each link | | `HubSession_proof` |
| `SessionHandlers` | handlers, their tasks, state callbacks | | `SessionHandlers_proof` |
| `Connection` | one transport under callers that connect, disconnect, abandon; its cleanups; `stopped()` | | `Connection_proof` |
| `HttpLink` | the link of polled requests | the gate and cleanups of `Connection`, seen from this transport | `Links_proof` |
| `WssLink` | what one connect over WSS comes to, and why | | `Links_proof` |
| `MqttLink` | the link through a broker: event loop, incoming task, queues, lock | the gate, as above | `Links_proof` |
| `NoiseSends` | sends over an established link, for all three transports | connects and cleanups as one step | `Transport_proof` |
| `NoiseFraming` | chunking, counters, reassembly | implements `MessageChannel` (`DeliversInOrder`) | `Transport_proof` |
| `NoiseHandshake` | what client and hub agree on, and what a failed handshake leaves | | `Transport_proof` |
| `MessageChannel` | what an encrypted link promises | | |
| `KeyStore` | the Noise state folder, its files and its lock | | `Transport_proof` |
| `EventStream` | `listen` and `recv` over a link that ends and returns | | `Links_proof` |
| `Replies` | asks, queries and utterances on one transport | | `Client_proof` |
| `Conversations` | the map of conversations | implements `ConversationSet` (`OneMemory`) | `Client_proof` |
| `ConversationSet` | what a client's memory promises | | `Client_proof` |
| `Describe` | `describe_many`, window by window | | `Client_proof` |
| `IntentListing` | the listing per language, its retries and fallbacks | tags of `EnglishTags` in the runs | `Client_proof` |
| `InventoryMerge` | how rows become one intent | | `Client_proof` |
| `InventoryCache` | inventories kept on disk by several programs | | `Transport_proof` |
| `HomeLink` | answers to the hub's home requests | the send path of `NoiseSends`, as one lock | `Client_proof` |
| `SignIn` | tokens of control planes | | `Control_proof` |
| `Provisioning` | connections of a kind, and their admission | | `Control_proof` |
| `RuntimeConfig` | merges into a group's configuration | | `Control_proof` |
| `ControlRequests` | every method of one request, and how it is sent | | `Control_proof` |
| `SkillOperations` | a skill changed on a hub, and the wait for it | | `Control_proof` |
| `MC...` | instances for TLC | below | |

`MCTransport`, `MCTransportLive`, `MCSessionLive`, `MCClient` and `MCControl` put the components of one
layer into one specification: a variable `component`, chosen in the initial state, says which of them
moves, and the others rest in an initial state of their own.  They share no state in these modules,
so that every behaviour of each component alone is one of the suite, and nothing else.  Where a component's initial
states are many (the hub's manifest, the folder's pins), the suite pins them for the behaviours of
the *other* components.  Each property of a suite is one component's, or a conjunction over
components that promise the same.

### Session

`LinkSupervisor`: `wait` and `refusedSince` are the fields of the struct; `decision` is what `after`
returned last.  `Observe` calls it with any outcome at any time not before the last, up to `Horizon`.
`SessionRun`: `pc` is the place in the loop: registering with `wake`, the check of `closed`, the look
at the held link, the watch of it (`select!` of the probe timer, the stop of the link and `wake`), the
re-check under the lock, the dial, the decision, the wait.  A dial of another caller is one step here.

`HubSession`: a task is at a step `pc[p]` of an operation `op[p]`; between two steps lies an await, or
the end of a critical section.  `lock` is the tokio mutex around `Held` (`client`, `retired`); the
retry state, the event generation and the flags have locks of their own and are changed where the code
changes them.  `mine[p]` is a client built and not yet held.  `Cancel` drops a future at any await,
with what its drop guards do.  A link's close may fail or succeed; it may die at any time; the factory
may fail, and after `MaxLinks` always does.  The relay of a link receives from a ring of `Buffer`
events and skips to the oldest kept when it lags.

`SessionHandlers`: one `on()` per handler.  `stage` follows it from its look at `closed` through the
list to the end of `retire`; `entries` is the task map, `live` the tasks that have not ended, `aborted`
those whose handle was aborted.  `dispatch` is cut in two, the copy of the list and the start of each
task, since the list's lock is released between them; a handler that panics loses the rest of its
dispatch.

### Links

`Connection`: `gate` is `ConnectionControl.gate`, held by a caller through its attempt or by a cleanup.
The atomics (`generation`, `cancelled`, `active_attempt` as `attempting`, `session_valid` as `valid`)
are written one step at a time: `disconnect()` writes them without the gate, between any two steps of
an attempt.  `retired` is a `Notify`: it wakes the attempts that have enabled it (`Armed`) and no
others.  `pending[g]` counts the cleanup tasks of generation `g` that wait for the gate; each holds it
through `disconnect_inner` unless its budget runs out (`CleanupGivesUp`).  Abstractions: an aborted
task runs no further (in the code, to its next await; so in every module); timers may pass at any time.

`HttpLink`: a request is one step with the outcome the network gives it (`Fates`): lost, acted on with
its answer lost, or answered; a caller that stops waiting loses the answer.  `dial` walks through the
reset of an admitted session, `/connect`, the polls of the handshake and its answer, for KK and then
XX.  Poll tasks are numbered: `pollTask` is the one kept, the others may still say their last words.
What is asked of the hub is what the comments in `connect_locked` rest on: it offers a session only to
a client that was not registered, and hands out each message once.

`WssLink`: the world is chosen in `Init`: is the password right, does the hub know this client's key
and its access key, is the pinned key the hub's, what PSK is cached, do callers wait for their
connects (`patient`) or may they cut them off.  The hub (`Authentic`, `HubRefuses`, external) refuses
only for a reason that is the case; it may drop the link or be silent at any time.  The reader tells
of a close in the steps the code has: verdict and flags (`ReadClose`), `mark_disconnected`
(`CloseMarks`), `last_error` (`CloseTells`), the wake-up (`ReaderEnds`).  What a hub means by a close
right after XX is the SDK's own reading of hivemind-core.  A receive is one step; in the code the
handshake runs on a blocking thread that an aborted reader leaves behind, with the same effect.

`MqttLink`: `requests` and `received` are the two bounded queues, `lock` the Noise channel's, which the
incoming task, a sender and the loop's last words contend for.  A full queue of received frames breaks
the loop; a full queue of requests makes whoever publishes wait, with the lock, for the loop.

`NoiseSends`: `path` is what serialises writes, the writer's lock over WSS, the gate over the other
two.  A sender's wait (`caller`) and its write task (`task`) are apart: a caller may leave (`Leave`)
and the task goes on, a `disconnect()` strikes it (`Retire`, `Stop`), and what is struck half way
spoils the session (`Spoil`).  `wire` is what the hub received.

`NoiseFraming`: a frame is its counter, its marker and how much of which message it carries; `transit`
is a sequence from which the network drops, repeats and reorders.  The cipher is the library's: a frame
opens under its own counter only.  `NoiseHandshake`: a message that is authenticated is what it depends
on (prologue, PSK, expected key), and is read by whoever computed the same; the hub and the network are
external, the network reverses the fields of a clear message and changes one clear message of an
attempt.  `InventoryCache`: `files` is every file made, `entry` what has which name; a loss of power
takes what was not synced, and may take renames; `about` is what a caller stored or asked for, which
`key` sees only through the identity file.  `KeyStore`: two folders, the identity's own and the default one that
it adopts once; each file changes in one step, as a rename does; a process may crash between any two
steps and any write may fail.  `EventStream`: `events` is everything the ring was ever sent, `position`
the receiver's place in it; the probe of a silent link is the code's, and a link that came back is not
a dead one.

### Client

`Replies`: `log` is what each ring was ever sent, `seen` the receiver's place in it.  An ask reserves
its id, connects, subscribes, publishes and collects: `deadline`, `emptyAt` and `settleAt` are the
windows of `collect_ask_reply`, and `write` the transport's write, which may outlast the collection.
The clock does not move while a collector has something to do.  Left out: the cap of 1024 on untracked
sends, the media budget, and a ring that closes.  `Conversations`: one entry per session id that
reaches a conversation, each carrying the group of its ids; the refinement mapping takes the distinct
entries as the set.  `Describe`: the hub answers each request never, once or twice, with or without its
id, among other programs' answers and denials; `window` and `kept` are the windows of `DESCRIBE_BATCH`
under one deadline.  `IntentListing`: a listing is how many of its rows carry sentences and how many
cannot; a request may be refused, answered `ok: false`, left unanswered or cut off.  `InventoryMerge`:
the loop of `inventory` over rows in any order.  `HomeLink`: the answering task and the handler's task
are apart, and the reply's write is a task of its own once it holds the path.

### Control plane

In all of these the API acts in one step and its answer, or the lack of one, is heard in another, and
other programs change its resources in between.  `SignIn`: planes are used by one task at a time (the
methods take `&mut self`), some are clones of others.  `Provisioning`: `call` is where the SDK is and
what it holds (the ETag, the clock of a wait, the wait a 429 asked for).  `RuntimeConfig`: a value per
leaf stands for a document; `said` keeps what the accepted writes say.  `ControlRequests`: a method is
its verb, whether it carries the token and a body, and its header; tables of them stand for the methods
of `ControlPlane`, and one set of actions for how each is carried out.  A create
under a repeated idempotency key is not followed further: that it makes one hub is the API's promise.
`SkillOperations`: changes, each one request that the hub takes as an operation of its own
(`operations` is what each came to, `changes` how many were asked for), and waits for any of them
that are abandoned and resumed.  A request given up before the hub took it never arrives, or is as one
it took just before: the caller cannot tell.

## Runs

Every run is exhaustive within its bounds.

| run | instance | question |
|---|---|---|
| `hub_session` | two callers, two warm tasks, any cancellation, two links of two events, a buffer of one | Who owns which link, and what subscribers see |
| `session_handlers` | two handlers, a callback, two relays, two events | `off` and `close` are final, maps exact, callbacks told the truth |
| `session_live` | supervisor: ladder 1, 2, 4, 5, grace 4, clock to 9; `run`: ladder 1, 2, 2, grace 2, clock to 2; session: one caller, a warm task, one link of two events, a buffer of one | Gives up exactly when the grace is over; `run` takes down no live link, climbs its ladder from the start after each link it dialled, ends when closed, redials a drop at once; every operation ends, every event arrives or is announced as lost |
| `transport` | lifecycle: two callers, two attempts, a disconnect; HTTP: three connects, three poll tasks, two events; MQTT: queues of one, messages of two frames, two connects, two events; WSS: two attempts; sends: two senders, two sessions, two frames; framing: chunks of two, a cap of six, two messages of up to seven; store: two processes of two operations, two hubs, two keys; handshake: two suites, two connects; cache: a reader, a writer, two hosts, two stores, a time to live of 0 of a clock to 1; stream: a ring of one, three events, two links | Every safety property of the links |
| `transport_live` | lifecycle: a caller, a watcher, an attempt, a disconnect; WSS: two attempts of a client that meets its hub for the first time; MQTT: one connect, one event; stream as above | Cancelled links close; whoever waits for a link hears of its end |
| `client` | replies: two operations with two ids, timeout 3, windows 2 and 1, grace 1, a ring of one; conversations: four session ids, two conversations of two aliases, three turns; describe: three registrations in windows of two, a ring of two, two copies; listing: two spellings of English, four tags; merge: two languages, three rows; home: two requests, handler 2, bound 3 | What a client makes of late, foreign, repeated and refused answers |
| `control` | sign-in: two planes, two device or native tokens, a session, four calls; provisioning: three foreign changes, poll 1, timeout 4; configuration: two writers, two leaves, four revisions; requests: two callers, two calls each; skills: two changes, poll 2, timeouts 0, 1, 3, two waits | Nothing lost, nothing doubled, nothing forgotten over lost answers |
| `session_run_refusals` | other users of the session, grace 2, clock to 4 | *violated*, finding 1 |
| `session_handlers_closed` | one handler, one relay | *violated*, finding 2 |
| `wss_link_late` | one attempt | *violated*, finding 3 |
| `home_link_late` | two requests | *violated*, finding 4 |
| `intents_given` | en-CA and en-US | *violated*, finding 5 |

**What the properties say**, where the name does not.  `OneOwner`: two links are never open, and an open
one is held, kept to be closed or in the hands of its builder.  `BusInOrder`: links in order, the events
of each in order, none twice and none missing but those a lag announces.  `NoSilentSwap`: a client is
announced down before another is up.  `HandlersAreExact`: a handler's map is exactly what runs, and
nothing outlives `off`.  `NoOrphan`: a cancelled link is owed a cleanup of its own generation.
`NoOrphanPeer`: the hub has no HTTP registration the client does not know it has to end, but for a
`/connect` that went unanswered.  `NoSilentGap`: while the link is told to be up, what the hub handed
out was dispatched.  `StoreAgrees`: whoever uses the store has the key it keeps, no pin is undone by
another process or a crash, an adopted key comes with its pins; and the inventory cache holds whole inventories, of which a load
gives one that is fresh and of the hub its key was taken for.  `NegotiationAgrees`: a session runs on
the best suite and the pattern both have, whatever was changed on the way, with the hub's own key
pinned; a connect is told of credentials that do not fit, or of a changed key, only when that is the
case, but once when the cached PSK was an earlier password's.  `SendsAreWhole`: whole messages, in
counter order, and nothing of a sender that left before its turn.  `NothingSkipped`: for MQTT and for
event streams, nothing sent is missing from what was handed over; and a link told to be up is driven.
`AnswersAreTrue`: an answer was said to its own operation, one that reports silence was told nothing
in time, and no window of an ask opens twice.  `RefusalNotStolen`: a refusal without an id ends an ask only if
the client was waiting for nothing else it could mean.  `ListingIsSteady`: a retry gives no less than
the first listing, and in which languages an intent is listed and has sentences, and whether it is
enabled, does not depend on the order of its rows (which sentences, of several, does).
`StaleLookIsHarmless`: `run`, which decides from a client it cloned before its awaits, takes down no
live link another caller built meanwhile, and the first wait after a link it dialled is the first step
of the ladder.  `UnwantedGoneOrTold`: a connection of the wrong kind is said to be deleted only when it
is gone, and when it is left the call has failed: with its id, with what was made when the answer gave
no id, or as a create that failed when its answer was lost.  `WaitsAreTrue`: the wait for admission
says admitted only when the hub is ready or no longer tracks the operation, failed with the hub's error
only when the hub failed (a refused poll, also `AdmissionFailed`, is apart: `admission_refused`), timed
out only when its time is over or a 429 asks for more than is left; it never outlasts its timeout and
polls no earlier than a 429 asked; a skill wait tells of its own operation, and of a timeout only when
the whole time of that wait is over.
`TokensAreTrue`: the token id is that of the token held, only a token the API has revoked is
forgotten, and every `slow_down` is obeyed for good.
`NoLostUpdate`: a configuration is what its accepted writes say one after the other, a hub changes
only from the version its caller read.  `DoneOnce`: the hub, which takes every request that reaches it as
a change, takes no more changes of skills than the caller asked for, however often a wait is given up
or taken up again.

**Why the bounds are enough.**  The supervisor's ceiling is, as with the default policy, no doubling
of its first step, and the clock sees two graces.  Two links show a link replaced while the one before
it still cannot be closed; two warm tasks a second `warm()` and one aborted before it ran; a ring of
one with two events is a lag.  In `Connection` two callers are a joiner and an owner, two attempts let
a cleanup of the first meet the second.  Three HTTP connects with three poll tasks are a failed one, its
successor and a late word of each task.  Queues of one with messages of two frames are full in the
middle of a message.  Lengths to seven with chunks of two and a cap of six cross the chunk boundary,
the cap and the last, shorter chunk.  Two connects are one that leaves a pin or forgets a PSK and one that finds it.  Two stores of the cache
let one replace a file while it is read.  Two processes of two operations are a reader and a writer of each
file, with a crash of either.  Two operations with two ids are every meeting of an ask, a query and an
utterance under the same or another id.  Four session ids for two conversations of two aliases reach
eviction, takeover and repeated ids in three turns.  Three registrations in windows of two put a late
answer into the next window.  Two planes, one a clone of the other, hold the same token, and four calls
are two sign-ins and two revokes.  The bounds are CONSTANTS, which the configurations give: the
safety properties are also proved for every value of them (below).

**Symmetry** permutes callers, warm tasks, handlers, callbacks, operations or ids, in runs without
liveness properties.

**Deadlock** is checked in `hub_session`.  The other specifications may rest: `run` has returned, every
call of a bounded number was made, a transport is down and nobody uses it, an answer was given.

**Fairness.**  It is that of the runtime and of deadlines the code sets, never of the hub, the network
or an application.  `SessionRun`: `run` and a called `close()` are tasks the runtime polls; no timer,
hub or other caller is fair, so `CloseEndsRun` and `DropRedialledAtOnce` hold without a timer passing.
`HubSession`: every await under the lock has a deadline (the connect timeout, the reply timeout, the
settle window, the close's own), hence weak fairness of a task's progress; tokio's mutex is first come,
first served, hence strong fairness of getting it.  `Connection`: every await of an attempt or a cleanup
is under `timeout_at` or its budget, and the gate is a tokio mutex too; the reader, that is the hub, is
not fair.  `WssLink`: the connect's own steps and the reader's are polled, no twenty seconds pass.
`MqttLink`: the loop's end, the incoming task's and a sender's own steps are polled (weak); those that
need the Noise lock, or room in a queue the loop empties, get it in turn (strong).  That a sender's
publish fails once the loop has dropped its end of the queue is what lets go of the lock
(`EndReleasesConnect`).  `EventStream`: a pending `recv()` is polled, its deadline and its probe are
timers that fire.

## Proofs

`tlapm` checks every theorem for every value of the constants that satisfies the module's named
assumption: sets of tasks, links, senders, programs and requests of any size, and any bound where a
configuration gives one.  The assumptions say only that `None` is none of the values it stands apart
from, that capacities and times are natural numbers, that the supervisor's ceiling is at least its first
step, that suites and registrations are listed once.

The components of a suite have their theorem each (`...Spec => []...`), and one for the whole: a lemma
`...IsAComponent` shows that every behaviour of, say, `TransportSpec` is one of the component, which
either moves alone or rests, so that what the run checks of `TransportSpec` is proved of it.

Where a proof needs the first, the least or the last of some things, or goes by induction over the
length of a list, it takes the least element of a set of numbers (`LeastIndex`, `LeastNumber`), which
the library's theorem on well-founded sets gives.

* `LinkSupervisor_proof`.  `TypeOK` and `ClockStartsAfresh` are inductive together; the step
  property `GivesUpOnlyAfterGrace` follows from them, since `refusedSince` is never older than the
  last outcome that was no refusal.  `NeverOverstaysGrace` needs no invariant, only the cases of
  `After`; together they are `GraceIsExact`.  For `run`, `FreshInv`: as long as no step
  of the ladder was handed out since it dialled a link, the ladder is where it begins, or is about to be
  reset by the success it is told next; what an attempt's outcome does to the ladder
  (`AttemptIsTold`), and that a drop leaves it (`DropIsTold`), then give `StaleLookIsHarmless`.
* `HubSession_proof`.  None of the ownership invariants is inductive alone.  `LockInv` says that the
  steps of `Inside` are those of the task that holds the lock, so that at most one task is in one;
  `MineInv` that a task has a client in hand exactly in the building steps; `HeldInv` at which steps
  `Held` is known to be empty, and that a held and a retired client exclude each other; `ClosedInv`
  that nobody is past the check of `closed` once a `close()` succeeded.  With them `NothingLost` is
  inductive.  `OneLink` follows: held, retired and in hand exclude each other, so there is one place
  for an open link; the two are `OneOwner`.  `ClosedForGood` and `NoSilentSwap` follow too.
  `BusInOrder` needs to know how far each relay is: links are built one after the other and whoever has
  one in hand has the newest (`NewestInv`); the relay of the held client has forwarded what it took but
  for the event it has in hand, and the relay of any other link forwards nothing (`ForwardInv`).
* `SessionHandlers_proof`.  `ExactInv` (the map is exact until it is drained) and `RetiredInv` (the
  mark is set with the drain, under one lock) make `AbortInv` inductive: what runs of a retired
  handler is aborted or among the handles still to abort.  `OffIsFinal` is its last conjunct, and with
  `MapIsExact` it is `HandlersAreExact`.  `ToldInv` gives `CallbacksAlternate`: what a callback on the
  list was told last is how the link is, unless the announcement under way has not reached it yet.
* `Connection_proof`.  The gate carries it: who holds it is alone at its steps (`GateInv`), so
  generations do not run ahead and a cleanup that found its own current keeps it so while it works
  (`GenInv`, hence `OnlyOwnLink`).  `disconnect` takes no gate, so three more say who answers for what
  it left: a struck attempt is woken or about to be (`StruckInv`, hence `StruckAttemptsStop`); a
  cancelled attempt, and a cancelled link no attempt will take down, is owed a cleanup of the current
  generation (`OwedInv`, `LeftInv`, hence `NoOrphan`); and while nobody takes a link down or sets one
  up, reader, socket and generation agree (`CalmInv`, hence `HealthIsReal`).
* `Links_proof`, of the links and what listens to them.
  - HTTP.  `GateInv` keeps connects and polls apart.  `PeerInv`: a connect asks for a session only
    where no admitted one is left, so that a registration the hub has handed events to is one the client
    has to end (`NoOrphanPeer`).  `QueueInv`: sessions are told apart, and while the channel is ready what
    the hub's queue holds and what was dispatched make up what was sent in it (`NoSilentGap`).
  - MQTT.  `ServedInv`: a link told to be up is driven, and a cleanup works on a cancelled transport.
    `TransitInv` is the conservation law: either a frame that ends the link is on its way, or what was
    handed on, what the incoming task has and what is queued for it are, in this order, all the events
    of the session.
  - Event stream.  `StreamInv`: what was handed over is, in order, the matching events between the
    listener's start and its place in the ring.  `NothingSkipped` says that by the set of indices handed
    over and their order, the statement a filtered sequence would make.
  - WSS.  `PinIsKept` is a step property: the pin is only written where none was.  `TellsWhy` needs to
    know, at every step of a connect that nobody cuts off, what the reader has said (`ReaderInv`,
    `UnsaidInv`), how far the channel is (`ChannelInv`), what KK's failure means (`KkInv`) and that a
    refusal has its cause (`ReasonInv`).
* `Transport_proof`, of the channel and what is kept on disk.
  - Sends.  Only the holder of the path writes (`HolderWrites`), and a message half on the wire is
    its own or has spoilt the session; `CipherInv` relates the counter to the last frame on the wire:
    the next frame either continues that message or starts a new one.  `LateIsUnsent` is the rest of
    `SendsAreWhole`.
  - Framing.  `NoiseFraming` implements `MessageChannel`.  `FramingInv` says where each message's
    counters begin, that every frame on its way is a piece of the message its counter belongs to
    (`Genuine`), and that the receiver stands before the next message or within it, with its first
    pieces (`Between`, `Within`).  As messages' counters do not overlap, the one frame that opens is the
    piece that follows (`NextInTurn`), and pieces put side by side make the payload (`ChunksCover`,
    `PartsJoin`).  It holds for messages and chunks of any length.
  - Key store.  `LockInv`: who is between look and write holds the lock.  `ReadInv`: what a process has
    read of a file it will write is still in it.  `CoverInv`: a folder with
    the default folder's key has the pins that came with it, unless a pin was saved by hand before there
    was a key (`Preseed`, the known case below).
  - Inventory cache.  `PublishedInv` (whatever a name leads to, or may lead to after a loss of power, is
    whole, synced and of its key), `MakerInv` (a file in the making has one maker and never had a name),
    `LoaderInv` (what a load opened was published under its key, and was fresh when it looked).
  - Handshake.  `MessagesInv` says what each side's message depends on, so that two that authenticate
    were computed from the same terms; with `FailsForReason` it is inductive, and a session that
    finished has the terms both would choose.  The preferred suite is the least index both have; that a
    non-empty set of indices has a least one is by well-founded induction from the library.
* `Client_proof`, of a client on one link.
  - Home link.  `HomeInv`: a reply has the send path from the start of its write until it is heard
    (`Unheard`), is heard once, as it was made, and then nothing is left of its call (`Heard`); one that
    still waits for the path has not been given up on (`InTime`).
  - Describe.  `DescribeInv`: everything in the buffer under our ids, or under none, is the hub's answer
    to the registration it names; what is described was answered; and a time out keeps the windows that
    are over.
  - Replies.  `Stage` says what an operation has at each of its steps; `Knows` that what it acts on is
    what it has read of its own, that a window is counted from the first event that opens it, and that
    what it has not read arrived this instant; `SpokenLate` that what was said to an operation that
    reports silence came when its window was over; `Logged` that the hub answers what was written, by
    its id, on its ring; `Apart` that an id is shared by an ask and a query only.  They give
    `AnswersAreTrue`; `RefusalNotStolen` follows from the guards of `RefusalBelongs` once the types are
    known.
  - Conversations.  `StoreOK`: the entries of one turn are equal, their group lists each of the ids that
    hold them, once.  What a turn takes over is then whole conversations (`KnownTakenOver`), so that the
    rest of the map is the conversations it did not touch (`WithoutWhole`), with one more (`OneMore`),
    without the oldest when that is one too many (`OldestGoes`): a step of `ConversationSet`.  What the
    take-over loop yields for groups of any length (`JoinedHasAll`) is an induction, by least
    counterexample.
  - Listing.  `ListingInv`: a language under way holds a listing worth its first one at least.  A better
    one is taken from the hub's languages only where one has sentences (`NearestHasSentences`), for any
    manifest, tags and distances.
  - Merging.  `MergeInv`, which is `RowOrderFree` with the types of what was read.
* `Control_proof`, of the control plane's client.
  - Configuration.  `BaseInv`: who is about to write has read what still is the API's, or names an older
    revision and will be refused.
  - Requests, skills.  A version is made from the one before (`RequestsInv`); a change on its way is one the
    hub has not taken yet, what is waited for is an operation it has taken, and what that came to stays
    (`SkillsInv`).
  - Provisioning.  `GoneInv`: a connection nobody asked for exists only while its create or its delete
    is under way, or after a call that failed.  `PatienceInv`: what a poll heard is still so, the wait a
    429 asked for is over when the next poll is due, and what a wait returned is borne out by what it
    heard last and when.
  - Sign-in.  `AnswersInv`: an answer that will make a plane take or forget a token says what is so at
    the API.  `GrantsInv`: a device code belongs to one call until the application has it.
    `IntervalsInv`: the interval kept is what the running poll waits, and as long as every `slow_down`
    asks.

**Only model-checked**, and why: every liveness property, as the prover has no ENABLED.

The modules state more than the runs check: type invariants, and some properties that a reader may want
to try (`WarmCoalesced`, `SentIsWhole`, `RetireFreesPath`, `CleanConnectSucceeds`,
`InexactIsLeftAlone`).

## Findings

Each is the one property of a run that TLC finds violated.

1. `session_run_refusals` - `run` tells its supervisor of an up link only when it dialled it
   itself.  A link that `ask`, `emit`, `reply` or `warm` built does not restart the refusal clock, so
   `run` may give up on refusals that did not last the grace.
2. `session_handlers_closed` - `on()` looks at `closed` before it takes the handlers' lock; a whole
   `close()` fits between, and a relay still in `dispatch` then starts a task that the closed session
   owns.
3. `wss_link_late` - a refusal that follows KK at once may reach the caller as a timeout: `connect()`
   reads `last_error` before the reader has set it.
4. `home_link_late` - a home reply that is being written when the hub's ten seconds pass is called
   withdrawn, but its detached write goes on and may reach the hub.
5. `intents_given` - when two languages asked for come to one listing, the rows listed last replace
   those listed first, also with less than the first language was given.

Known, and no run of their own:

* The reader of an abandoned WSS connect may leave its verdict between the next attempt's reset of it
  and that attempt's `disconnect_inner`; the next attempt types its own failure by it
  (`VerdictIsOwn` of `WssLink`; while callers wait for their connects it holds, `WaitedVerdictIsOwn`).
* `connect()` takes its generation before it clears `cancelled`, so a `disconnect()` in between is
  forgotten but for its cleanup, which is one of the new generation; when that cleanup runs out of its
  budget after it stopped the reader, the link reads healthy (`HealthIsReal` excepts `gaveUp`).
* `connect()` of the session, cancelled in the settle window, drops a client that is neither held nor
  retired (`abandoned` in `HubSession`); the documentation leaves cleanup after cancellation to the
  factory and does not speak of that window.
* A pin saved by hand (`save_noise_pin`) into a folder that has no key yet keeps an adoption from taking
  the default folder's pins, although it takes its key (`AdoptionWhole` of `KeyStore` with
  `Preseed = TRUE`).
* A connect that takes the PSK of an earlier password from the cache is told that this password was
  refused, although it is right; the PSK is forgotten and the next connect derives it anew
  (`FailsForReason` of `NoiseHandshake`).
* A refusal without an id may end an ask that it did not refuse, when what it refused is an operation the
  client no longer waits for or an utterance older than the grace (`RefusalIsOwn` of `Replies`).  The
  comment above `UNTRACKED_UTTERANCE_GRACE` accepts that.
* A control-plane answer that breaks off after a status of success is told as unreachable
  (`src/control.rs` 2260), which `src/errors.rs` 672-675 describes as a request that never got an
  answer: the change it made may have been made.

## Plan

The model covers the components the inventory lists as concurrent or failing, and every safety property
of a passing run is proved.  What is left are the four hazards without a property, whose notes say what
a model of each would need.

## Not modelled

Cryptography (Noise, argon2, TLS) and the sockets are libraries: an answer authenticates or does not.
Parsing, formatting, titles and listings of an inventory, rich messages, chat-application shapes, redaction and error texts keep
no state and meet no concurrency; the classification of an error, where a property depends on it, is
with its user (`WssLink`, `Provisioning`, `ControlRequests`).  `OriginPreference` is one cooldown under
its own lock: what could be said of it restates its comparison.  `native_auth.rs` waits for one
redirect; what a sign-in makes of it is in `SignIn`.  Of the intents, the rendering of templates and
slots is text.  The drop of an attempt outside a runtime, where no cleanup can be spawned, is left out
of `Connection`.
