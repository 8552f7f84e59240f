--------------------------- MODULE NoiseHandshake ---------------------------
(***************************************************************************)
(* What a client and a hub agree on in a Noise handshake: the choice of    *)
(* pattern and suite (`select_noise_options`), the prologue both compute   *)
(* over the clear messages (`canonical_json`, `build_prologue`), the       *)
(* messages of KKpsk0 and XXpsk2 (`NoiseHandshake`), with the pins and the *)
(* cached PSK that `NoiseChannel::start` and `continue_handshake` use.     *)
(*                                                                         *)
(* The hub is external, and so is the Noise library: a message that is     *)
(* authenticated is read by whoever computed the same protocol name,       *)
(* prologue, PSK and keys, and by nobody else.  The clear messages may     *)
(* reach the client with their fields in another order, and one of them in *)
(* an attempt changed.                                                     *)
(***************************************************************************)
EXTENDS Integers, SequencesExt

CONSTANTS
    Suites,         \* NOISE_SUITES, in this client's order
    Nodes,          \* node ids
    HubKeys,        \* static keys a hub may have
    None,
    MaxConnects     \* bound: connects

HandshakeAssumption ==
    /\ Suites \in Seq(STRING) /\ MaxConnects \in Nat
    /\ None \notin Nodes \cup HubKeys

Patterns == {"KKpsk0", "XXpsk2"}

VARIABLES
    hub,            \* the hub: its node, key and offer, and whether it keeps
                    \* this client's key
    password,       \* is the identity's password the hub's
    pins, psks,     \* noise_pins.json and the PSK cache, by node
    pc, connects, forceXX, kkFailed,
    hello, offer,   \* the clear messages as the client read them
    mine,           \* the client's handshake: what its messages depend on
    envelope,       \* the pattern and suite the hub read
    answer,         \* what the hub's answer depends on, or None
    error,
    altered, stale  \* history: a message was changed on its way; the PSK came
                    \* from the cache, and was not the password's

handshakeVars == <<hub, password, pins, psks, pc, connects, forceXX, kkFailed,
                   hello, offer, mine, envelope, answer, error, altered, stale>>

heardVars == <<hello, offer>>
storeVars == <<pins, psks>>

\* `derive_psk`: fixed for a password and a node id.
DerivePsk(right, node) == <<right, node>>

HandshakeInit ==
    /\ hub \in [node : Nodes, key : HubKeys, patterns : SUBSET Patterns,
                suites : SUBSET Range(Suites), knows : BOOLEAN]
    /\ password \in BOOLEAN
    /\ pins \in [Nodes -> HubKeys \cup {None}]
    /\ psks \in [Nodes -> {None, "right", "wrong"}]
    /\ \A n \in Nodes \ {hub.node} : pins[n] = None /\ psks[n] = None
    /\ pc = "rest" /\ connects = 0 /\ forceXX = FALSE /\ kkFailed = FALSE
    /\ hello = None /\ offer = <<>> /\ mine = None /\ envelope = None
    /\ answer = None /\ error = "none" /\ altered = FALSE /\ stale = FALSE

\* The fields of the hub's parameters, in the order it writes them.
Offers(patterns, suites) == <<<<"patterns", patterns>>, <<"suites", suites>>>>

-----------------------------------------------------------------------------
(* noise.rs.                                                               *)

\* The first of this client's suites that the hub has, with KK when the hub is
\* pinned and offers it.
SelectNoiseOptions(patterns, suites, pinned) ==
    LET common  == {i \in DOMAIN Suites : Suites[i] \in suites}
        offered == {p \in patterns : p = "KKpsk0" => pinned # None}
    IN  IF common = {} \/ offered = {} THEN None
        ELSE [pattern |-> IF "KKpsk0" \in offered THEN "KKpsk0" ELSE "XXpsk2",
              suite |-> Suites[CHOOSE i \in common : \A j \in common : i <= j]]

\* Whatever their order, the same fields are the same bytes.
CanonicalJson(message) == Range(message)

BuildPrologue_NameOnly(said, offered, name) == <<name>>

BuildPrologue(said, offered, name) == <<said, CanonicalJson(offered), name>>

\* What an authenticated message depends on.  KK is bound to the key the
\* client expects of the hub, XX learns it.
Handshake(said, offered, name, psk, key) ==
    [prologue |-> BuildPrologue(said, offered, name), psk |-> psk,
     key |-> IF name.pattern = "KKpsk0" THEN key ELSE None]

-----------------------------------------------------------------------------
Fails(why) ==
    /\ pc' = "failed" /\ error' = why
    /\ mine' = None /\ answer' = None /\ envelope' = None

\* `connect_kk_then_xx`: a connect makes one attempt, and a second, of XX, if
\* the first was a KK that did not authenticate.
Attempt(xx) ==
    /\ forceXX' = xx /\ kkFailed' = FALSE
    /\ pc' = "hello" /\ error' = "none"
    /\ hello' = None /\ offer' = <<>> /\ mine' = None /\ envelope' = None
    /\ answer' = None /\ altered' = FALSE /\ stale' = FALSE
    /\ UNCHANGED <<hub, password, storeVars>>

Again == pc = "failed" /\ kkFailed

Connect ==
    /\ pc \in {"rest", "failed", "done"} /\ ~Again /\ connects < MaxConnects
    /\ connects' = connects + 1
    /\ Attempt(FALSE)

ThenXX == Again /\ Attempt(TRUE) /\ UNCHANGED connects

\* The hub's HELLO, which has to name a node.
ReadHello ==
    /\ pc = "hello"
    /\ \E node \in Nodes \cup {None} :
          /\ hello' = node /\ altered' = (node # hub.node)
          /\ IF node = None THEN Fails("no_node")
             ELSE pc' = "offer" /\ UNCHANGED <<mine, envelope, answer, error>>
    /\ UNCHANGED <<hub, password, storeVars, connects, forceXX, kkFailed, offer, stale>>

\* `start`: the pin and the options, then the PSK, from the cache or derived.
\* The cache takes a derived PSK unless that write fails.
Start ==
    /\ pc = "offer"
    /\ \E patterns \in SUBSET Patterns, suites \in SUBSET Range(Suites) :
          /\ offer' \in {Offers(patterns, suites), Reverse(Offers(patterns, suites))}
          /\ altered => patterns = hub.patterns /\ suites = hub.suites
          /\ altered' = (altered \/ patterns # hub.patterns \/ suites # hub.suites)
          /\ LET pin    == IF forceXX THEN None ELSE pins[hello]
                 name   == SelectNoiseOptions(patterns, suites, pin)
                 secret == IF psks[hello] # None THEN psks[hello]
                           ELSE IF password THEN "right" ELSE "wrong"
             IN  IF name = None
                 THEN Fails("no_options") /\ UNCHANGED <<psks, stale>>
                 ELSE /\ mine' = [name |-> name,
                            says |-> Handshake(hello, offer', name,
                                               DerivePsk(secret, hello), pins[hello])]
                      /\ psks' \in {psks, [psks EXCEPT ![hello] = secret]}
                      /\ stale' = (password /\ secret = "wrong")
                      /\ envelope' = name
                      /\ pc' = "sent" /\ UNCHANGED <<answer, error>>
    /\ UNCHANGED <<hub, password, pins, connects, forceXX, kkFailed, hello>>

-----------------------------------------------------------------------------
(* The hub, external.                                                      *)

\* The same handshake, from the hub's side, for the name it read.
HubSays(name) ==
    Handshake(hub.node, Offers(hub.patterns, hub.suites), name,
              DerivePsk("right", hub.node), hub.key)

\* The envelope that names the pattern and the suite is clear as well.
EnvelopeChanges ==
    /\ pc = "sent" /\ ~altered
    /\ \E s \in Range(Suites) \ {envelope.suite} : envelope' = [envelope EXCEPT !.suite = s]
    /\ altered' = TRUE
    /\ UNCHANGED <<hub, password, storeVars, pc, connects, forceXX, kkFailed,
                   heardVars, mine, answer, error, stale>>

\* The hub's part: a first message of KK authenticates, one of XX cannot.
HubAccepts ==
    /\ envelope.pattern \in hub.patterns /\ envelope.suite \in hub.suites
    /\ envelope.pattern = "KKpsk0" => hub.knows /\ mine.says = HubSays(envelope)

HubAnswers ==
    /\ pc = "sent" /\ HubAccepts
    /\ pc' = "answer" /\ answer' = HubSays(envelope)
    /\ UNCHANGED <<hub, password, storeVars, connects, forceXX, kkFailed,
                   heardVars, mine, envelope, error, altered, stale>>

\* A handshake that ends unfinished forgets the PSK it used.  A hub that closes
\* on a KK with a refusal makes the connect try XX; one that just goes does not.
HubCloses ==
    /\ pc = "sent" \/ pc = "answer"
    /\ \E refuses \in BOOLEAN :
          /\ refuses => pc = "sent" /\ ~HubAccepts
          /\ Fails(IF refuses THEN "refused" ELSE "dropped")
          /\ kkFailed' = (refuses /\ mine.name.pattern = "KKpsk0")
    /\ psks' = [psks EXCEPT ![hello] = None]
    /\ UNCHANGED <<hub, password, pins, connects, forceXX, heardVars, altered, stale>>

-----------------------------------------------------------------------------
(* `continue_handshake`.                                                   *)

\* The answer is not this handshake's: the cached PSK goes, a pin never.
Unauthentic ==
    /\ pc = "answer" /\ answer # mine.says
    /\ Fails("unauthentic")
    /\ kkFailed' = (mine.name.pattern = "KKpsk0")
    /\ psks' = [psks EXCEPT ![hello] = None]
    /\ UNCHANGED <<hub, password, pins, connects, forceXX, heardVars, altered, stale>>

\* XX has told the hub's key, which has to be the pinned one, if any is.  The
\* hub is then not sent the message that would show it this client's.
KeyChanged ==
    /\ pc = "answer" /\ answer = mine.says /\ pins[hello] \notin {None, hub.key}
    /\ Fails("key_changed")
    /\ UNCHANGED <<hub, password, storeVars, connects, forceXX, kkFailed, heardVars, altered, stale>>

Finish ==
    /\ pc = "answer" /\ answer = mine.says /\ pins[hello] \in {None, hub.key}
    /\ pc' = "done" /\ pins' = [pins EXCEPT ![hello] = hub.key]
    /\ \E heard \in BOOLEAN : hub' = [hub EXCEPT !.knows = hub.knows \/ heard]
    /\ UNCHANGED <<password, psks, connects, forceXX, kkFailed, heardVars, mine,
                   envelope, answer, error, altered, stale>>

HandshakeNext ==
    \/ Connect \/ ThenXX \/ ReadHello \/ Start
    \/ EnvelopeChanges \/ HubAnswers \/ HubCloses
    \/ Unauthentic \/ KeyChanged \/ Finish

HandshakeSpec == HandshakeInit /\ [][HandshakeNext]_handshakeVars

-----------------------------------------------------------------------------
\* A session runs over what the hub offered, whatever was made of the offer on its
\* way: both ends agree on the pattern and the suite, the suite is the first of
\* this client's that the hub has, and the key pinned is the hub's.
NoDowngrade ==
    pc = "done" =>
        /\ hello = hub.node /\ ~altered
        /\ envelope = mine.name
        /\ \A i \in DOMAIN Suites :
              Suites[i] \in hub.suites =>
                  \E j \in 1..i : Suites[j] = mine.name.suite
        /\ mine.name.pattern \in hub.patterns
        /\ pins[hello] = hub.key

\* A connect is told that its handshake did not authenticate only when the
\* password is wrong, something was changed on its way, or the cache held the PSK
\* of an earlier password, which the next connect then derives anew; and that the
\* hub's key changed only when it has.
FailsForReason ==
    /\ error = "unauthentic" /\ ~kkFailed =>
          /\ altered \/ ~password \/ stale
          /\ psks[hello] = None
    /\ error = "key_changed" => pins[hello] # hub.key
    /\ error = "refused" /\ ~kkFailed => altered

NegotiationAgrees == NoDowngrade /\ FailsForReason
=============================================================================
