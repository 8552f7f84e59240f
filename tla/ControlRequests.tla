-------------------------- MODULE ControlRequests --------------------------
(***************************************************************************)
(* The requests of the control plane: what each method of `ControlPlane`   *)
(* sends, and how `send`, `send_request_full` and `answer_value` carry it  *)
(* out.  Callers share the hubs of one account; the API may refuse,        *)
(* redirect, answer what is no JSON, or be cut off before or within its    *)
(* answer.  The methods that are more than one request have modules of     *)
(* their own: SignIn, Provisioning, RuntimeConfig and SkillOperations.     *)
(***************************************************************************)
EXTENDS Naturals, SequencesExt

CONSTANTS
    Callers,
    None, Blank,    \* model values: nothing, and a blank string
    MaxVersion,     \* bound: changes of the hub
    MaxCalls        \* bound: calls of one caller

ControlRequestsAssumption ==
    MaxVersion \in Nat /\ MaxCalls \in Nat /\ None \notin Nat /\ None \notin Callers

-----------------------------------------------------------------------------
(* The methods: the verb, whether the token and a body are sent, and the   *)
(* precondition or idempotency header.                                     *)

Get == [method |-> "GET", auth |-> TRUE, body |-> FALSE, header |-> None]
PublicGet == [Get EXCEPT !.auth = FALSE]
GetBytes == [Get EXCEPT !.header = "Accept"]
Post == [Get EXCEPT !.method = "POST", !.body = TRUE]
Put == [Post EXCEPT !.method = "PUT"]
Patch == [Post EXCEPT !.method = "PATCH"]
Delete == [Get EXCEPT !.method = "DELETE"]

HubLists == [list_hubs |-> Get, list_public_hubs |-> PublicGet]

MemoryRequests ==
    [get_operation |-> Get, list_memory_items |-> Get, get_memory_summary |-> Get,
     create_memory_item |-> Post, get_memory_item |-> Get, update_memory_item |-> Patch,
     delete_memory_item |-> Delete, get_analytics_overview |-> Get]

HubRequests ==
    [get_hub |-> Get, get_public_hub |-> PublicGet,
     create_hub |-> [Post EXCEPT !.header = "Idempotency-Key"],
     update_hub |-> [Patch EXCEPT !.header = "If-Match"],
     delete_hub |-> [Delete EXCEPT !.header = "If-Match"]]

HubExtras ==
    [release_hub |-> Post, set_hub_rating |-> Put, clear_hub_rating |-> Delete,
     get_hub_runtime_capabilities |-> Get]

RuntimeGroupRequests ==
    [list_runtime_groups |-> Get, get_runtime_group |-> Get, create_runtime_group |-> Post,
     update_runtime_group |-> Patch]

RuntimeGroupExtras == [release_runtime_group |-> Post, delete_runtime_group |-> Delete]

SkillRequests == [install_runtime_group_skill |-> Post, uninstall_runtime_group_skill |-> Delete]

MarketplaceRequests ==
    [list_marketplace_skills |-> Get, list_runtime_group_marketplace |-> Get,
     list_runtime_group_inventory |-> Get]

\* "If-Match?" is sent when the caller gives an etag.
BridgeRequests ==
    [list_chat_app_connectors |-> Get, get_bridge_networks |-> Get, list_bridges |-> Get,
     create_bridge |-> Post, get_bridge |-> Get,
     update_bridge |-> [Patch EXCEPT !.header = "If-Match?"]]

BridgeExtras ==
    [replace_bridge_token |-> Put, replace_bridge_secrets |-> Put, list_bridge_chats |-> Get,
     send_bridge_test_message |-> Post, get_bridge_avatar |-> GetBytes, delete_bridge |-> Delete]

Kinds == Range(HubLists) \cup Range(MemoryRequests) \cup Range(HubRequests)
         \cup Range(HubExtras) \cup Range(RuntimeGroupRequests) \cup Range(RuntimeGroupExtras)
         \cup Range(SkillRequests) \cup Range(MarketplaceRequests)
         \cup Range(BridgeRequests) \cup Range(BridgeExtras)

-----------------------------------------------------------------------------
VARIABLES
    url,            \* of the plane: "https", "loopback", "http" or "userinfo"
    token,          \* whether it holds an access token
    call,           \* by caller: the request it makes, or None
    status,         \* by caller: the API's answer, and the version it tells
    outcome,        \* by caller: what its last call came to
    etag,           \* by caller: the version of the hub it read, or None
    hub,            \* the API: [version, basis]: the version last changed from
    calls

requestVars == <<url, token, call, status, outcome, etag, hub, calls>>

ControlRequestsInit ==
    /\ url \in {"https", "loopback", "http", "userinfo"} /\ token \in BOOLEAN
    /\ call = [c \in Callers |-> None] /\ status = [c \in Callers |-> None]
    /\ outcome = [c \in Callers |-> None] /\ etag = [c \in Callers |-> None]
    /\ hub = [version |-> 0, basis |-> None]
    /\ calls = [c \in Callers |-> 0]

Sensitive(kind) == kind.auth \/ kind.body

\* `validate_control_request_url`.
UrlAllows(kind) ==
    /\ url # "userinfo"
    /\ Sensitive(kind) => url \in {"https", "loopback"}

\* `If-Match` is the etag the caller gives, which may be any it has read, or
\* blank; a blank one is refused before anything is sent.
Etags(c, kind) ==
    CASE kind.header = "If-Match" -> {etag[c], Blank}
      [] kind.header = "If-Match?" -> {etag[c], Blank, None}
      [] OTHER -> {None}

Precondition_Optional(kind, given) == given # Blank

Precondition(kind, given) ==
    given # Blank /\ (kind.header = "If-Match" => given # None)

MaySend(kind, given) == Precondition(kind, given) /\ UrlAllows(kind) /\ (kind.auth => token)

Call(c, kind, given) ==
    /\ call[c] = None /\ calls[c] < MaxCalls /\ calls' = [calls EXCEPT ![c] = @ + 1]
    /\ status' = [status EXCEPT ![c] = None]
    /\ IF MaySend(kind, given)
       THEN /\ call' = [call EXCEPT ![c] = [kind |-> kind, etag |-> given]]
            /\ outcome' = [outcome EXCEPT ![c] = None]
       ELSE /\ outcome' = [outcome EXCEPT ![c] = "refused_here"]
            /\ UNCHANGED call
    /\ UNCHANGED <<url, token, etag, hub>>

Underway(c) == call[c] # None /\ status[c] = None

Answers(c, code) ==
    /\ status' = [status EXCEPT ![c] = [code |-> code, version |-> hub'.version]]
    /\ UNCHANGED <<url, token, call, outcome, etag, calls>>

-----------------------------------------------------------------------------
(* The API.  The hub stands for any resource with an etag.                 *)

ApiReads(c) ==
    /\ Underway(c) /\ call[c].kind.method = "GET"
    /\ UNCHANGED hub /\ Answers(c, "ok")

\* Another hub, or the one already made under the same key.
ApiCreates(c) ==
    /\ Underway(c) /\ call[c].kind.header = "Idempotency-Key"
    /\ UNCHANGED hub /\ Answers(c, "ok")

ApiChanges(c) ==
    /\ Underway(c) /\ call[c].kind.method \notin {"GET"} /\ call[c].kind.header # "Idempotency-Key"
    /\ call[c].etag \in {None, hub.version} /\ hub.version < MaxVersion
    /\ hub' = [version |-> hub.version + 1,
               basis |-> IF call[c].kind.header = "If-Match" THEN call[c].etag ELSE hub.version]
    /\ Answers(c, "ok")

\* A stale etag is 412; a plan, a scope, a redirect are refusals as well.
ApiRefuses(c) ==
    /\ Underway(c)
    /\ UNCHANGED hub
    /\ \E code \in {"refused", "redirect"} : Answers(c, code)

-----------------------------------------------------------------------------
(* What the caller hears.                                                  *)

Ends(c, what) ==
    /\ outcome' = [outcome EXCEPT ![c] = what] /\ call' = [call EXCEPT ![c] = None]
    /\ UNCHANGED <<url, token, status, hub, calls>>

\* A redirect is never followed; a success that is no JSON is an error too.
Hears(c) ==
    /\ call[c] # None /\ status[c] # None /\ call[c].kind # GetBytes
    /\ IF status[c].code = "ok"
       THEN \E what \in {"ok", "not_json"} :
              /\ Ends(c, what)
              /\ etag' = IF what = "ok" /\ call[c].kind.method # "DELETE"
                         THEN [etag EXCEPT ![c] = status[c].version] ELSE etag
       ELSE Ends(c, "refused") /\ UNCHANGED etag

\* `request_bytes`: an answer longer than the bound is not read; a failure is
\* told by its status, however long its body.
HearsBytes(c) ==
    /\ call[c] # None /\ status[c] # None /\ call[c].kind = GetBytes
    /\ \E what \in IF status[c].code = "ok" THEN {"ok", "too_long"} ELSE {"refused"} :
          Ends(c, what)
    /\ UNCHANGED etag

\* Nothing of the answer arrives, or the request never did.
HearsNothing(c) ==
    /\ call[c] # None
    /\ Ends(c, "unreachable") /\ UNCHANGED etag

\* The answer breaks off after its status: a failure is told by its status.
BreaksOff(c) ==
    /\ call[c] # None /\ status[c] # None
    /\ Ends(c, IF status[c].code = "ok" THEN "unreachable" ELSE "refused") /\ UNCHANGED etag

ControlRequestsNext == \E c \in Callers :
    \/ \E kind \in Kinds : \E given \in Etags(c, kind) : Call(c, kind, given)
    \/ ApiReads(c) \/ ApiCreates(c) \/ ApiChanges(c) \/ ApiRefuses(c)
    \/ Hears(c) \/ HearsBytes(c) \/ HearsNothing(c) \/ BreaksOff(c)

ControlRequestsSpec == ControlRequestsInit /\ [][ControlRequestsNext]_requestVars

-----------------------------------------------------------------------------
\* A hub is changed or deleted only from the version its caller read: nobody's
\* change is overwritten by one who had not seen it.
NoLostUpdate == hub.version > 0 => hub.basis = hub.version - 1
=============================================================================
