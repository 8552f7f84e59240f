---------------------------- MODULE Control_proof ----------------------------
(***************************************************************************)
(* The control plane's client, as the components of MCControl: each is an  *)
(* instance under its own name, and every step of the whole is a step of   *)
(* one of them.                                                            *)
(***************************************************************************)
EXTENDS MCControl, Integers, Sequences, TLAPS

-----------------------------------------------------------------------------
(* RuntimeConfig: a merge is written over what it was made from.           *)

Calls ==
  [doing : {"nothing", "read", "write"}, delta : Config!Configs, personas : BOOLEAN,
   base : Config!Configs, seen : Nat, attempt : Nat,
   answer : {"none", "refused", "failed", "conflict", "ok"}]

ConfigTypes ==
  /\ config \in Config!Configs /\ revision \in Nat
  /\ work \in [Writers -> Calls]

(* Who is about to write has read a configuration that is still the API's, *)
(* or the revision it names is an old one.                                 *)
BaseInv ==
  \A w \in Writers : work[w].doing = "write" =>
    /\ work[w].seen <= revision
    /\ work[w].seen = revision => work[w].base = config

ConfigInv == ConfigTypes /\ BaseInv /\ Config!NoLostUpdate

LEMMA Blanks == Config!Nothing \in Config!Configs /\ Config!Free \in Calls
  BY DEF Config!Nothing, Config!Configs, Config!Free, Calls

LEMMA Merges ==
  ASSUME NEW a \in Config!Configs, NEW d \in Config!Configs
  PROVE  Config!Merge(a, d) \in Config!Configs
  BY DEF Config!Merge, Config!Configs

LEMMA ConfigStarts == ASSUME Config!RuntimeConfigInit PROVE ConfigInv
  BY Blanks DEF Config!RuntimeConfigInit, ConfigInv, ConfigTypes, BaseInv, Config!NoLostUpdate,
                Config!Free

(* A call that is over writes nothing any more.                            *)
LEMMA FinishKeeps ==
  ASSUME ConfigTypes, NEW w \in Writers,
         NEW a \in {"refused", "failed", "conflict", "ok"}, Config!Finish(w, a)
  PROVE  /\ work' \in [Writers -> Calls] /\ work'[w].doing = "nothing"
         /\ \A v \in Writers : v # w => work'[v] = work[v]
<1>1. [Config!Free EXCEPT !.answer = a] \in Calls
  BY Blanks DEF Calls
<1>2. [Config!Free EXCEPT !.answer = a].doing = "nothing"
  BY DEF Config!Free
<1>3. QED
  BY <1>1, <1>2 DEF Config!Finish, ConfigTypes

LEMMA ConfigStep ==
  ASSUME Config!RuntimeConfigAssumption, ConfigInv, Config!RuntimeConfigNext
  PROVE  ConfigInv'
<1>1. PICK w \in Writers : \/ Config!Update(w) \/ Config!ReadConfig(w)
                           \/ Config!PutConfig(w) \/ Config!Replace(w)
  BY DEF Config!RuntimeConfigNext
<1>2. CASE Config!Update(w)
  <2>1. PICK d \in Config!Configs, p \in BOOLEAN :
          work' = [work EXCEPT ![w] =
                    IF Config!Safe(d)
                    THEN [Config!Free EXCEPT !.doing = "read", !.delta = d,
                                             !.personas = p, !.attempt = 1]
                    ELSE [Config!Free EXCEPT !.answer = "refused"]]
    BY <1>2 DEF Config!Update
  <2>2. UNCHANGED <<config, revision, said>>
    BY <1>2 DEF Config!Update, Config!groupVars
  <2>3. /\ [Config!Free EXCEPT !.doing = "read", !.delta = d,
                               !.personas = p, !.attempt = 1] \in Calls
        /\ [Config!Free EXCEPT !.answer = "refused"] \in Calls
    BY Blanks DEF Calls
  <2>4. work' \in [Writers -> Calls] /\ work'[w].doing # "write"
        /\ \A v \in Writers : v # w => work'[v] = work[v]
    BY <2>1, <2>3 DEF ConfigInv, ConfigTypes, Config!Free
  <2>5. QED
    BY <2>2, <2>4 DEF ConfigInv, ConfigTypes, BaseInv, Config!NoLostUpdate
<1>3. CASE Config!ReadConfig(w)
  <2>1. UNCHANGED <<config, revision, said>>
    BY <1>3 DEF Config!ReadConfig, Config!groupVars
  <2>2. CASE work' = [work EXCEPT ![w].doing = "write", ![w].base = Config!Rebase(w),
                                  ![w].seen = revision]
    <3> DEFINE read == [work[w] EXCEPT !.doing = "write", !.base = config, !.seen = revision]
    <3>1. work' = [work EXCEPT ![w] = read]
      BY <2>2 DEF ConfigInv, ConfigTypes, Config!Rebase
    <3>2. read \in Calls /\ read.seen = revision /\ read.base = config
      BY DEF ConfigInv, ConfigTypes, Calls
    <3>3. /\ work' \in [Writers -> Calls]
          /\ work'[w].seen = revision /\ work'[w].base = config
          /\ \A v \in Writers : v # w => work'[v] = work[v]
      BY <3>1, <3>2 DEF ConfigInv, ConfigTypes
    <3>4. QED
      BY <2>1, <3>3 DEF ConfigInv, ConfigTypes, BaseInv, Config!NoLostUpdate
  <2>3. CASE \E a \in {"refused", "failed"} : Config!Finish(w, a)
    <3>1. /\ work' \in [Writers -> Calls] /\ work'[w].doing = "nothing"
          /\ \A v \in Writers : v # w => work'[v] = work[v]
      BY <2>3, FinishKeeps DEF ConfigInv
    <3>2. QED
      BY <2>1, <3>1 DEF ConfigInv, ConfigTypes, BaseInv, Config!NoLostUpdate
  <2>4. QED
    BY <1>3, <2>2, <2>3 DEF Config!ReadConfig
<1>4. CASE Config!PutConfig(w)
  <2>1. CASE /\ Config!Matches(w)
             /\ Config!Accept(Config!Merge(work[w].base, work[w].delta), work[w].delta)
             /\ \E a \in {"ok", "failed"} : Config!Finish(w, a)
    <3>1. /\ work' \in [Writers -> Calls] /\ work'[w].doing = "nothing"
          /\ \A v \in Writers : v # w => work'[v] = work[v]
      BY <2>1, FinishKeeps DEF ConfigInv
    <3>2. work[w].base = config /\ work[w].delta \in Config!Configs
      BY <1>4, <2>1 DEF Config!PutConfig, Config!Matches, ConfigInv, BaseInv, ConfigTypes, Calls
    <3>3. /\ config' = Config!Merge(config, work[w].delta) /\ said' = Config!Merge(said, work[w].delta)
          /\ revision' = revision + 1
      BY <2>1, <3>2 DEF Config!Accept
    <3>4. ConfigTypes' /\ Config!NoLostUpdate'
      BY <3>1, <3>2, <3>3, Merges DEF ConfigInv, ConfigTypes, Config!NoLostUpdate
    <3>5. BaseInv'
      BY <3>1, <3>3 DEF ConfigInv, ConfigTypes, BaseInv, Calls
    <3>6. QED
      BY <3>4, <3>5 DEF ConfigInv
  <2>2. CASE \E a \in {"conflict", "failed"} : Config!Finish(w, a) /\ UNCHANGED Config!groupVars
    <3>1. /\ work' \in [Writers -> Calls] /\ work'[w].doing = "nothing"
          /\ \A v \in Writers : v # w => work'[v] = work[v]
      BY <2>2, FinishKeeps DEF ConfigInv
    <3>2. UNCHANGED <<config, revision, said>>
      BY <2>2 DEF Config!groupVars
    <3>3. QED
      BY <3>1, <3>2 DEF ConfigInv, ConfigTypes, BaseInv, Config!NoLostUpdate
  <2>3. CASE /\ work' = [work EXCEPT ![w].doing = "read", ![w].attempt = @ + 1]
             /\ UNCHANGED Config!groupVars
    <3>1. /\ work' \in [Writers -> Calls] /\ work'[w].doing = "read"
          /\ \A v \in Writers : v # w => work'[v] = work[v]
      BY <2>3 DEF ConfigInv, ConfigTypes, Calls
    <3>2. UNCHANGED <<config, revision, said>>
      BY <2>3 DEF Config!groupVars
    <3>3. QED
      BY <3>1, <3>2 DEF ConfigInv, ConfigTypes, BaseInv, Config!NoLostUpdate
  <2>4. QED
    BY <1>4, <2>1, <2>2, <2>3 DEF Config!PutConfig
<1>5. CASE Config!Replace(w)
  <2>1. /\ config' \in Config!Configs /\ said' = config' /\ revision' = revision + 1
        /\ \E a \in {"ok", "failed"} : Config!Finish(w, a)
    BY <1>5 DEF Config!Replace
  <2>2. /\ work' \in [Writers -> Calls] /\ work'[w].doing = "nothing"
        /\ \A v \in Writers : v # w => work'[v] = work[v]
    BY <2>1, FinishKeeps DEF ConfigInv
  <2>3. BaseInv'
    BY <2>1, <2>2 DEF ConfigInv, ConfigTypes, BaseInv, Calls
  <2>4. QED
    BY <2>1, <2>2, <2>3 DEF ConfigInv, ConfigTypes, Config!NoLostUpdate
<1>6. QED
  BY <1>1, <1>2, <1>3, <1>4, <1>5

LEMMA ConfigStutters ==
  ASSUME ConfigInv, UNCHANGED Config!configVars PROVE ConfigInv'
  BY DEF Config!configVars, ConfigInv, ConfigTypes, BaseInv, Config!NoLostUpdate

(* No accepted write of a configuration is lost, however many writers      *)
(* conflict and however often (update_runtime_group_config).               *)
THEOREM NoWriteIsLost ==
  ASSUME Config!RuntimeConfigAssumption
  PROVE  Config!RuntimeConfigSpec => []Config!NoLostUpdate
<1>1. Config!RuntimeConfigInit => ConfigInv
  BY ConfigStarts
<1>2. ConfigInv /\ [Config!RuntimeConfigNext]_(Config!configVars) => ConfigInv'
  BY ConfigStep, ConfigStutters
<1>3. ConfigInv => Config!NoLostUpdate
  BY DEF ConfigInv
<1>4. QED
  BY <1>1, <1>2, <1>3, PTL DEF Config!RuntimeConfigSpec

-----------------------------------------------------------------------------
(* ControlRequests: one version after the other.                           *)

(* A request that has to name a version names one, and the hub counts its  *)
(* versions, each made from the one before it.                             *)
RequestsInv ==
  /\ DOMAIN requestsCall = Callers /\ hub.version \in Nat
  /\ \A c \in Callers :
       requestsCall[c] # None /\ requestsCall[c].kind.header = "If-Match" =>
         requestsCall[c].etag # None
  /\ Requests!NoLostUpdate

LEMMA RequestsStart ==
  ASSUME Requests!ControlRequestsInit PROVE RequestsInv
  BY DEF Requests!ControlRequestsInit, RequestsInv, Requests!NoLostUpdate

LEMMA RequestsStep ==
  ASSUME Requests!ControlRequestsAssumption, RequestsInv, Requests!ControlRequestsNext
  PROVE  RequestsInv'
<1> USE DEF Requests!ControlRequestsAssumption, Requests!NoLostUpdate, Requests!Ends,
            Requests!Answers, Requests!Underway
<1>1. PICK c \in Callers :
        \/ \E kind \in Requests!Kinds : \E given \in Requests!Etags(c, kind) :
              Requests!Call(c, kind, given)
        \/ Requests!ApiReads(c) \/ Requests!ApiCreates(c) \/ Requests!ApiChanges(c)
        \/ Requests!ApiRefuses(c) \/ Requests!Hears(c) \/ Requests!HearsBytes(c)
        \/ Requests!HearsNothing(c) \/ Requests!BreaksOff(c)
  BY DEF Requests!ControlRequestsNext
<1>2. ASSUME NEW kind \in Requests!Kinds, NEW given \in Requests!Etags(c, kind),
             Requests!Call(c, kind, given)
      PROVE  RequestsInv'
  <2>1. CASE Requests!MaySend(kind, given)
    <3>1. kind.header = "If-Match" => given # None
      BY <2>1 DEF Requests!MaySend, Requests!Precondition
    <3>2. requestsCall' = [requestsCall EXCEPT ![c] =
                             [kind |-> kind, etag |-> given]]
          /\ UNCHANGED hub
      BY <1>2, <2>1 DEF Requests!Call
    <3>3. QED
      BY <3>1, <3>2 DEF RequestsInv
  <2>2. CASE ~ Requests!MaySend(kind, given)
    BY <1>2, <2>2 DEF Requests!Call, RequestsInv
  <2>3. QED
    BY <2>1, <2>2
<1>3. CASE Requests!ApiReads(c)
  BY <1>3 DEF Requests!ApiReads, RequestsInv
<1>4. CASE Requests!ApiCreates(c)
  BY <1>4 DEF Requests!ApiCreates, RequestsInv
<1>5. CASE Requests!ApiChanges(c)
  BY <1>5 DEF Requests!ApiChanges, RequestsInv
<1>6. CASE Requests!ApiRefuses(c)
  BY <1>6 DEF Requests!ApiRefuses, RequestsInv
<1>7. CASE Requests!Hears(c)
  BY <1>7 DEF Requests!Hears, RequestsInv
<1>8. CASE Requests!HearsBytes(c)
  BY <1>8 DEF Requests!HearsBytes, RequestsInv
<1>9. CASE Requests!HearsNothing(c)
  BY <1>9 DEF Requests!HearsNothing, RequestsInv
<1>10. CASE Requests!BreaksOff(c)
  BY <1>10 DEF Requests!BreaksOff, RequestsInv
<1>11. QED
  BY <1>1, <1>2, <1>3, <1>4, <1>5, <1>6, <1>7, <1>8, <1>9, <1>10

LEMMA RequestsStutter ==
  ASSUME RequestsInv, UNCHANGED Requests!requestVars PROVE RequestsInv'
  BY DEF Requests!requestVars, RequestsInv, Requests!NoLostUpdate

(* A hub is changed only from the version its caller read (update_hub,     *)
(* delete_hub).                                                            *)
THEOREM RequestsAreSafe ==
  ASSUME Requests!ControlRequestsAssumption
  PROVE  Requests!ControlRequestsSpec => []Requests!NoLostUpdate
<1>1. Requests!ControlRequestsInit => RequestsInv
  BY RequestsStart
<1>2. RequestsInv /\ [Requests!ControlRequestsNext]_(Requests!requestVars) => RequestsInv'
  BY RequestsStep, RequestsStutter
<1>3. RequestsInv => Requests!NoLostUpdate
  BY DEF RequestsInv
<1>4. QED
  BY <1>1, <1>2, <1>3, PTL DEF Requests!ControlRequestsSpec

-----------------------------------------------------------------------------
(* SkillOperations: no change is repeated, and a wait speaks for the hub.  *)

Answered == {"ready", "failed", "timed_out"}

(* A change that is on its way is one the hub has not taken.  What is      *)
(* waited for is an operation it has taken, and what that came to stays.   *)
SkillsInv ==
  /\ now \in Nat /\ deadline \in Nat /\ changes \in Nat
  /\ operations \in Seq({"pending"} \cup Answered)
  /\ Len(operations) + (IF at = "sent" THEN 1 ELSE 0) <= changes
  /\ at \in {"idle", "sent", "taken", "due", "reading", "asleep"}
  /\ at = "taken" => operations # <<>>
  /\ at \in {"sent", "taken"} => readAt = None /\ (patience # None => patience \in Nat)
  /\ at \in {"sent", "taken", "due", "reading", "asleep"} => skillsOutcome = None
  /\ accepted \subseteq DOMAIN operations
  /\ waitedFor # None => waitedFor \in DOMAIN operations
  /\ at \in {"due", "reading", "asleep"} => waitedFor # None
  /\ seen \in {None, "pending", "error"} \cup Answered
  /\ at = "reading" /\ seen \in Answered => operations[waitedFor] = seen
  /\ readAt # None => readAt \in Nat /\ readAt <= now
  /\ skillsOutcome \in {"ready", "failed"} => waitedFor # None
  /\ Skills!WaitIsTrue

LEMMA SkillsStart ==
  ASSUME Skills!SkillOperationsAssumption, Skills!SkillOperationsInit PROVE SkillsInv
  BY DEF Skills!SkillOperationsAssumption, Skills!SkillOperationsInit, SkillsInv, Answered,
         Skills!WaitIsTrue

(* The hub's work on one operation leaves what the others came to, and     *)
(* changes none that has an answer.                                        *)
LEMMA WorkIsOnPending ==
  ASSUME SkillsInv, Skills!HubWorks
  PROVE  /\ operations' \in Seq({"pending"} \cup Answered)
         /\ Len(operations') = Len(operations) /\ DOMAIN operations' = DOMAIN operations
         /\ \A n \in DOMAIN operations :
              operations[n] \in Answered => operations'[n] = operations[n]
<1>1. PICK n \in DOMAIN operations, s \in Answered :
        operations[n] = "pending" /\ operations' = [operations EXCEPT ![n] = s]
  BY DEF Skills!HubWorks, Answered
<1>2. QED
  BY <1>1 DEF SkillsInv, Answered

LEMMA TakingAppends ==
  ASSUME SkillsInv, Skills!HubAccepts
  PROVE  /\ operations' \in Seq({"pending"} \cup Answered)
         /\ Len(operations') = Len(operations) + 1 /\ operations' # <<>>
         /\ \A n \in DOMAIN operations :
              n \in DOMAIN operations' /\ operations'[n] = operations[n]
<1>1. operations \in Seq({"pending"} \cup Answered) /\ operations' = Append(operations, "pending")
  BY DEF Skills!HubAccepts, SkillsInv
<1>2. QED
  BY <1>1

LEMMA SkillsStep ==
  ASSUME Skills!SkillOperationsAssumption, SkillsInv, Skills!SkillOperationsNext
  PROVE  SkillsInv'
<1> USE DEF Skills!SkillOperationsAssumption, Skills!WaitIsTrue, Skills!Ends, Skills!callerVars,
            Skills!waitVars
<1>1. CASE \E timeout \in Timeouts, wait \in BOOLEAN : Skills!Change(timeout, wait)
  <2>1. PICK timeout \in Timeouts, wait \in BOOLEAN : Skills!Change(timeout, wait)
    BY <1>1
  <2>2. QED
    BY <2>1 DEF Skills!Change, Skills!Sends, Skills!Valid, SkillsInv, Answered
<1>2. CASE \E n \in accepted, timeout \in Timeouts : Skills!Resume(n, timeout)
  <2>1. PICK n \in accepted, timeout \in Timeouts : Skills!Resume(n, timeout)
    BY <1>2
  <2>2. n \in Nat /\ n # None /\ n \in DOMAIN operations
    BY DEF SkillsInv
  <2>3. QED
    BY <2>1, <2>2 DEF Skills!Resume, Skills!Valid, Skills!BeginsWait, SkillsInv, Answered
<1>3. CASE \E nm \in BOOLEAN : Skills!Accepted(nm)
  <2>1. PICK nm \in BOOLEAN : Skills!Accepted(nm)
    BY <1>3
  <2>2. at = "taken" => Len(operations) \in DOMAIN operations /\ Len(operations) # None
    BY DEF SkillsInv
  <2>3. at = "taken" /\ UNCHANGED <<now, operations, changes, patience, wakes, seen, readAt>>
    BY <2>1 DEF Skills!Accepted
  <2>4. CASE patience = None
    <3>1. accepted' \subseteq DOMAIN operations /\ at' = "idle" /\ skillsOutcome' = "accepted"
          /\ UNCHANGED <<waitedFor, deadline>>
      BY <2>1, <2>2, <2>4 DEF Skills!Accepted, SkillsInv
    <3>2. QED
      BY <2>3, <3>1 DEF SkillsInv, Answered
  <2>5. CASE patience # None /\ nm
    <3>1. /\ at' = "due" /\ waitedFor' = Len(operations) /\ deadline' = now + patience
          /\ UNCHANGED <<accepted, skillsOutcome>>
      BY <2>1, <2>5 DEF Skills!Accepted, Skills!BeginsWait
    <3>2. patience \in Nat /\ skillsOutcome = None /\ readAt = None
      BY <2>3, <2>5 DEF SkillsInv
    <3>3. QED
      BY <2>2, <2>3, <3>1, <3>2 DEF SkillsInv, Answered
  <2>6. CASE patience # None /\ ~nm
    <3>1. at' = "idle" /\ skillsOutcome' = "error" /\ UNCHANGED <<accepted, waitedFor, deadline>>
      BY <2>1, <2>6 DEF Skills!Accepted
    <3>2. QED
      BY <2>3, <3>1 DEF SkillsInv, Answered
  <2>7. QED
    BY <2>4, <2>5, <2>6
<1>4. CASE Skills!HubAccepts
  BY <1>4, TakingAppends DEF Skills!HubAccepts, SkillsInv, Answered
<1>5. CASE Skills!HubWorks
  BY <1>5, WorkIsOnPending DEF Skills!HubWorks, SkillsInv, Answered
<1>6. CASE Skills!ChangeFails
  BY <1>6 DEF Skills!ChangeFails, SkillsInv, Answered
<1>7. CASE Skills!Abandon
  BY <1>7 DEF Skills!Abandon, SkillsInv, Answered
<1>8. CASE Skills!Reads
  BY <1>8 DEF Skills!Reads, SkillsInv, Skills!Overdue, Answered
<1>9. CASE Skills!HubAnswers
  BY <1>9 DEF Skills!HubAnswers, SkillsInv, Answered
<1>10. CASE Skills!Hears
  BY <1>10 DEF Skills!Hears, SkillsInv, Skills!Judge, Answered
<1>11. CASE Skills!ReadTimesOut
  BY <1>11 DEF Skills!ReadTimesOut, Skills!Overdue, SkillsInv, Answered
<1>12. CASE Skills!Wakes
  BY <1>12 DEF Skills!Wakes, SkillsInv, Answered
<1>13. CASE Skills!Tick
  BY <1>13 DEF Skills!Tick, SkillsInv, Answered
<1>14. QED
  BY <1>1, <1>2, <1>3, <1>4, <1>5, <1>6, <1>7, <1>8, <1>9, <1>10, <1>11, <1>12, <1>13 DEF Skills!SkillOperationsNext

LEMMA SkillsStutter ==
  ASSUME SkillsInv, UNCHANGED Skills!skillVars PROVE SkillsInv'
  BY DEF Skills!skillVars, Skills!callerVars, Skills!waitVars, SkillsInv, Answered,
         Skills!WaitIsTrue

(* However often a wait is given up and taken up again, the hub takes no   *)
(* change but those asked for, and what a wait tells is what its own       *)
(* operation came to (wait_for_hub_skill_operation).                       *)
THEOREM SkillsAreSafe ==
  ASSUME Skills!SkillOperationsAssumption
  PROVE  Skills!SkillOperationsSpec => [](Skills!DoneOnce /\ Skills!WaitIsTrue)
<1>1. Skills!SkillOperationsInit => SkillsInv
  BY SkillsStart
<1>2. SkillsInv /\ [Skills!SkillOperationsNext]_(Skills!skillVars) => SkillsInv'
  BY SkillsStep, SkillsStutter
<1>3. SkillsInv => Skills!DoneOnce /\ Skills!WaitIsTrue
  BY DEF SkillsInv, Skills!DoneOnce
<1>4. QED
  BY <1>1, <1>2, <1>3, PTL DEF Skills!SkillOperationsSpec

-----------------------------------------------------------------------------
(* Provisioning: nothing is left behind in silence, and a wait is patient. *)

Admissions == {"requested", "applied", "ready", "failed", "timed_out"}

CallTypes ==
  /\ call = [at |-> call.at, id |-> call.id, etag |-> call.etag, attempt |-> call.attempt,
             heard |-> call.heard, clock |-> call.clock, next |-> call.next, owed |-> call.owed]
  /\ call.clock \in Nat /\ call.next \in Nat /\ call.owed \in Nat
  /\ call.clock <= Timeout /\ call.next <= Timeout

ProvisioningTypes ==
  /\ CallTypes
  /\ client = [exists |-> client.exists, kind |-> client.kind, etag |-> client.etag]
  /\ operation \in Admissions

(* A client is made once, before the call has a result, and one of another *)
(* kind than was asked for is on its way to be deleted, or told of.        *)
Unasked == client.exists /\ asked # None /\ client.kind # asked

GoneInv ==
  /\ call.at = "creating" => result = "none"
  /\ call.at = "creating" /\ call.heard \notin {"made", "lost"} => ~client.exists
  /\ call.at = "idle" /\ result = "none" => ~client.exists
  /\ Unasked => \/ call.at \in {"creating", "delete"} /\ result = "none"
                \/ /\ call.at = "idle"
                   /\ result \in {"unsupported_named", "unsupported_unnamed", "create_failed"}
  /\ result \in {"unsupported_deleted", "deleted"} => ~client.exists

WaitResults == {"admitted", "admission_failed", "admission_refused", "admission_timeout",
                "unauthorized", "unreachable"}

(* What a poll heard of the admission is still so, what the API asked to   *)
(* be waited is over when the next poll is due, and what a wait returned   *)
(* is borne out by what it heard last and when.                            *)
PatienceInv ==
  /\ call.at = "wait" => result = "waiting"
  /\ result \in WaitResults => call.at = "idle"
  /\ result = "created" => call.heard = "none" /\ call.owed = 0
  /\ call.at = "wait" /\ call.heard \in {"ready", "failed", "timed_out"} => operation = call.heard
  /\ call.at = "wait" /\ call.heard \notin {"none", "429"} => call.owed = 0
  /\ call.at = "wait" /\ call.heard = "none" =>
       call.owed = 0 \/ call.clock + call.owed <= call.next
  /\ result = "admitted" => operation = "ready" \/ call.heard = "404"
  /\ result = "admission_failed" => operation \in {"failed", "timed_out"}
  /\ result = "admission_timeout" =>
       call.clock = Timeout \/ (call.heard = "429" /\ call.clock + Paced > Timeout)

ProvisioningInv == ProvisioningTypes /\ GoneInv /\ PatienceInv

LEMMA ProvisioningStarts == ASSUME ProvisioningInit PROVE ProvisioningInv
  BY ProvisioningAssumption
     DEF ProvisioningInit, ProvisioningInv, ProvisioningTypes, GoneInv, PatienceInv, NoClient, CallTypes,
         Rest, Admissions, Unasked, WaitResults

(* A call that returns keeps its clock and holds nothing else.             *)
LEMMA ReturnRests ==
  ASSUME CallTypes, NEW r, Returns(r)
  PROVE  /\ CallTypes' /\ result' = r
         /\ call'.at = "idle" /\ call'.heard = "none" /\ call'.owed = 0
<1>1. Rest.next = 0 /\ Rest.owed = 0 /\ Rest.at = "idle" /\ Rest.heard = "none"
  BY DEF Rest
<1>2. call' = [Rest EXCEPT !.clock = call.clock] /\ result' = r
  BY DEF Returns
<1>3. /\ call'.at = "idle" /\ call'.heard = "none" /\ call'.owed = 0 /\ call'.next = 0
      /\ call'.clock = call.clock
      /\ call' = [at |-> call'.at, id |-> call'.id, etag |-> call'.etag,
                  attempt |-> call'.attempt, heard |-> call'.heard, clock |-> call'.clock,
                  next |-> call'.next, owed |-> call'.owed]
  BY <1>2 DEF Rest
<1>4. QED
  BY ProvisioningAssumption, <1>2, <1>3 DEF CallTypes

(* A wait that ends keeps what it heard, and when.                         *)
LEMMA EndRests ==
  ASSUME CallTypes, NEW r, WaitEnds(r)
  PROVE  /\ CallTypes' /\ result' = r /\ call'.at = "idle"
         /\ call'.heard = call.heard /\ call'.owed = call.owed /\ call'.clock = call.clock
  BY DEF CallTypes, WaitEnds

(* A wait that goes on keeps its clock, and its next poll is within its    *)
(* deadline and no sooner than it was asked.                               *)
LEMMA PollIsDue ==
  ASSUME CallTypes, NEW wait \in Nat, PollsAfter(wait), Left # 0
  PROVE  /\ CallTypes' /\ result' = result
         /\ call'.at = call.at /\ call'.heard = "none" /\ call'.owed = call.owed
         /\ call'.clock = call.clock
         /\ wait <= Left => call'.next = call.clock + wait
<1> DEFINE due == call.clock + IF wait < Left THEN wait ELSE Left
<1>1. call' = [call EXCEPT !.heard = "none", !.next = due] /\ result' = result
  BY DEF PollsAfter
<1>2. /\ Left \in Nat /\ due \in Nat /\ due <= Timeout
      /\ wait <= Left => due = call.clock + wait
  BY ProvisioningAssumption DEF CallTypes, Left
<1> HIDE DEF due
<1>3. /\ call'.at = call.at /\ call'.heard = "none" /\ call'.owed = call.owed
      /\ call'.clock = call.clock /\ call'.next = due
      /\ call' = [at |-> call'.at, id |-> call'.id, etag |-> call'.etag,
                  attempt |-> call'.attempt, heard |-> call'.heard, clock |-> call'.clock,
                  next |-> call'.next, owed |-> call'.owed]
  BY <1>1 DEF CallTypes
<1>4. QED
  BY <1>1, <1>2, <1>3 DEF CallTypes

(* What the answer of a poll makes of the wait.                            *)
LEMMA HearsOneWay ==
  ASSUME CallTypes, Hear
  PROVE  /\ call.at = "wait" /\ call.heard # "none"
         /\ UNCHANGED <<asked, client, operation>>
         /\ \/ \E r \in WaitResults :
                 /\ WaitEnds(r)
                 /\ r = "admitted" => call.heard \in {"ready", "404"}
                 /\ r = "admission_failed" => call.heard \in {"failed", "timed_out"}
                 /\ r = "admission_timeout" =>
                      Left = 0 \/ (call.heard = "429" /\ Paced > Left)
            \/ call.heard = "429" /\ Paced <= Left /\ Left # 0 /\ PollsAfter(Paced)
            \/ call.heard \notin {"429", "failed", "timed_out"} /\ Left # 0 /\ PollsAfter(Poll)
<1>1. Left \in Nat /\ Paced \in Nat
  BY ProvisioningAssumption DEF CallTypes, Left, Paced
<1>2. CASE Verdict(call.heard) # "none"
  <2>1. /\ Verdict(call.heard) \in WaitResults \ {"admission_timeout"}
        /\ Verdict(call.heard) = "admission_failed" => call.heard \in {"failed", "timed_out"}
        /\ Verdict(call.heard) = "admitted" => call.heard \in {"ready", "404"}
    BY <1>2 DEF Verdict, WaitResults
  <2>2. WaitEnds(Verdict(call.heard))
    BY <1>2 DEF Hear
  <2>3. QED
    BY <2>1, <2>2 DEF Hear
<1>3. CASE Verdict(call.heard) = "none" /\ call.heard = "429"
  <2>1. CASE Paced > Left
    <3>1. WaitEnds("admission_timeout")
      BY <1>3, <2>1 DEF Hear
    <3>2. QED
      BY <1>3, <2>1, <3>1 DEF Hear, WaitResults
  <2>2. CASE Left = 0 /\ ~(Paced > Left)
    <3>1. WaitEnds("admission_timeout")
      BY <1>3, <2>2 DEF Hear, PollsAfter
    <3>2. QED
      BY <2>2, <3>1 DEF Hear, WaitResults
  <2>3. CASE Left # 0 /\ ~(Paced > Left)
    BY <1>1, <1>3, <2>3 DEF Hear
  <2>4. QED
    BY <2>1, <2>2, <2>3
<1>4. CASE Verdict(call.heard) = "none" /\ call.heard # "429"
  <2>1. call.heard \notin {"failed", "timed_out"}
    BY <1>4 DEF Verdict
  <2>2. CASE Left = 0
    <3>1. WaitEnds("admission_timeout")
      BY <1>4, <2>2 DEF Hear, PollsAfter
    <3>2. QED
      BY <2>2, <3>1 DEF Hear, WaitResults
  <2>3. CASE Left # 0
    BY <1>4, <2>1, <2>3 DEF Hear
  <2>4. QED
    BY <2>2, <2>3
<1>5. QED
  BY <1>2, <1>3, <1>4 DEF Hear

LEMMA CallTypesKeep ==
  ASSUME ProvisioningInv, ProvisioningNext PROVE CallTypes'
<1> USE ProvisioningAssumption DEF ProvisioningInv, ProvisioningTypes, Due
<1>1. CASE Create
  BY ReturnRests, <1>1 DEF Create, CallTypes
<1>2. CASE ApiCreates
  BY ReturnRests, <1>2 DEF ApiCreates, CallTypes
<1>3. CASE LoseAnswer
  BY ReturnRests, <1>3 DEF LoseAnswer, CallTypes
<1>4. CASE Created
  BY ReturnRests, <1>4 DEF Created, CallTypes
<1>5. CASE WrongKind
  BY ReturnRests, <1>5 DEF WrongKind, CallTypes
<1>6. CASE CreateFails
  BY ReturnRests, <1>6 DEF CreateFails, CallTypes
<1>7. CASE DeleteClient
  BY ReturnRests, <1>7 DEF DeleteClient, CallTypes
<1>8. CASE ReadEtag
  BY ReturnRests, <1>8 DEF ReadEtag, CallTypes, DeleteHears, DeleteEnds, GoneCounts
<1>9. CASE ApiDeletes
  BY ReturnRests, <1>9 DEF ApiDeletes, CallTypes, DeleteHears, DeleteEnds, GoneCounts
<1>10. CASE OthersChange
  BY ReturnRests, <1>10 DEF OthersChange, CallTypes
<1>11. CASE Wait
  <2>1. CASE \E r : Returns(r)
    BY ReturnRests, <2>1
  <2>2. CASE call' = [call EXCEPT !.at = "wait", !.next = 0]
    <3>1. /\ call'.next = 0 /\ call'.clock = call.clock /\ call'.owed = call.owed
          /\ call' = [at |-> call'.at, id |-> call'.id, etag |-> call'.etag,
                      attempt |-> call'.attempt, heard |-> call'.heard, clock |-> call'.clock,
                      next |-> call'.next, owed |-> call'.owed]
      BY <2>2 DEF CallTypes
    <3>2. QED
      BY <3>1 DEF CallTypes
  <2>3. QED
    BY <1>11, <2>1, <2>2 DEF Wait
<1>12. CASE ApiAnswers
  <2>1. \E o \in Nat : \E h : call' = [call EXCEPT !.heard = h, !.owed = o]
    <3>1. \A problem, header \in Waits : AskedWait(problem, header) \in Nat
      BY DEF AskedWait
    <3>2. CASE \E h : call' = [call EXCEPT !.heard = h, !.owed = 0]
      BY <3>2
    <3>3. CASE \E problem, header \in Waits :
                 call' = [call EXCEPT !.heard = "429", !.owed = AskedWait(problem, header)]
      BY <3>1, <3>3
    <3>4. QED
      BY <1>12, <3>2, <3>3 DEF ApiAnswers
  <2>2. QED
    BY <2>1 DEF CallTypes
<1>13. CASE Hear
  <2>1. Paced \in Nat
    BY DEF CallTypes, Paced
  <2>2. QED
    BY EndRests, PollIsDue, HearsOneWay, <1>13, <2>1
<1>14. CASE ReadTimesOut
  BY EndRests, <1>14 DEF ReadTimesOut
<1>15. CASE Tick
  <2> DEFINE o == IF call.owed > 0 THEN call.owed - 1 ELSE 0
  <2>1. o \in Nat /\ call.clock + 1 \in Nat /\ call.clock + 1 <= Timeout
    BY <1>15 DEF Tick, CallTypes, ReadBy
  <2>2. call' = [call EXCEPT !.clock = call.clock + 1, !.owed = o]
    BY <1>15 DEF Tick
  <2> HIDE DEF o
  <2>3. QED
    BY <2>1, <2>2 DEF CallTypes
<1>16. CASE HubAdmits
  BY ReturnRests, <1>16 DEF HubAdmits, CallTypes
<1>17. QED
  BY <1>1, <1>2, <1>3, <1>4, <1>5, <1>6, <1>7, <1>8, <1>9, <1>10, <1>11, <1>12, <1>13, <1>14, <1>15, <1>16 DEF ProvisioningNext

LEMMA RestTypesKeep ==
  ASSUME ProvisioningInv, ProvisioningNext PROVE CallTypes' => ProvisioningTypes'
<1> USE ProvisioningAssumption DEF ProvisioningInv, Returns, Rest, Due
<1>1. CASE Create
  BY <1>1 DEF Create, ProvisioningTypes, Admissions, CallTypes
<1>2. CASE ApiCreates
  <2>1. CASE UNCHANGED client
    BY <1>2, <2>1 DEF ApiCreates, ProvisioningTypes
  <2>2. CASE \E k : client' = [exists |-> TRUE, kind |-> k, etag |-> 1]
    BY <1>2, <2>2 DEF ApiCreates, ProvisioningTypes
  <2>3. QED
    BY <1>2, <2>1, <2>2 DEF ApiCreates
<1>3. CASE LoseAnswer
  BY <1>3 DEF LoseAnswer, ProvisioningTypes, Admissions, CallTypes
<1>4. CASE Created
  BY <1>4 DEF Created, ProvisioningTypes, Admissions, CallTypes
<1>5. CASE WrongKind
  BY <1>5 DEF WrongKind, ProvisioningTypes, Admissions, CallTypes
<1>6. CASE CreateFails
  BY <1>6 DEF CreateFails, ProvisioningTypes, Admissions, CallTypes
<1>7. CASE DeleteClient
  BY <1>7 DEF DeleteClient, ProvisioningTypes, Admissions, CallTypes
<1>8. CASE ReadEtag
  BY <1>8 DEF ReadEtag, ProvisioningTypes, Admissions, CallTypes, DeleteHears, DeleteEnds, GoneCounts
<1>9. CASE ApiDeletes
  BY <1>9 DEF ApiDeletes, ProvisioningTypes, Admissions, CallTypes, DeleteHears, DeleteEnds, GoneCounts
<1>10. CASE OthersChange
  BY <1>10 DEF OthersChange, ProvisioningTypes, Admissions, CallTypes
<1>11. CASE Wait
  BY <1>11 DEF Wait, ProvisioningTypes, Admissions, CallTypes
<1>12. CASE ApiAnswers
  BY <1>12 DEF ApiAnswers, ProvisioningTypes, Admissions, CallTypes, AskedWait
<1>13. CASE Hear
  BY <1>13 DEF Hear, ProvisioningTypes
<1>14. CASE ReadTimesOut
  BY <1>14 DEF ReadTimesOut, ProvisioningTypes, Admissions, CallTypes
<1>15. CASE Tick
  BY <1>15 DEF Tick, ProvisioningTypes, Admissions, CallTypes
<1>16. CASE HubAdmits
  BY <1>16 DEF HubAdmits, ProvisioningTypes, Admissions, CallTypes
<1>17. QED
  BY <1>1, <1>2, <1>3, <1>4, <1>5, <1>6, <1>7, <1>8, <1>9, <1>10, <1>11, <1>12, <1>13, <1>14, <1>15, <1>16 DEF ProvisioningNext

LEMMA GoneKeeps ==
  ASSUME ProvisioningInv, ProvisioningNext PROVE GoneInv'
<1> USE ProvisioningAssumption DEF ProvisioningInv, Returns, Rest, Due
<1>1. CASE Create
  BY <1>1 DEF Create, ProvisioningTypes, CallTypes, GoneInv, Unasked, Unwanted
<1>2. CASE ApiCreates
  BY <1>2 DEF ApiCreates, ProvisioningTypes, CallTypes, GoneInv, Unasked, Unwanted
<1>3. CASE LoseAnswer
  BY <1>3 DEF LoseAnswer, ProvisioningTypes, CallTypes, GoneInv, Unasked, Unwanted
<1>4. CASE Created
  BY <1>4 DEF Created, RightKind, ProvisioningTypes, CallTypes, GoneInv, Unasked, Unwanted
<1>5. CASE WrongKind
  BY <1>5 DEF WrongKind, ProvisioningTypes, CallTypes, GoneInv, Unasked, Unwanted
<1>6. CASE CreateFails
  BY <1>6 DEF CreateFails, RefusesConnectionType, ProvisioningTypes, CallTypes, GoneInv, Unasked, Unwanted
<1>7. CASE DeleteClient
  BY <1>7 DEF DeleteClient, ProvisioningTypes, CallTypes, GoneInv, Unasked, Unwanted
<1>8. CASE ReadEtag
  BY <1>8 DEF ReadEtag, ProvisioningTypes, CallTypes, GoneInv, Unasked, Unwanted, DeleteHears, DeleteEnds, GoneCounts
<1>9. CASE ApiDeletes
  BY <1>9 DEF ApiDeletes, ProvisioningTypes, CallTypes, GoneInv, Unasked, Unwanted, DeleteHears, DeleteEnds, GoneCounts
<1>10. CASE OthersChange
  BY <1>10 DEF OthersChange, ProvisioningTypes, CallTypes, GoneInv, Unasked, Unwanted
<1>11. CASE Wait
  BY <1>11 DEF Wait, ProvisioningTypes, CallTypes, GoneInv, Unasked, Unwanted
<1>12. CASE ApiAnswers
  BY <1>12 DEF ApiAnswers, ProvisioningTypes, CallTypes, GoneInv, Unasked, Unwanted, AskedWait
<1>13. CASE Hear
  <2>1. /\ CallTypes /\ call.at = "wait" /\ client' = client /\ asked' = asked
        /\ Paced \in Nat
    BY HearsOneWay, <1>13 DEF ProvisioningTypes, CallTypes, Paced
  <2>2. ~Unasked /\ result = "waiting"
    BY <2>1 DEF GoneInv, PatienceInv
  <2>3. \/ result' \in WaitResults
        \/ result' = result /\ call'.at = "wait"
    BY HearsOneWay, PollIsDue, EndRests, <1>13, <2>1
  <2>4. QED
    BY HearsOneWay, PollIsDue, EndRests, <1>13, <2>1, <2>2, <2>3 DEF GoneInv, Unasked, WaitResults
<1>14. CASE ReadTimesOut
  BY <1>14 DEF ReadTimesOut, WaitEnds, ProvisioningTypes, CallTypes, GoneInv, Unasked, Unwanted
<1>15. CASE Tick
  BY <1>15 DEF Tick, ProvisioningTypes, CallTypes, GoneInv, Unasked, Unwanted
<1>16. CASE HubAdmits
  BY <1>16 DEF HubAdmits, ProvisioningTypes, CallTypes, GoneInv, Unasked, Unwanted
<1>17. QED
  BY <1>1, <1>2, <1>3, <1>4, <1>5, <1>6, <1>7, <1>8, <1>9, <1>10, <1>11, <1>12, <1>13, <1>14, <1>15, <1>16 DEF ProvisioningNext

LEMMA PatienceKeeps ==
  ASSUME ProvisioningInv, ProvisioningNext PROVE PatienceInv'
<1> USE ProvisioningAssumption DEF ProvisioningInv, Returns, Rest, Due
<1>1. CASE Create
  BY <1>1 DEF Create, ProvisioningTypes, CallTypes, PatienceInv, GoneInv, Admissions, WaitResults, Paced
<1>2. CASE ApiCreates
  BY <1>2 DEF ApiCreates, ProvisioningTypes, CallTypes, PatienceInv, GoneInv, Admissions, WaitResults, Paced
<1>3. CASE LoseAnswer
  BY <1>3 DEF LoseAnswer, ProvisioningTypes, CallTypes, PatienceInv, GoneInv, Admissions, WaitResults, Paced
<1>4. CASE Created
  BY <1>4 DEF Created, ProvisioningTypes, CallTypes, PatienceInv, GoneInv, Admissions, WaitResults, Paced
<1>5. CASE WrongKind
  BY <1>5 DEF WrongKind, ProvisioningTypes, CallTypes, PatienceInv, GoneInv, Admissions, WaitResults, Paced
<1>6. CASE CreateFails
  BY <1>6 DEF CreateFails, ProvisioningTypes, CallTypes, PatienceInv, GoneInv, Admissions, WaitResults, Paced
<1>7. CASE DeleteClient
  BY <1>7 DEF DeleteClient, ProvisioningTypes, CallTypes, PatienceInv, GoneInv, Admissions, WaitResults, Paced
<1>8. CASE ReadEtag
  BY <1>8 DEF ReadEtag, ProvisioningTypes, CallTypes, PatienceInv, GoneInv, Admissions, WaitResults, Paced, DeleteHears, DeleteEnds, GoneCounts
<1>9. CASE ApiDeletes
  BY <1>9 DEF ApiDeletes, ProvisioningTypes, CallTypes, PatienceInv, GoneInv, Admissions, WaitResults, Paced, DeleteHears, DeleteEnds, GoneCounts
<1>10. CASE OthersChange
  BY <1>10 DEF OthersChange, ProvisioningTypes, CallTypes, PatienceInv, GoneInv, Admissions, WaitResults, Paced
<1>11. CASE Wait
  <2>0. /\ call.at = "idle" /\ result = "created" /\ operation' = operation
        /\ CallTypes /\ PatienceInv /\ call.owed = 0 /\ call.heard = "none"
    BY <1>11 DEF Wait, ProvisioningTypes, PatienceInv
  <2>1. CASE \E r \in {"admitted_untracked", "invalid"} : Returns(r)
    BY ReturnRests, <2>0, <2>1 DEF PatienceInv, WaitResults
  <2>2. CASE call' = [call EXCEPT !.at = "wait", !.next = 0] /\ result' = "waiting"
    <3>1. call'.at = "wait" /\ call'.heard = call.heard /\ call'.owed = call.owed
      BY <2>0, <2>2 DEF CallTypes
    <3>2. QED
      BY <2>0, <2>2, <3>1 DEF PatienceInv, WaitResults
  <2>3. QED
    BY <1>11, <2>1, <2>2 DEF Wait
<1>12. CASE ApiAnswers
  BY <1>12 DEF ApiAnswers, ProvisioningTypes, CallTypes, PatienceInv, GoneInv, Admissions, WaitResults, AskedWait
<1>13. CASE Hear
  <2>0. CallTypes /\ PatienceInv /\ operation' = operation /\ call.at = "wait" /\ result = "waiting"
    BY HearsOneWay, <1>13 DEF ProvisioningTypes, PatienceInv
  <2>1. ASSUME NEW r \in WaitResults, WaitEnds(r),
               r = "admitted" => call.heard \in {"ready", "404"},
               r = "admission_failed" => call.heard \in {"failed", "timed_out"},
               r = "admission_timeout" => Left = 0 \/ (call.heard = "429" /\ Paced > Left)
        PROVE  PatienceInv'
    <3>1. /\ result' = r /\ call'.at = "idle" /\ call'.heard = call.heard
          /\ call'.owed = call.owed /\ call'.clock = call.clock /\ Paced' = Paced
      BY EndRests, <2>0, <2>1 DEF Paced
    <3>2. r = "admitted" => operation = "ready" \/ call.heard = "404"
      BY <2>0, <2>1 DEF PatienceInv
    <3>3. r = "admission_failed" => operation \in {"failed", "timed_out"}
      BY <2>0, <2>1 DEF PatienceInv
    <3>4. r = "admission_timeout" =>
            call.clock = Timeout \/ (call.heard = "429" /\ call.clock + Paced > Timeout)
      BY <2>0, <2>1 DEF CallTypes, Left, Paced
    <3>5. QED
      BY <2>0, <2>1, <3>1, <3>2, <3>3, <3>4 DEF PatienceInv, WaitResults
  <2>2. CASE call.heard = "429" /\ Paced <= Left /\ Left # 0 /\ PollsAfter(Paced)
    <3>1. Paced \in Nat /\ call.owed <= Paced
      BY <2>0 DEF CallTypes, Paced
    <3>2. /\ result' = result /\ call'.at = "wait" /\ call'.heard = "none"
          /\ call'.owed = call.owed /\ call'.clock + Paced = call'.next
          /\ call'.clock \in Nat /\ call'.owed \in Nat
      BY PollIsDue, <2>0, <2>2, <3>1 DEF CallTypes
    <3>3. call'.clock + call'.owed <= call'.next
      BY <3>1, <3>2
    <3>4. QED
      BY <2>0, <3>2, <3>3 DEF PatienceInv, WaitResults
  <2>3. CASE call.heard \notin {"429", "failed", "timed_out"} /\ Left # 0 /\ PollsAfter(Poll)
    <3>1. /\ result' = result /\ call'.at = "wait" /\ call'.heard = "none"
          /\ call'.owed = call.owed
      BY PollIsDue, <2>0, <2>3
    <3>2. call.owed = 0
      BY HearsOneWay, <1>13, <2>0, <2>3 DEF PatienceInv
    <3>3. QED
      BY <2>0, <3>1, <3>2 DEF PatienceInv, WaitResults
  <2>4. QED
    BY HearsOneWay, <1>13, <2>0, <2>1, <2>2, <2>3
<1>14. CASE ReadTimesOut
  BY <1>14 DEF ReadTimesOut, ReadBy, WaitEnds, ProvisioningTypes, CallTypes, PatienceInv, GoneInv, Admissions, WaitResults, Paced
<1>15. CASE Tick
  BY <1>15 DEF Tick, ProvisioningTypes, CallTypes, PatienceInv, GoneInv, Admissions, WaitResults, Paced
<1>16. CASE HubAdmits
  BY <1>16 DEF HubAdmits, ProvisioningTypes, CallTypes, PatienceInv, GoneInv, Admissions, WaitResults, Paced
<1>17. QED
  BY <1>1, <1>2, <1>3, <1>4, <1>5, <1>6, <1>7, <1>8, <1>9, <1>10, <1>11, <1>12, <1>13, <1>14, <1>15, <1>16 DEF ProvisioningNext

LEMMA ProvisioningStutters ==
  ASSUME ProvisioningInv, UNCHANGED provisionVars PROVE ProvisioningInv'
  BY DEF provisionVars, ProvisioningInv, ProvisioningTypes, CallTypes, GoneInv, PatienceInv,
         Unasked, Paced, WaitResults

LEMMA ProvisioningKeeps == ProvisioningInit /\ [][ProvisioningNext]_provisionVars => []ProvisioningInv
<1>1. ProvisioningInit => ProvisioningInv
  BY ProvisioningStarts
<1>2. ProvisioningInv /\ [ProvisioningNext]_provisionVars => ProvisioningInv'
  BY CallTypesKeep, RestTypesKeep, GoneKeeps, PatienceKeeps, ProvisioningStutters DEF ProvisioningInv
<1>3. QED
  BY <1>1, <1>2, PTL

(* A connection of a kind that was not asked for is not left behind in     *)
(* silence, through every change, refusal and lost answer                  *)
(* (require_connection_type, delete_client).                               *)
THEOREM GoneOrTold == ProvisioningSpec => []UnwantedGoneOrTold
<1>1. ProvisioningInv => UnwantedGoneOrTold
  BY DEF ProvisioningInv, GoneInv, Unasked, UnwantedGoneOrTold
<1>2. QED
  BY <1>1, ProvisioningKeeps, PTL DEF ProvisioningSpec

(* What the wait for admission ends with is what the hub came to, or that  *)
(* its time is over, and no poll comes before the wait the API asked for   *)
(* is over (wait_for_admission).                                           *)
THEOREM AdmissionsAreTrue ==
  ProvisioningSpec => [](AdmissionIsTheHubs /\ AskedWaitIsKept)
<1>1. ProvisioningInv => AdmissionIsTheHubs
  BY ProvisioningAssumption DEF ProvisioningInv, ProvisioningTypes, CallTypes, PatienceInv, AdmissionIsTheHubs
<1>2. ProvisioningInv => AskedWaitIsKept
  BY ProvisioningAssumption DEF ProvisioningInv, ProvisioningTypes, CallTypes, PatienceInv, AskedWaitIsKept, Due
<1>3. QED
  BY <1>1, <1>2, ProvisioningKeeps, PTL DEF ProvisioningSpec

-----------------------------------------------------------------------------
(* Signing: a plane forgets a token only when it is dead, and obeys a      *)
(* "slow down" for good.                                                   *)

Ops ==
  [kind : {"idle", "password", "native", "authorize", "browser", "poll", "revoke"},
   at : Codes \cup Natives \cup ApiTokens \cup {None},
   phase : {"done", "sent", "answered", "asleep"},
   answer : {"none", "token", "refused", "grant", "pending", "denied", "expired", "slow_down",
             "ok", "401", "404", "failed"},
   token : Signing!Tokens \cup {None}, wait : Nat, rest : Nat, elapsed : Nat]

SigningTypes ==
  /\ op \in [Planes -> Ops]
  /\ held \in [Planes -> Signing!Tokens \cup {None}]
  /\ heldId \in [Planes -> ApiTokens \cup {None}]
  /\ revokedOwn \in [Planes -> BOOLEAN]
  /\ intervals \in [Planes -> [Codes -> Nat \cup {None}]]
  /\ heard \in [Planes -> [Codes -> Nat]]
  /\ code \in [Codes -> {"new", "pending", "approved", "denied", "expired"}]
  /\ grants \subseteq Codes

(* An answer that will make a plane take or forget a token says what is so *)
(* at the API.                                                             *)
AnswerIsSo(p) ==
  /\ op[p].answer = "token" => op[p].token # None
  /\ op[p].answer = "grant" => op[p].at \in Codes
  /\ op[p].kind = "browser" /\ op[p].answer \in {"token", "pending", "slow_down"} =>
       op[p].at # None
  /\ op[p].kind = "revoke" => op[p].at # None
  /\ op[p].kind = "revoke" /\ op[p].answer = "ok" => op[p].at \in dead
  /\ op[p].kind = "revoke" /\ op[p].answer = "401" => held[p] \in dead

AnswersInv == \A p \in Planes : AnswerIsSo(p)

(* The call that is being given code c, or that alone polls it.            *)
Has(p, c) == op[p].kind \in {"authorize", "browser"} /\ op[p].at = c

(* A code is new, or was given to one call, or to the application; until   *)
(* the application has it, no plane has an interval for it, and until it   *)
(* is polled, none has heard of it.                                        *)
GrantsInv ==
  /\ \A c \in Codes : code[c] = "new" =>
       c \notin grants /\ \A p \in Planes : ~Has(p, c) /\ heard[p][c] = 0
  /\ \A c \in grants, p \in Planes : ~Has(p, c)
  /\ \A p, q \in Planes, c \in Codes : Has(p, c) /\ Has(q, c) => p = q
  /\ \A p, q \in Planes, c \in Codes :
       Has(p, c) /\ op[p].kind = "authorize" => heard[q][c] = 0
  /\ \A p \in Planes : op[p].kind \in {"authorize", "browser"} => op[p].at \in Codes \cup {None}

(* The interval of a code is what its poll waits, and as long as all the   *)
(* slow_downs ask.                                                         *)
IntervalsInv ==
  /\ \A p \in Planes : op[p].kind = "poll" =>
       op[p].at \in grants /\ intervals[p][op[p].at] = op[p].wait
  /\ \A p \in Planes, c \in Codes : intervals[p][c] # None => c \in grants
  /\ \A p \in Planes, c \in grants : intervals[p][c] = None => heard[p][c] = 0
  /\ Signing!SlowDownIsForGood

SigningInv ==
  SigningTypes /\ AnswersInv /\ GrantsInv /\ IntervalsInv /\ Signing!IdNamesToken

LEMMA SigningStarts ==
  ASSUME Signing!SignInAssumption, Signing!SignInInit PROVE SigningInv
<1> USE DEF Signing!SignInAssumption, Signing!SignInInit
<1>1. Signing!Idle \in Ops /\ Signing!Idle.kind = "idle" /\ Signing!Idle.answer = "none"
  BY DEF Signing!Idle, Ops
<1>2. SigningTypes
  BY <1>1 DEF SigningTypes
<1>3. AnswersInv
  BY <1>1 DEF AnswersInv, AnswerIsSo
<1>4. GrantsInv
  BY <1>1 DEF GrantsInv, Has
<1>5. IntervalsInv /\ Signing!IdNamesToken
  BY <1>1 DEF IntervalsInv, Signing!SlowDownIsForGood, Signing!IdNamesToken
<1>6. QED
  BY <1>2, <1>3, <1>4, <1>5 DEF SigningInv

(* What the four ways of moving a call leave of it.                        *)
LEMMA CallMoves ==
  ASSUME SigningTypes, NEW p \in Planes, NEW o \in Ops, op' = [op EXCEPT ![p] = o]
  PROVE  op' \in [Planes -> Ops] /\ op'[p] = o /\ \A q \in Planes \ {p} : op'[q] = op[q]
  BY DEF SigningTypes

LEMMA CallEnds ==
  ASSUME SigningTypes, NEW p \in Planes, op' = [op EXCEPT ![p] = Signing!Idle]
  PROVE  /\ op' \in [Planes -> Ops] /\ \A q \in Planes \ {p} : op'[q] = op[q]
         /\ op'[p].kind = "idle" /\ op'[p].at = None /\ op'[p].answer = "none"
<1>1. Signing!Idle \in Ops
  BY DEF Signing!Idle, Ops
<1>2. QED
  BY <1>1, CallMoves DEF Signing!Idle

LEMMA AsksIs ==
  ASSUME NEW k, NEW what
  PROVE  Signing!Asks(k, what) =
           [kind |-> k, at |-> what, phase |-> "sent", answer |-> "none", token |-> None,
            wait |-> 0, rest |-> 0, elapsed |-> 0]
<1> DEFINE a == [Signing!Idle EXCEPT !.kind = k]
           b == [a EXCEPT !.at = what]
           c == [b EXCEPT !.phase = "sent"]
<1>1. a = [kind |-> k, at |-> None, phase |-> "done", answer |-> "none", token |-> None,
            wait |-> 0, rest |-> 0, elapsed |-> 0]
  BY DEF Signing!Idle
<1>2. Signing!Asks(k, what) = c
  BY DEF Signing!Asks
<1> HIDE DEF a
<1>3. b = [kind |-> k, at |-> what, phase |-> "done", answer |-> "none", token |-> None,
            wait |-> 0, rest |-> 0, elapsed |-> 0]
  BY <1>1
<1> HIDE DEF b
<1>4. QED
  BY <1>2, <1>3

LEMMA CallStarts ==
  ASSUME SigningTypes, NEW p \in Planes,
         NEW k \in {"password", "native", "authorize", "browser", "poll", "revoke"},
         NEW what \in Codes \cup Natives \cup ApiTokens \cup {None}, NEW w \in Nat,
         op' = [op EXCEPT ![p] = [Signing!Asks(k, what) EXCEPT !.wait = w]]
  PROVE  /\ op' \in [Planes -> Ops] /\ \A q \in Planes \ {p} : op'[q] = op[q]
         /\ op'[p].kind = k /\ op'[p].at = what /\ op'[p].answer = "none" /\ op'[p].wait = w
<1> DEFINE o == [Signing!Asks(k, what) EXCEPT !.wait = w]
<1>0. op' = [op EXCEPT ![p] = o]
  OBVIOUS
<1>1. o = [kind |-> k, at |-> what, phase |-> "sent", answer |-> "none", token |-> None,
           wait |-> w, rest |-> 0, elapsed |-> 0]
  BY AsksIs
<1>2. o \in Ops
  BY <1>1 DEF Ops
<1> HIDE DEF o
<1>3. op' \in [Planes -> Ops] /\ op'[p] = o /\ \A q \in Planes \ {p} : op'[q] = op[q]
  BY <1>0, <1>2, CallMoves
<1>4. QED
  BY <1>1, <1>3

LEMMA PlainCallStarts ==
  ASSUME SigningTypes, NEW p \in Planes,
         NEW k \in {"password", "native", "authorize", "browser", "poll", "revoke"},
         NEW what \in Codes \cup Natives \cup ApiTokens \cup {None},
         Signing!Call(p, Signing!Asks(k, what))
  PROVE  /\ op[p] = Signing!Idle
         /\ op' \in [Planes -> Ops] /\ \A q \in Planes \ {p} : op'[q] = op[q]
         /\ op'[p].kind = k /\ op'[p].at = what /\ op'[p].answer = "none"
<1>1. Signing!Asks(k, what) = [Signing!Asks(k, what) EXCEPT !.wait = 0]
  BY AsksIs
<1>2. op[p] = Signing!Idle /\ op' = [op EXCEPT ![p] = Signing!Asks(k, what)]
  BY DEF Signing!Call, Signing!MayCall
<1>3. op' = [op EXCEPT ![p] = [Signing!Asks(k, what) EXCEPT !.wait = 0]]
  BY <1>1, <1>2
<1>4. /\ op' \in [Planes -> Ops] /\ \A q \in Planes \ {p} : op'[q] = op[q]
      /\ op'[p].kind = k /\ op'[p].at = what /\ op'[p].answer = "none"
  <2>1. 0 \in Nat
    OBVIOUS
  <2>2. QED
    BY <1>3, <2>1, CallStarts, ZenonT(30)
<1>5. QED
  BY <1>2, <1>4

LEMMA CallHears ==
  ASSUME SigningTypes, NEW p \in Planes,
         NEW what \in {"token", "refused", "pending", "denied", "expired", "slow_down",
                        "ok", "401", "404", "failed"},
         NEW t \in Signing!Tokens \cup {None}, Signing!Answer(p, what, t)
  PROVE  /\ op' \in [Planes -> Ops] /\ \A q \in Planes \ {p} : op'[q] = op[q]
         /\ op'[p].kind = op[p].kind /\ op'[p].at = op[p].at /\ op'[p].wait = op[p].wait
         /\ op'[p].answer = what /\ op'[p].token = t
<1> DEFINE o == [op[p] EXCEPT !.phase = "answered", !.answer = what, !.token = t]
<1>1. op[p] \in Ops
  BY DEF SigningTypes
<1>2. /\ o \in Ops /\ o.kind = op[p].kind /\ o.at = op[p].at /\ o.wait = op[p].wait
      /\ o.answer = what /\ o.token = t
  BY <1>1, ZenonT(60) DEF Ops
<1>3. op' = [op EXCEPT ![p] = o]
  BY DEF Signing!Answer, SigningTypes
<1> HIDE DEF o
<1>4. QED
  BY <1>2, <1>3, CallMoves

(* A step that leaves the intervals and the grants as they are, and moves  *)
(* at most one plane's call, to no code it did not have.                   *)
LEMMA PlaneStep ==
  ASSUME Signing!SignInAssumption, SigningInv, NEW p \in Planes,
         held' \in [Planes -> Signing!Tokens \cup {None}],
         heldId' \in [Planes -> ApiTokens \cup {None}], revokedOwn' \in [Planes -> BOOLEAN],
         \A q \in Planes \ {p} : held'[q] = held[q], Signing!IdNamesToken',
         UNCHANGED <<intervals, heard, grants>>,
         code' \in [Codes -> {"new", "pending", "approved", "denied", "expired"}],
         \A c \in Codes : code'[c] = "new" => code[c] = "new",
         dead \subseteq dead',
         op' \in [Planes -> Ops], \A q \in Planes \ {p} : op'[q] = op[q],
         AnswerIsSo(p)',
         op'[p].kind \in {"authorize", "browser"} =>
           op'[p].at = None \/ (op[p].kind = op'[p].kind /\ op[p].at = op'[p].at),
         op'[p].kind = "poll" =>
           op[p].kind = "poll" /\ op[p].at = op'[p].at /\ op[p].wait = op'[p].wait
  PROVE  SigningInv'
<1>1. SigningTypes'
  BY DEF SigningInv, SigningTypes
<1>2. \A q \in Planes \ {p} : AnswerIsSo(q)'
  BY DEF SigningInv, AnswersInv, AnswerIsSo
<1>3. \A q \in Planes, c \in Codes : Has(q, c)' => Has(q, c) /\ op'[q].kind = op[q].kind
  <2>1. None \notin Codes
    BY DEF Signing!SignInAssumption
  <2>2. QED
    BY <2>1 DEF Has
<1>4. GrantsInv'
  <2>1. \A q \in Planes : op'[q].kind \in {"authorize", "browser"} => op'[q].at \in Codes \cup {None}
    BY DEF SigningInv, GrantsInv
  <2>2. grants \subseteq Codes /\ grants' = grants /\ heard' = heard
    BY DEF SigningInv, SigningTypes
  <2>3. \A c \in Codes : code'[c] = "new" =>
          c \notin grants /\ \A q \in Planes : ~Has(q, c)' /\ heard[q][c] = 0
    BY <1>3 DEF SigningInv, GrantsInv
  <2>4. /\ \A c \in grants, q \in Planes : ~Has(q, c)'
        /\ \A q, r \in Planes, c \in Codes : Has(q, c)' /\ Has(r, c)' => q = r
        /\ \A q, r \in Planes, c \in Codes :
             Has(q, c)' /\ op'[q].kind = "authorize" => heard[r][c] = 0
    BY <1>3, <2>2 DEF SigningInv, GrantsInv
  <2>5. QED
    BY <2>1, <2>2, <2>3, <2>4 DEF GrantsInv
<1>5. IntervalsInv'
  <2>1. \A q \in Planes : op'[q].kind = "poll" =>
          op[q].kind = "poll" /\ op[q].at = op'[q].at /\ op[q].wait = op'[q].wait
    OBVIOUS
  <2>2. QED
    BY <2>1 DEF SigningInv, IntervalsInv, Signing!SlowDownIsForGood
<1>6. QED
  BY <1>1, <1>2, <1>4, <1>5 DEF SigningInv, AnswersInv

(* The same, of a step that leaves what the planes hold as it is.          *)
LEMMA QuietStep ==
  ASSUME Signing!SignInAssumption, SigningInv, NEW p \in Planes,
         UNCHANGED <<held, heldId, revokedOwn, intervals, heard, grants>>,
         code' \in [Codes -> {"new", "pending", "approved", "denied", "expired"}],
         \A c \in Codes : code'[c] = "new" => code[c] = "new",
         dead \subseteq dead',
         op' \in [Planes -> Ops], \A q \in Planes \ {p} : op'[q] = op[q],
         AnswerIsSo(p)',
         op'[p].kind \in {"authorize", "browser"} =>
           op'[p].at = None \/ (op[p].kind = op'[p].kind /\ op[p].at = op'[p].at),
         op'[p].kind = "poll" =>
           op[p].kind = "poll" /\ op[p].at = op'[p].at /\ op[p].wait = op'[p].wait
  PROVE  SigningInv'
<1>1. /\ held' \in [Planes -> Signing!Tokens \cup {None}]
      /\ heldId' \in [Planes -> ApiTokens \cup {None}] /\ revokedOwn' \in [Planes -> BOOLEAN]
      /\ \A q \in Planes \ {p} : held'[q] = held[q]
      /\ Signing!IdNamesToken' /\ UNCHANGED <<intervals, heard, grants>>
  BY DEF SigningInv, SigningTypes, Signing!IdNamesToken
<1>2. QED
  BY <1>1, PlaneStep

LEMMA StartsKeep ==
  ASSUME Signing!SignInAssumption, SigningInv, NEW p \in Planes,
         \/ Signing!Login(p) \/ Signing!BeginDevice(p) \/ Signing!LoginWithBrowser(p)
         \/ \E n \in Natives : Signing!CompleteNative(p, n)
         \/ \E t \in ApiTokens \cup {None} : Signing!Revoke(p, t)
  PROVE  SigningInv'
<1>1. SigningTypes
  BY DEF SigningInv
<1>2. /\ UNCHANGED <<held, heldId, revokedOwn, intervals, heard, grants>>
      /\ code' = code /\ dead' = dead
  BY DEF Signing!Login, Signing!BeginDevice, Signing!LoginWithBrowser, Signing!CompleteNative,
         Signing!Revoke, Signing!planeVars, Signing!apiVars
<1>3. PICK k \in {"password", "native", "authorize", "browser", "revoke"},
           what \in Codes \cup Natives \cup ApiTokens \cup {None} :
        /\ Signing!Call(p, Signing!Asks(k, what))
        /\ k \in {"authorize", "browser"} => what = None
        /\ k = "revoke" => what # None
  <2>1. CASE \E t \in ApiTokens \cup {None} : Signing!Revoke(p, t)
    <3>1. PICK t \in ApiTokens \cup {None} : Signing!Revoke(p, t)
      BY <2>1
    <3>2. heldId[p] \in ApiTokens \cup {None}
      BY <1>1 DEF SigningTypes
    <3>3. QED
      BY <3>1, <3>2 DEF Signing!Revoke
  <2>2. CASE \E n \in Natives : Signing!CompleteNative(p, n)
    BY <2>2 DEF Signing!CompleteNative
  <2>3. CASE Signing!Login(p) \/ Signing!BeginDevice(p) \/ Signing!LoginWithBrowser(p)
    BY <2>3 DEF Signing!Login, Signing!BeginDevice, Signing!LoginWithBrowser
  <2>4. QED
    BY <2>1, <2>2, <2>3
<1>4. /\ op' \in [Planes -> Ops] /\ \A q \in Planes \ {p} : op'[q] = op[q]
      /\ op'[p].kind = k /\ op'[p].at = what /\ op'[p].answer = "none"
  BY <1>1, <1>3, PlainCallStarts
<1>5. AnswerIsSo(p)'
  BY <1>3, <1>4 DEF AnswerIsSo
<1>6. QED
  BY <1>1, <1>2, <1>3, <1>4, <1>5, QuietStep DEF SigningTypes

LEMMA StopsKeep ==
  ASSUME Signing!SignInAssumption, SigningInv, NEW p \in Planes,
         Signing!RevokeNothing(p) \/ Signing!Dropped(p)
  PROVE  SigningInv'
<1>1. SigningTypes
  BY DEF SigningInv
<1>2. /\ UNCHANGED <<held, heldId, revokedOwn, intervals, heard, grants>>
      /\ code' = code /\ dead' = dead
  BY DEF Signing!RevokeNothing, Signing!Dropped, Signing!planeVars, Signing!apiVars
<1>3. CASE Signing!RevokeNothing(p)
  <2>1. op' = op
    BY <1>3 DEF Signing!RevokeNothing
  <2>2. AnswerIsSo(p)'
    BY <1>2, <2>1 DEF SigningInv, AnswersInv, AnswerIsSo
  <2>3. QED
    BY <1>1, <1>2, <2>1, <2>2, QuietStep DEF SigningTypes, SigningInv, GrantsInv
<1>4. CASE Signing!Dropped(p)
  <2>1. /\ op' \in [Planes -> Ops] /\ \A q \in Planes \ {p} : op'[q] = op[q]
        /\ op'[p].kind = "idle" /\ op'[p].answer = "none"
    BY <1>1, <1>4, CallEnds DEF Signing!Dropped
  <2>2. AnswerIsSo(p)'
    BY <2>1 DEF AnswerIsSo
  <2>3. QED
    BY <1>1, <1>2, <2>1, <2>2, QuietStep DEF SigningTypes
<1>5. QED
  BY <1>3, <1>4

(* The API answers a request; a code it has answered is new no more.       *)
LEMMA AnswersKeep ==
  ASSUME Signing!SignInAssumption, SigningInv, NEW p \in Planes,
         \/ Signing!ApiLogsIn(p) \/ Signing!ApiExchanges(p) \/ Signing!ApiPolled(p)
         \/ Signing!ApiRevokes(p) \/ Signing!AnswerFails(p)
  PROVE  SigningInv'
<1>1. SigningTypes
  BY DEF SigningInv
<1>2. /\ UNCHANGED <<held, heldId, revokedOwn, intervals, heard, grants>>
      /\ dead \subseteq dead'
  BY DEF Signing!ApiLogsIn, Signing!ApiExchanges, Signing!ApiPolled, Signing!ApiRevokes,
         Signing!AnswerFails, Signing!planeVars, Signing!apiVars
<1>3. /\ code' \in [Codes -> {"new", "pending", "approved", "denied", "expired"}]
      /\ \A c \in Codes : code'[c] = "new" => code[c] = "new"
  <2>1. code' = code \/ \E c : code' = [code EXCEPT ![c] = "expired"]
    BY DEF Signing!ApiLogsIn, Signing!ApiExchanges, Signing!ApiPolled, Signing!ApiRevokes,
           Signing!AnswerFails, Signing!apiVars
  <2>2. QED
    BY <1>1, <2>1 DEF SigningTypes
<1>4. PICK what \in {"token", "refused", "pending", "denied", "expired", "slow_down",
                     "ok", "401", "404", "failed"}, t \in Signing!Tokens \cup {None} :
        /\ Signing!Answer(p, what, t)
        /\ what = "token" => t # None
        /\ op[p].kind = "browser" /\ what \in {"token", "pending", "slow_down"} =>
             op[p].at # None
        /\ op[p].kind = "revoke" /\ what = "ok" => op[p].at \in dead'
        /\ op[p].kind = "revoke" /\ what = "401" => held[p] \in dead'
  <2>0. ApiTokens \subseteq Signing!Tokens /\ Sessions \subseteq Signing!Tokens /\ None \notin Signing!Tokens
    BY DEF Signing!Tokens, Signing!SignInAssumption
  <2>1. CASE Signing!ApiLogsIn(p)
    BY <2>0, <2>1 DEF Signing!ApiLogsIn, Signing!Mints
  <2>2. CASE Signing!ApiExchanges(p)
    <3>1. CASE native[op[p].at] = None
      BY <2>0, <2>2, <3>1 DEF Signing!ApiExchanges, Signing!Mints
    <3>2. CASE native[op[p].at] # None
      BY <2>2, <3>2 DEF Signing!ApiExchanges
    <3>3. QED
      BY <3>1, <3>2
  <2>3. CASE Signing!ApiPolled(p)
    BY <2>0, <2>3 DEF Signing!ApiPolled, Signing!Polling, Signing!Mints
  <2>4. CASE Signing!ApiRevokes(p)
    BY <1>2, <2>4 DEF Signing!ApiRevokes
  <2>5. CASE Signing!AnswerFails(p)
    BY <2>5 DEF Signing!AnswerFails
  <2>6. QED
    BY <2>1, <2>2, <2>3, <2>4, <2>5
<1>5. /\ op' \in [Planes -> Ops] /\ \A q \in Planes \ {p} : op'[q] = op[q]
      /\ op'[p].kind = op[p].kind /\ op'[p].at = op[p].at /\ op'[p].wait = op[p].wait
      /\ op'[p].answer = what /\ op'[p].token = t
  BY <1>1, <1>4, CallHears
<1>6. AnswerIsSo(p)'
  BY <1>2, <1>4, <1>5 DEF AnswerIsSo, SigningInv, AnswersInv
<1>7. QED
  BY <1>2, <1>3, <1>5, <1>6, QuietStep

LEMMA WorldKeeps ==
  ASSUME Signing!SignInAssumption, SigningInv, NEW p \in Planes,
         \/ \E c \in Codes : Signing!Decides(c)
         \/ \E t \in ApiTokens : Signing!Expires(t)
  PROVE  SigningInv'
<1>1. SigningTypes
  BY DEF SigningInv
<1>2. /\ UNCHANGED <<held, heldId, revokedOwn, intervals, heard, grants>> /\ op' = op
      /\ dead \subseteq dead'
  BY DEF Signing!Decides, Signing!Expires, Signing!planeVars
<1>3. /\ code' \in [Codes -> {"new", "pending", "approved", "denied", "expired"}]
      /\ \A c \in Codes : code'[c] = "new" => code[c] = "new"
  BY <1>1 DEF SigningTypes, Signing!Decides, Signing!Expires
<1>4. AnswerIsSo(p)'
  BY <1>2 DEF SigningInv, AnswersInv, AnswerIsSo
<1>5. QED
  BY <1>1, <1>2, <1>3, <1>4, QuietStep DEF SigningTypes, SigningInv, GrantsInv

(* The clock of a browser's login, and its next poll.                      *)
LEMMA ClockKeeps ==
  ASSUME Signing!SignInAssumption, SigningInv, NEW p \in Planes,
         Signing!Passes(p) \/ Signing!AsksAgain(p)
  PROVE  SigningInv'
<1>1. SigningTypes /\ op[p] \in Ops
  BY DEF SigningInv, SigningTypes
<1>2. /\ UNCHANGED <<held, heldId, revokedOwn, intervals, heard, grants>>
      /\ code' = code /\ dead' = dead
  BY DEF Signing!Passes, Signing!AsksAgain, Signing!planeVars, Signing!apiVars
<1>3. PICK o \in Ops : /\ op' = [op EXCEPT ![p] = o] /\ o.kind = op[p].kind /\ o.at = op[p].at
                       /\ o.wait = op[p].wait /\ o.answer = op[p].answer /\ o.token = op[p].token
  <2>1. CASE Signing!Passes(p)
    <3> DEFINE left == IF op[p].rest > 0 THEN op[p].rest - 1 ELSE 0
               o == [op[p] EXCEPT !.elapsed = op[p].elapsed + 1, !.rest = left]
    <3>1. left \in Nat /\ op[p].elapsed + 1 \in Nat
      BY <1>1 DEF Ops
    <3>2. op' = [op EXCEPT ![p] = o]
      BY <1>1, <2>1 DEF Signing!Passes, SigningTypes
    <3> HIDE DEF left
    <3>3. /\ o \in Ops /\ o.kind = op[p].kind /\ o.at = op[p].at
          /\ o.wait = op[p].wait /\ o.answer = op[p].answer /\ o.token = op[p].token
      BY <1>1, <3>1 DEF Ops
    <3>4. QED
      BY <3>2, <3>3
  <2>2. CASE Signing!AsksAgain(p)
    <3> DEFINE o == [op[p] EXCEPT !.phase = "sent"]
    <3>1. op' = [op EXCEPT ![p] = o]
      BY <2>2 DEF Signing!AsksAgain
    <3>2. /\ o \in Ops /\ o.kind = op[p].kind /\ o.at = op[p].at
          /\ o.wait = op[p].wait /\ o.answer = op[p].answer /\ o.token = op[p].token
      BY <1>1 DEF Ops
    <3>3. QED
      BY <3>1, <3>2
  <2>3. QED
    BY <2>1, <2>2
<1>4. op' \in [Planes -> Ops] /\ op'[p] = o /\ \A q \in Planes \ {p} : op'[q] = op[q]
  BY <1>1, <1>3, CallMoves
<1>5. AnswerIsSo(p)'
  BY <1>2, <1>3, <1>4 DEF SigningInv, AnswersInv, AnswerIsSo
<1>6. QED
  BY <1>1, <1>2, <1>3, <1>4, <1>5, QuietStep DEF SigningTypes

(* A step that hears of one code, which the application or this call has,  *)
(* and changes no other interval.                                          *)
LEMMA HearingStep ==
  ASSUME Signing!SignInAssumption, SigningInv, NEW p \in Planes, NEW c \in Codes,
         held' \in [Planes -> Signing!Tokens \cup {None}],
         heldId' \in [Planes -> ApiTokens \cup {None}], revokedOwn' \in [Planes -> BOOLEAN],
         \A q \in Planes \ {p} : held'[q] = held[q], Signing!IdNamesToken',
         UNCHANGED <<code, dead, grants>>,
         op' \in [Planes -> Ops], \A q \in Planes \ {p} : op'[q] = op[q],
         AnswerIsSo(p)',
         intervals' \in [Planes -> [Codes -> Nat \cup {None}]],
         heard' \in [Planes -> [Codes -> Nat]],
         \A q \in Planes, d \in Codes : q # p \/ d # c =>
           intervals'[q][d] = intervals[q][d] /\ heard'[q][d] = heard[q][d],
         c \in grants \/ (op[p].kind = "browser" /\ op[p].at = c),
         op'[p].kind \in {"authorize", "browser"} =>
           op[p].kind = op'[p].kind /\ op[p].at = op'[p].at,
         op'[p].kind = "poll" => op'[p].at = c /\ c \in grants /\ intervals'[p][c] = op'[p].wait,
         intervals'[p][c] # None =>
           c \in grants /\ intervals'[p][c] >= Interval + SlowDown * heard'[p][c],
         c \in grants /\ intervals'[p][c] = None => heard'[p][c] = 0
  PROVE  SigningInv'
<1>1. SigningTypes'
  BY DEF SigningInv, SigningTypes
<1>2. AnswersInv'
  <2>1. ASSUME NEW q \in Planes \ {p} PROVE AnswerIsSo(q)'
    <3>1. AnswerIsSo(q) /\ op'[q] = op[q] /\ held'[q] = held[q] /\ dead' = dead
      BY DEF SigningInv, AnswersInv
    <3>2. QED
      BY <3>1 DEF AnswerIsSo
  <2>2. QED
    BY <2>1 DEF AnswersInv
<1>3. \A q \in Planes, d \in Codes : Has(q, d)' => Has(q, d) /\ op'[q].kind = op[q].kind
  BY DEF Has
<1>4. GrantsInv'
  <2>1. grants \subseteq Codes /\ grants' = grants /\ code' = code
    BY DEF SigningInv, SigningTypes
  <2>2. \A q \in Planes : op'[q].kind \in {"authorize", "browser"} => op'[q].at \in Codes \cup {None}
    BY DEF SigningInv, GrantsInv
  <2>3. code[c] # "new" /\ \A q \in Planes : Has(q, c) => op[q].kind # "authorize"
    BY DEF SigningInv, GrantsInv, Has
  <2>4. ASSUME NEW d \in Codes, code[d] = "new"
        PROVE  d \notin grants /\ \A q \in Planes : ~Has(q, d)' /\ heard'[q][d] = 0
    <3>1. d # c /\ d \notin grants /\ \A q \in Planes : ~Has(q, d) /\ heard[q][d] = 0
      BY <2>3, <2>4 DEF SigningInv, GrantsInv
    <3>2. QED
      BY <1>3, <3>1
  <2>5. /\ \A d \in grants, q \in Planes : ~Has(q, d)'
        /\ \A q, r \in Planes, d \in Codes : Has(q, d)' /\ Has(r, d)' => q = r
    BY <1>3, <2>1 DEF SigningInv, GrantsInv
  <2>6. ASSUME NEW q \in Planes, NEW r \in Planes, NEW d \in Codes,
               Has(q, d)', op'[q].kind = "authorize"
        PROVE  heard'[r][d] = 0
    <3>1. Has(q, d) /\ op[q].kind = "authorize"
      BY <1>3, <2>6
    <3>2. d # c /\ heard[r][d] = 0
      BY <2>3, <3>1 DEF SigningInv, GrantsInv
    <3>3. QED
      BY <3>2
  <2>7. QED
    BY <2>1, <2>2, <2>4, <2>5, <2>6 DEF GrantsInv
<1>5. IntervalsInv'
  <2>0. IntervalsInv /\ grants' = grants /\ grants \subseteq Codes
    BY DEF SigningInv, SigningTypes
  <2>1. ASSUME NEW q \in Planes, op'[q].kind = "poll"
        PROVE  op'[q].at \in grants /\ intervals'[q][op'[q].at] = op'[q].wait
    <3>1. CASE q = p
      BY <2>1, <3>1
    <3>2. CASE q # p
      <4>1. op'[q] = op[q] /\ op[q].at \in grants /\ intervals[q][op[q].at] = op[q].wait
        BY <2>0, <2>1, <3>2 DEF IntervalsInv
      <4>2. intervals'[q][op[q].at] = intervals[q][op[q].at]
        BY <2>0, <3>2, <4>1
      <4>3. QED
        BY <4>1, <4>2
    <3>3. QED
      BY <3>1, <3>2
  <2>2. ASSUME NEW q \in Planes, NEW d \in Codes, intervals'[q][d] # None
        PROVE  d \in grants /\ intervals'[q][d] >= Interval + SlowDown * heard'[q][d]
    <3>1. CASE q = p /\ d = c
      BY <2>2, <3>1
    <3>2. CASE q # p \/ d # c
      <4>1. intervals'[q][d] = intervals[q][d] /\ heard'[q][d] = heard[q][d]
        BY <3>2
      <4>2. QED
        BY <2>0, <2>2, <4>1 DEF IntervalsInv, Signing!SlowDownIsForGood
    <3>3. QED
      BY <3>1, <3>2
  <2>3. ASSUME NEW q \in Planes, NEW d \in grants, intervals'[q][d] = None
        PROVE  heard'[q][d] = 0
    <3>1. CASE q = p /\ d = c
      BY <2>3, <3>1
    <3>2. CASE q # p \/ d # c
      <4>1. intervals'[q][d] = intervals[q][d] /\ heard'[q][d] = heard[q][d]
        BY <2>0, <3>2
      <4>2. QED
        BY <2>0, <2>3, <4>1 DEF IntervalsInv
    <3>3. QED
      BY <3>1, <3>2
  <2>4. QED
    BY <2>0, <2>1, <2>2, <2>3 DEF IntervalsInv, Signing!SlowDownIsForGood
<1>6. QED
  BY <1>1, <1>2, <1>4, <1>5 DEF SigningInv

(* A poll waits what is remembered of its code, or the interval asked for. *)
LEMMA PollKeeps ==
  ASSUME Signing!SignInAssumption, SigningInv, NEW p \in Planes, NEW c \in Codes,
         Signing!PollDevice(p, c)
  PROVE  SigningInv'
<1> DEFINE w == IF intervals[p][c] = None THEN Interval ELSE intervals[p][c]
<1>0. SigningTypes /\ Interval \in Nat /\ SlowDown \in Nat /\ None \notin Nat
  BY DEF SigningInv, Signing!SignInAssumption
<1>1. /\ c \in grants /\ UNCHANGED <<held, heldId, revokedOwn, code, dead, grants, heard>>
      /\ op' = [op EXCEPT ![p] = [Signing!Asks("poll", c) EXCEPT !.wait = w]]
      /\ intervals' = [intervals EXCEPT ![p][c] = w]
  BY DEF Signing!PollDevice, Signing!Call, Signing!apiVars
<1>2. w \in Nat /\ w >= Interval + SlowDown * heard[p][c]
  <2>1. CASE intervals[p][c] = None
    BY <1>0, <1>1, <2>1 DEF SigningInv, IntervalsInv
  <2>2. CASE intervals[p][c] # None
    BY <1>0, <2>2 DEF SigningTypes, SigningInv, IntervalsInv, Signing!SlowDownIsForGood
  <2>3. QED
    BY <2>1, <2>2
<1> HIDE DEF w
<1>3. /\ op' \in [Planes -> Ops] /\ \A q \in Planes \ {p} : op'[q] = op[q]
      /\ op'[p].kind = "poll" /\ op'[p].at = c /\ op'[p].answer = "none" /\ op'[p].wait = w
  BY <1>0, <1>1, <1>2, CallStarts
<1>4. /\ intervals' \in [Planes -> [Codes -> Nat \cup {None}]] /\ intervals'[p][c] = w
      /\ \A q \in Planes, d \in Codes : q # p \/ d # c => intervals'[q][d] = intervals[q][d]
  BY <1>0, <1>1, <1>2 DEF SigningTypes
<1>5. AnswerIsSo(p)'
  BY <1>3 DEF AnswerIsSo
<1>6. Signing!IdNamesToken'
  BY <1>1 DEF SigningInv, Signing!IdNamesToken
<1>7. /\ held' \in [Planes -> Signing!Tokens \cup {None}]
      /\ heldId' \in [Planes -> ApiTokens \cup {None}] /\ revokedOwn' \in [Planes -> BOOLEAN]
      /\ \A q \in Planes \ {p} : held'[q] = held[q]
      /\ heard' \in [Planes -> [Codes -> Nat]] /\ UNCHANGED <<code, dead, grants>>
  BY <1>0, <1>1 DEF SigningTypes
<1>8. \A q \in Planes, d \in Codes : q # p \/ d # c =>
        intervals'[q][d] = intervals[q][d] /\ heard'[q][d] = heard[q][d]
  BY <1>1, <1>4
<1>9. w # None /\ heard'[p][c] = heard[p][c]
  BY <1>0, <1>1, <1>2
<1>10. intervals'[p][c] >= Interval + SlowDown * heard'[p][c]
  BY <1>2, <1>4, <1>9
<1>11. intervals' \in [Planes -> [Codes -> Nat \cup {None}]] /\ intervals'[p][c] = op'[p].wait
  BY <1>3, <1>4
<1>12. c \in grants /\ intervals'[p][c] # None
  BY <1>1, <1>4, <1>9
<1>13. op'[p].kind \notin {"authorize", "browser"}
  BY <1>3
<1>14. QED
  BY <1>3, <1>5, <1>6, <1>7, <1>8, <1>10, <1>11, <1>12, <1>13, HearingStep

(* A code is remembered, and what is heard of it counted, as the poll's    *)
(* answer says.                                                            *)
LEMMA PendingKeeps ==
  ASSUME Signing!SignInAssumption, SigningInv, NEW p \in Planes, Signing!StillPending(p)
  PROVE  SigningInv'
<1> DEFINE c == op[p].at
           more == IF op[p].answer = "slow_down" THEN 1 ELSE 0
<1>0. /\ SigningTypes /\ Interval \in Nat /\ SlowDown \in Nat /\ None \notin Nat
      /\ op[p] \in Ops
  BY DEF SigningInv, Signing!SignInAssumption, SigningTypes
<1>1. /\ op[p].kind = "poll" /\ UNCHANGED <<held, heldId, revokedOwn, code, dead, grants>>
      /\ op' = [op EXCEPT ![p] = Signing!Idle]
      /\ intervals' = [intervals EXCEPT ![p][c] = Signing!Longer(p)]
      /\ heard' = Signing!Heard(p)
  BY DEF Signing!StillPending, Signing!Hears, Signing!apiVars
<1>2. /\ c \in Codes /\ c \in grants /\ op[p].wait \in Nat /\ heard[p][c] \in Nat
      /\ op[p].wait >= Interval + SlowDown * heard[p][c]
  <2>1. op[p].wait \in Nat
    BY <1>0 DEF Ops
  <2>2. c \in grants
    BY <1>1 DEF SigningInv, IntervalsInv
  <2>3. c \in Codes /\ c \in grants
    BY <1>0, <2>2 DEF SigningTypes
  <2>4. heard[p][c] \in Nat
    BY <1>0, <2>3 DEF SigningTypes
  <2>5. op[p].wait >= Interval + SlowDown * heard[p][c]
    <3>1. intervals[p][c] = op[p].wait /\ Signing!SlowDownIsForGood
      BY <1>1 DEF SigningInv, IntervalsInv
    <3>2. intervals[p][c] # None
      BY <1>0, <2>1, <3>1
    <3>3. intervals[p][c] >= Interval + SlowDown * heard[p][c]
      BY <2>3, <3>1, <3>2, ZenonT(30) DEF Signing!SlowDownIsForGood
    <3>4. QED
      BY <3>1, <3>3, ZenonT(30)
  <2>6. QED
    BY <2>1, <2>3, <2>4, <2>5
<1>3. more \in Nat /\ Signing!Longer(p) = op[p].wait + SlowDown * more
  BY <1>0, <1>2 DEF Signing!Longer
<1>4. heard' = [heard EXCEPT ![p][c] = heard[p][c] + more]
  <2>1. CASE op[p].answer = "slow_down"
    BY <1>1, <2>1 DEF Signing!Heard
  <2>2. CASE op[p].answer # "slow_down"
    BY <1>0, <1>1, <1>2, <2>2 DEF Signing!Heard, SigningTypes
  <2>3. QED
    BY <2>1, <2>2
<1> HIDE DEF more, c
<1>5. /\ Signing!Longer(p) \in Nat
      /\ Signing!Longer(p) >= Interval + SlowDown * (heard[p][c] + more)
  <2>1. SlowDown * (heard[p][c] + more) = SlowDown * heard[p][c] + SlowDown * more
    BY <1>0, <1>2, <1>3
  <2>2. SlowDown * more \in Nat /\ SlowDown * heard[p][c] \in Nat
    BY <1>0, <1>2, <1>3
  <2>3. QED
    BY <1>0, <1>2, <1>3, <2>1, <2>2
<1>6. /\ intervals' \in [Planes -> [Codes -> Nat \cup {None}]]
      /\ intervals'[p][c] = Signing!Longer(p)
      /\ \A q \in Planes, d \in Codes : q # p \/ d # c => intervals'[q][d] = intervals[q][d]
  BY <1>0, <1>1, <1>2, <1>5 DEF SigningTypes, c
<1>7. /\ heard' \in [Planes -> [Codes -> Nat]] /\ heard'[p][c] = heard[p][c] + more
      /\ \A q \in Planes, d \in Codes : q # p \/ d # c => heard'[q][d] = heard[q][d]
  BY <1>0, <1>2, <1>3, <1>4 DEF SigningTypes
<1>8. /\ op' \in [Planes -> Ops] /\ \A q \in Planes \ {p} : op'[q] = op[q]
      /\ op'[p].kind = "idle" /\ op'[p].at = None /\ op'[p].answer = "none"
  BY <1>0, <1>1, CallEnds
<1>9. AnswerIsSo(p)'
  BY <1>8 DEF AnswerIsSo
<1>10. Signing!IdNamesToken'
  BY <1>1 DEF SigningInv, Signing!IdNamesToken
<1>11. /\ held' \in [Planes -> Signing!Tokens \cup {None}]
       /\ heldId' \in [Planes -> ApiTokens \cup {None}] /\ revokedOwn' \in [Planes -> BOOLEAN]
       /\ \A q \in Planes \ {p} : held'[q] = held[q]
       /\ intervals'[p][c] # None
  BY <1>0, <1>1, <1>5, <1>6 DEF SigningTypes
<1>12. \A q \in Planes, d \in Codes : q # p \/ d # c =>
         intervals'[q][d] = intervals[q][d] /\ heard'[q][d] = heard[q][d]
  BY <1>6, <1>7
<1>13. UNCHANGED <<code, dead, grants>>
  BY <1>1
<1>14. intervals'[p][c] >= Interval + SlowDown * heard'[p][c]
  BY <1>5, <1>6, <1>7
<1>15. /\ c \in Codes /\ c \in grants
       /\ intervals' \in [Planes -> [Codes -> Nat \cup {None}]]
       /\ heard' \in [Planes -> [Codes -> Nat]]
  BY <1>2, <1>6, <1>7
<1>16. QED
  BY <1>8, <1>9, <1>10, <1>11, <1>12, <1>13, <1>14, <1>15, HearingStep

(* A code only a browser's login has, no plane has an interval for.        *)
LEMMA BrowserHas ==
  ASSUME SigningInv, NEW p \in Planes, op[p].kind = "browser", op[p].at # None
  PROVE  op[p].at \in Codes /\ op[p].at \notin grants /\ intervals[p][op[p].at] = None
<1>1. op[p].at \in Codes /\ Has(p, op[p].at)
  BY DEF SigningInv, GrantsInv, Has
<1>2. QED
  BY <1>1 DEF SigningInv, GrantsInv, IntervalsInv

LEMMA PollHas ==
  ASSUME SigningInv, NEW p \in Planes, op[p].kind = "poll"
  PROVE  op[p].at \in Codes /\ op[p].at \in grants
  BY DEF SigningInv, IntervalsInv, SigningTypes

LEMMA EndingStep ==
  ASSUME Signing!SignInAssumption, SigningInv, NEW p \in Planes, NEW c \in Codes,
         held' \in [Planes -> Signing!Tokens \cup {None}],
         heldId' \in [Planes -> ApiTokens \cup {None}], revokedOwn' \in [Planes -> BOOLEAN],
         \A q \in Planes \ {p} : held'[q] = held[q], Signing!IdNamesToken',
         UNCHANGED <<code, dead, grants>>,
         op' \in [Planes -> Ops], \A q \in Planes \ {p} : op'[q] = op[q],
         op'[p].kind = "idle", op'[p].answer = "none",
         intervals' \in [Planes -> [Codes -> Nat \cup {None}]],
         heard' \in [Planes -> [Codes -> Nat]],
         \A q \in Planes, d \in Codes : q # p \/ d # c =>
           intervals'[q][d] = intervals[q][d] /\ heard'[q][d] = heard[q][d],
         c \in grants \/ (op[p].kind = "browser" /\ op[p].at = c),
         intervals'[p][c] = None, heard'[p][c] = 0
  PROVE  SigningInv'
<1>1. AnswerIsSo(p)'
  BY DEF AnswerIsSo
<1>2. op'[p].kind \notin {"authorize", "browser", "poll"}
  OBVIOUS
<1>3. QED
  BY <1>1, <1>2, HearingStep

(* A call that ends and forgets what it heard of a code, with or without   *)
(* the interval it remembered.                                             *)
ForgetsCall(p, c) ==
  /\ op' = [op EXCEPT ![p] = Signing!Idle]
  /\ heard' = [heard EXCEPT ![p][c] = 0] /\ op[p].at = c
  /\ \/ op[p].kind = "poll" /\ intervals' = [intervals EXCEPT ![p][c] = None]
     \/ op[p].kind = "browser" /\ intervals' = intervals

LEMMA ForgettingStep ==
  ASSUME Signing!SignInAssumption, SigningInv, NEW p \in Planes, NEW c \in Codes,
         held' \in [Planes -> Signing!Tokens \cup {None}],
         heldId' \in [Planes -> ApiTokens \cup {None}], revokedOwn' \in [Planes -> BOOLEAN],
         \A q \in Planes \ {p} : held'[q] = held[q], Signing!IdNamesToken',
         UNCHANGED <<code, dead, grants>>,
         ForgetsCall(p, c)
  PROVE  SigningInv'
<1>0. SigningTypes /\ None \notin Codes
  BY DEF SigningInv, Signing!SignInAssumption
<1>1. /\ op' \in [Planes -> Ops] /\ \A q \in Planes \ {p} : op'[q] = op[q]
      /\ op'[p].kind = "idle" /\ op'[p].at = None /\ op'[p].answer = "none"
  BY <1>0, CallEnds DEF ForgetsCall
<1>3. /\ heard' \in [Planes -> [Codes -> Nat]] /\ heard'[p][c] = 0
      /\ \A q \in Planes, d \in Codes : q # p \/ d # c => heard'[q][d] = heard[q][d]
  BY <1>0 DEF SigningTypes, ForgetsCall
<1>4. /\ intervals' \in [Planes -> [Codes -> Nat \cup {None}]] /\ intervals'[p][c] = None
      /\ \A q \in Planes, d \in Codes : q # p \/ d # c => intervals'[q][d] = intervals[q][d]
  <2>1. CASE op[p].kind = "poll" /\ intervals' = [intervals EXCEPT ![p][c] = None]
    BY <1>0, <2>1 DEF SigningTypes
  <2>2. CASE op[p].kind = "browser" /\ intervals' = intervals
    BY <1>0, <2>2, BrowserHas DEF SigningTypes, ForgetsCall
  <2>3. QED
    BY <2>1, <2>2 DEF ForgetsCall
<1>5. c \in grants \/ (op[p].kind = "browser" /\ op[p].at = c)
  BY PollHas DEF ForgetsCall
<1>6. \A q \in Planes, d \in Codes : q # p \/ d # c =>
        intervals'[q][d] = intervals[q][d] /\ heard'[q][d] = heard[q][d]
  BY <1>3, <1>4
<1>7. heard' \in [Planes -> [Codes -> Nat]] /\ intervals' \in [Planes -> [Codes -> Nat \cup {None}]]
  BY <1>3, <1>4
<1>8. heard'[p][c] = 0 /\ intervals'[p][c] = None
  BY <1>3, <1>4
<1>9. QED
  BY <1>1, <1>5, <1>6, <1>7, <1>8, EndingStep

(* A sign-in keeps the token of its answer, and forgets the code.          *)
LEMMA SignedInKeeps ==
  ASSUME Signing!SignInAssumption, SigningInv, NEW p \in Planes, Signing!SignedIn(p)
  PROVE  SigningInv'
<1>0. SigningTypes /\ op[p] \in Ops
  BY DEF SigningInv, SigningTypes
<1>1. /\ op[p].kind \in {"password", "native", "poll", "browser"} /\ op[p].answer = "token"
      /\ Signing!AcceptToken(p, op[p].token) /\ op' = [op EXCEPT ![p] = Signing!Idle]
      /\ UNCHANGED <<code, dead, grants>>
  BY DEF Signing!SignedIn, Signing!Hears, Signing!apiVars
<1>2. op[p].token \in Signing!Tokens \cup {None} /\ Signing!IdOf(op[p].token) \in ApiTokens \cup {None}
  BY <1>0 DEF Ops, Signing!IdOf
<1>3. /\ held' \in [Planes -> Signing!Tokens \cup {None}]
      /\ heldId' \in [Planes -> ApiTokens \cup {None}] /\ revokedOwn' \in [Planes -> BOOLEAN]
      /\ \A q \in Planes \ {p} : held'[q] = held[q] /\ heldId'[q] = heldId[q]
      /\ held'[p] = op[p].token /\ heldId'[p] = Signing!IdOf(op[p].token)
  BY <1>0, <1>1, <1>2 DEF SigningTypes, Signing!AcceptToken
<1>4. Signing!IdNamesToken'
  BY <1>3 DEF SigningInv, Signing!IdNamesToken, Signing!IdOf
<1>5. CASE op[p].kind \in {"password", "native"}
  <2>1. UNCHANGED <<intervals, heard>>
    BY <1>5 DEF Signing!SignedIn
  <2>2. /\ op' \in [Planes -> Ops] /\ \A q \in Planes \ {p} : op'[q] = op[q]
        /\ op'[p].kind = "idle" /\ op'[p].answer = "none"
    BY <1>0, <1>1, CallEnds
  <2>3. AnswerIsSo(p)'
    BY <2>2 DEF AnswerIsSo
  <2>4. /\ \A q \in Planes \ {p} : held'[q] = held[q]
        /\ code' \in [Codes -> {"new", "pending", "approved", "denied", "expired"}]
        /\ \A c \in Codes : code'[c] = "new" => code[c] = "new"
        /\ dead \subseteq dead'
    BY <1>0, <1>1, <1>3 DEF SigningTypes
  <2>5. UNCHANGED <<intervals, heard, grants>>
    BY <1>1, <2>1
  <2>6. QED
    BY <1>3, <1>4, <2>2, <2>3, <2>4, <2>5, PlaneStep
<1>6. CASE op[p].kind \in {"poll", "browser"}
  <2>1. op[p].at \in Codes
    BY <1>1, <1>6, PollHas, BrowserHas DEF SigningInv, AnswersInv, AnswerIsSo
  <2>2. /\ heard' = [heard EXCEPT ![p][op[p].at] = 0]
        /\ \/ op[p].kind = "poll" /\ intervals' = [intervals EXCEPT ![p][op[p].at] = None]
           \/ op[p].kind = "browser" /\ intervals' = intervals
    BY <1>6 DEF Signing!SignedIn
  <2>3. QED
    BY <1>1, <1>3, <1>4, <2>1, <2>2, ForgettingStep DEF ForgetsCall
<1>7. QED
  BY <1>1, <1>5, <1>6

LEMMA CallFailsKeeps ==
  ASSUME Signing!SignInAssumption, SigningInv, NEW p \in Planes, Signing!CallFails(p)
  PROVE  SigningInv'
<1>0. SigningTypes
  BY DEF SigningInv
<1>1. /\ op' = [op EXCEPT ![p] = Signing!Idle]
      /\ UNCHANGED <<held, heldId, revokedOwn>> /\ UNCHANGED <<code, dead, grants>>
  BY DEF Signing!CallFails, Signing!apiVars
<1>2. CASE /\ op[p].answer \in {"denied", "expired"} /\ op[p].kind \in {"poll", "browser"}
           /\ op[p].at # None
  <2>1. op[p].at \in Codes
    BY <1>2, PollHas, BrowserHas
  <2>2. /\ heard' = [heard EXCEPT ![p][op[p].at] = 0]
        /\ \/ op[p].kind = "poll" /\ intervals' = [intervals EXCEPT ![p][op[p].at] = None]
           \/ op[p].kind = "browser" /\ intervals' = intervals
    BY <1>2 DEF Signing!CallFails, Signing!ForgetsCode
  <2>3. /\ held' \in [Planes -> Signing!Tokens \cup {None}]
        /\ heldId' \in [Planes -> ApiTokens \cup {None}] /\ revokedOwn' \in [Planes -> BOOLEAN]
        /\ \A q \in Planes \ {p} : held'[q] = held[q]
    BY <1>0, <1>1 DEF SigningTypes
  <2>4. Signing!IdNamesToken'
    BY <1>1 DEF SigningInv, Signing!IdNamesToken
  <2>5. QED
    BY <1>1, <2>1, <2>2, <2>3, <2>4, ForgettingStep DEF ForgetsCall
<1>3. CASE ~(/\ op[p].answer \in {"denied", "expired"} /\ op[p].kind \in {"poll", "browser"}
             /\ op[p].at # None)
  <2>1. op[p].kind = "poll" => op[p].at # None
    BY PollHas DEF Signing!SignInAssumption
  <2>2. UNCHANGED <<held, heldId, revokedOwn, intervals, heard, grants>>
    BY <1>1, <1>3, <2>1 DEF Signing!CallFails, Signing!ForgetsCode
  <2>3. /\ op' \in [Planes -> Ops] /\ \A q \in Planes \ {p} : op'[q] = op[q]
        /\ op'[p].kind = "idle" /\ op'[p].answer = "none"
    BY <1>0, <1>1, CallEnds
  <2>4. AnswerIsSo(p)'
    BY <2>3 DEF AnswerIsSo
  <2>5. QED
    BY <1>0, <1>1, <2>2, <2>3, <2>4, QuietStep DEF SigningTypes
<1>4. QED
  BY <1>2, <1>3

(* A revoke forgets the plane's own token, and only that.                  *)
LEMMA RevokeKeeps ==
  ASSUME Signing!SignInAssumption, SigningInv, NEW p \in Planes, Signing!RevokeReturns(p)
  PROVE  SigningInv'
<1>0. SigningTypes
  BY DEF SigningInv
<1>1. /\ op' = [op EXCEPT ![p] = Signing!Idle]
      /\ UNCHANGED <<intervals, heard, grants>> /\ UNCHANGED <<code, dead>>
      /\ \/ UNCHANGED <<held, heldId, revokedOwn>>
         \/ /\ held' = [held EXCEPT ![p] = None] /\ heldId' = [heldId EXCEPT ![p] = None]
            /\ revokedOwn' = [revokedOwn EXCEPT ![p] = TRUE]
  BY DEF Signing!RevokeReturns, Signing!Forgets, Signing!apiVars
<1>2. /\ held' \in [Planes -> Signing!Tokens \cup {None}]
      /\ heldId' \in [Planes -> ApiTokens \cup {None}] /\ revokedOwn' \in [Planes -> BOOLEAN]
      /\ \A q \in Planes \ {p} : held'[q] = held[q] /\ heldId'[q] = heldId[q]
      /\ heldId'[p] # None => heldId'[p] = heldId[p] /\ held'[p] = held[p]
  BY <1>0, <1>1 DEF SigningTypes
<1>3. Signing!IdNamesToken'
  BY <1>2 DEF SigningInv, Signing!IdNamesToken
<1>4. /\ op' \in [Planes -> Ops] /\ \A q \in Planes \ {p} : op'[q] = op[q]
      /\ op'[p].kind = "idle" /\ op'[p].answer = "none"
  BY <1>0, <1>1, CallEnds
<1>5. AnswerIsSo(p)'
  BY <1>4 DEF AnswerIsSo
<1>6. /\ code' \in [Codes -> {"new", "pending", "approved", "denied", "expired"}]
      /\ \A c \in Codes : code'[c] = "new" => code[c] = "new"
      /\ dead \subseteq dead' /\ UNCHANGED <<intervals, heard, grants>>
      /\ \A q \in Planes \ {p} : held'[q] = held[q]
  BY <1>0, <1>1, <1>2 DEF SigningTypes
<1>7. UNCHANGED <<intervals, heard, grants>>
  BY <1>1
<1>8. QED
  BY <1>2, <1>3, <1>4, <1>5, <1>6, <1>7, PlaneStep

(* A clone knows of every code what the plane knew.                        *)
LEMMA CloneKeeps ==
  ASSUME Signing!SignInAssumption, SigningInv, NEW p \in Planes, NEW q \in Planes,
         Signing!CloneOf(p, q)
  PROVE  SigningInv'
<1>0. SigningTypes
  BY DEF SigningInv
<1>1. /\ op' = op /\ op[q] = Signing!Idle /\ UNCHANGED <<code, dead, grants>>
      /\ held' = [held EXCEPT ![q] = held[p]] /\ heldId' = [heldId EXCEPT ![q] = heldId[p]]
      /\ revokedOwn' = [revokedOwn EXCEPT ![q] = revokedOwn[p]]
      /\ intervals' = [intervals EXCEPT ![q] = intervals[p]]
      /\ heard' = [heard EXCEPT ![q] = heard[p]]
  BY DEF Signing!CloneOf, Signing!apiVars
<1>2. op[q].kind = "idle" /\ op[q].answer = "none"
  BY <1>1 DEF Signing!Idle
<1>3. SigningTypes'
  BY <1>0, <1>1 DEF SigningTypes
<1>4. /\ \A r \in Planes \ {q} : held'[r] = held[r] /\ heldId'[r] = heldId[r]
      /\ held'[q] = held[p] /\ heldId'[q] = heldId[p]
      /\ \A r \in Planes \ {q} : intervals'[r] = intervals[r] /\ heard'[r] = heard[r]
      /\ intervals'[q] = intervals[p] /\ heard'[q] = heard[p]
  BY <1>0, <1>1 DEF SigningTypes
<1>5. Signing!IdNamesToken'
  BY <1>4 DEF SigningInv, Signing!IdNamesToken
<1>6. AnswersInv'
  <2>1. ASSUME NEW r \in Planes PROVE AnswerIsSo(r)'
    <3>1. AnswerIsSo(r)
      BY DEF SigningInv, AnswersInv
    <3>2. QED
      BY <1>1, <1>2, <1>4, <3>1 DEF AnswerIsSo
  <2>2. QED
    BY <2>1 DEF AnswersInv
<1>7. GrantsInv'
  <2>1. \A r \in Planes, c \in Codes : heard[r][c] = heard'[r][c] \/ (r = q /\ heard'[r][c] = heard[p][c])
    BY <1>4
  <2>2. \A r \in Planes, c \in Codes : Has(r, c)' <=> Has(r, c)
    BY <1>1 DEF Has
  <2>3. QED
    BY <1>1, <2>1, <2>2 DEF SigningInv, GrantsInv, Has
<1>8. IntervalsInv'
  <2>0. IntervalsInv
    BY DEF SigningInv
  <2>1. \A r \in Planes : op[r].kind = "poll" =>
          op[r].at \in grants /\ intervals'[r][op[r].at] = op[r].wait
    BY <1>2, <1>4, <2>0 DEF IntervalsInv
  <2>2. ASSUME NEW r \in Planes, NEW c \in Codes
        PROVE  /\ intervals'[r][c] # None =>
                    c \in grants /\ intervals'[r][c] >= Interval + SlowDown * heard'[r][c]
               /\ c \in grants /\ intervals'[r][c] = None => heard'[r][c] = 0
    <3>1. PICK s \in Planes : intervals'[r] = intervals[s] /\ heard'[r] = heard[s]
      BY <1>4
    <3>2. QED
      BY <2>0, <3>1 DEF IntervalsInv, Signing!SlowDownIsForGood
  <2>3. grants \subseteq Codes /\ grants' = grants /\ op' = op
    BY <1>0, <1>1 DEF SigningTypes
  <2>4. QED
    BY <2>1, <2>2, <2>3 DEF IntervalsInv, Signing!SlowDownIsForGood
<1>9. QED
  BY <1>3, <1>5, <1>6, <1>7, <1>8 DEF SigningInv

(* A new code is given to one call.                                        *)
LEMMA AuthorizeKeeps ==
  ASSUME Signing!SignInAssumption, SigningInv, NEW p \in Planes, Signing!ApiAuthorizes(p)
  PROVE  SigningInv'
<1>0. SigningTypes /\ op[p] \in Ops
  BY DEF SigningInv, SigningTypes
<1>1. PICK c \in Codes :
        /\ code[c] = "new" /\ code' = [code EXCEPT ![c] = "pending"]
        /\ op' = [op EXCEPT ![p].at = c, ![p].phase = "answered", ![p].answer = "grant"]
  BY DEF Signing!ApiAuthorizes
<1>2. /\ op[p].kind \in {"authorize", "browser"}
      /\ UNCHANGED <<held, heldId, revokedOwn, intervals, heard, dead, grants>>
  BY DEF Signing!ApiAuthorizes, Signing!planeVars
<1>3. /\ op' \in [Planes -> Ops] /\ \A q \in Planes \ {p} : op'[q] = op[q]
      /\ op'[p].kind = op[p].kind /\ op'[p].at = c /\ op'[p].answer = "grant"
  <2> DEFINE o == [op[p] EXCEPT !.at = c, !.phase = "answered", !.answer = "grant"]
  <2>1. op' = [op EXCEPT ![p] = o]
    BY <1>0, <1>1 DEF SigningTypes
  <2>2. o \in Ops /\ o.kind = op[p].kind /\ o.at = c /\ o.answer = "grant"
    BY <1>0 DEF Ops
  <2> HIDE DEF o
  <2>3. QED
    BY <1>0, <2>1, <2>2, CallMoves
<1>4. SigningTypes'
  BY <1>0, <1>1, <1>2, <1>3 DEF SigningTypes
<1>5. AnswersInv'
  <2>1. ASSUME NEW q \in Planes PROVE AnswerIsSo(q)'
    <3>1. AnswerIsSo(q)
      BY DEF SigningInv, AnswersInv
    <3>2. CASE q = p
      BY <1>2, <1>3, <3>2 DEF AnswerIsSo
    <3>3. CASE q # p
      BY <1>2, <1>3, <3>1, <3>3 DEF AnswerIsSo
    <3>4. QED
      BY <3>2, <3>3
  <2>2. QED
    BY <2>1 DEF AnswersInv
<1>6. GrantsInv'
  <2>0. /\ grants' = grants /\ grants \subseteq Codes /\ heard' = heard
        /\ \A d \in Codes : code'[d] = "new" => code[d] = "new" /\ d # c
    BY <1>0, <1>1, <1>2 DEF SigningTypes
  <2>1. /\ c \notin grants /\ \A q \in Planes : ~Has(q, c) /\ heard[q][c] = 0
    BY <1>1 DEF SigningInv, GrantsInv
  <2>2. \A q \in Planes, d \in Codes :
          Has(q, d)' => (q = p /\ d = c) \/ (q # p /\ d # c /\ Has(q, d) /\ op'[q].kind = op[q].kind)
    BY <1>3, <2>1 DEF Has
  <2>3. \A q \in Planes : op'[q].kind \in {"authorize", "browser"} => op'[q].at \in Codes \cup {None}
    BY <1>3 DEF SigningInv, GrantsInv
  <2>4. /\ \A d \in Codes : code'[d] = "new" =>
             d \notin grants /\ \A q \in Planes : ~Has(q, d)' /\ heard[q][d] = 0
        /\ \A d \in grants, q \in Planes : ~Has(q, d)'
    BY <2>0, <2>1, <2>2 DEF SigningInv, GrantsInv
  <2>5. /\ \A q, r \in Planes, d \in Codes : Has(q, d)' /\ Has(r, d)' => q = r
        /\ \A q, r \in Planes, d \in Codes :
             Has(q, d)' /\ op'[q].kind = "authorize" => heard[r][d] = 0
    BY <2>1, <2>2 DEF SigningInv, GrantsInv
  <2>6. QED
    BY <2>0, <2>3, <2>4, <2>5 DEF GrantsInv
<1>7. IntervalsInv'
  <2>1. \A q \in Planes : op'[q].kind = "poll" => op'[q] = op[q]
    BY <1>2, <1>3
  <2>2. QED
    BY <1>2, <2>1 DEF SigningInv, IntervalsInv, Signing!SlowDownIsForGood
<1>8. Signing!IdNamesToken'
  BY <1>2 DEF SigningInv, Signing!IdNamesToken
<1>9. QED
  BY <1>4, <1>5, <1>6, <1>7, <1>8 DEF SigningInv

(* The application is given a code no plane has heard of, or the browser's *)
(* login goes on with its own.                                             *)
LEMMA GrantedKeeps ==
  ASSUME Signing!SignInAssumption, SigningInv, NEW p \in Planes, Signing!Granted(p)
  PROVE  SigningInv'
<1> DEFINE c == op[p].at
<1>0. /\ SigningTypes /\ op[p] \in Ops /\ Interval \in Nat
      /\ UNCHANGED <<held, heldId, revokedOwn, intervals, heard, code, dead>>
      /\ c \in Codes
  BY DEF SigningInv, SigningTypes, Signing!SignInAssumption, Signing!Granted, Signing!Hears,
         Signing!planeVars, Signing!apiVars, AnswersInv, AnswerIsSo
<1>1. CASE op[p].kind = "browser"
  <2>1. /\ op' = [op EXCEPT ![p] = [Signing!Asks("browser", c) EXCEPT !.wait = Interval]]
        /\ UNCHANGED <<held, heldId, revokedOwn, intervals, heard, grants>>
        /\ dead \subseteq dead'
    BY <1>0, <1>1 DEF Signing!Granted
  <2>2. /\ op' \in [Planes -> Ops] /\ \A q \in Planes \ {p} : op'[q] = op[q]
        /\ op'[p].kind = "browser" /\ op'[p].at = c /\ op'[p].answer = "none"
    <3>1. c \in Codes \cup Natives \cup ApiTokens \cup {None} /\ Interval \in Nat /\ SigningTypes
      BY <1>0
    <3> HIDE DEF c
    <3>2. QED
      BY <2>1, <3>1, CallStarts
  <2>3. AnswerIsSo(p)'
    BY <2>2 DEF AnswerIsSo
  <2>4. /\ code' \in [Codes -> {"new", "pending", "approved", "denied", "expired"}]
        /\ \A d \in Codes : code'[d] = "new" => code[d] = "new"
    BY <1>0 DEF SigningTypes
  <2>5. QED
    BY <1>1, <2>1, <2>2, <2>3, <2>4, QuietStep
<1>2. CASE op[p].kind = "authorize"
  <2>1. op' = [op EXCEPT ![p] = Signing!Idle] /\ grants' = grants \cup {c}
    BY <1>2 DEF Signing!Granted
  <2>2. /\ op' \in [Planes -> Ops] /\ \A q \in Planes \ {p} : op'[q] = op[q]
        /\ op'[p].kind = "idle" /\ op'[p].answer = "none"
    BY <1>0, <2>1, CallEnds
  <2>3. SigningTypes'
    BY <1>0, <2>1, <2>2 DEF SigningTypes
  <2>4. AnswersInv'
    <3>1. ASSUME NEW q \in Planes PROVE AnswerIsSo(q)'
      <4>1. AnswerIsSo(q)
        BY DEF SigningInv, AnswersInv
      <4>2. QED
        BY <1>0, <2>2, <4>1 DEF AnswerIsSo
    <3>2. QED
      BY <3>1 DEF AnswersInv
  <2>5. Has(p, c) /\ c \notin grants /\ code[c] # "new" /\ \A q \in Planes : heard[q][c] = 0
    BY <1>0, <1>2 DEF Has, SigningInv, GrantsInv
  <2>6. \A q \in Planes, d \in Codes :
          Has(q, d)' => q # p /\ d # c /\ Has(q, d) /\ op'[q].kind = op[q].kind
    <3>1. \A q \in Planes, d \in Codes :
            Has(q, d)' => q # p /\ Has(q, d) /\ op'[q].kind = op[q].kind
      BY <2>2 DEF Has
    <3>2. \A q \in Planes : Has(q, c) => q = p
      BY <1>0, <2>5 DEF SigningInv, GrantsInv
    <3>3. QED
      BY <3>1, <3>2
  <2>7. GrantsInv'
    <3>1. \A q \in Planes : op'[q].kind \in {"authorize", "browser"} => op'[q].at \in Codes \cup {None}
      BY <2>2 DEF SigningInv, GrantsInv
    <3>2. \A d \in Codes : code'[d] = "new" =>
             d \notin grants' /\ \A q \in Planes : ~Has(q, d)' /\ heard'[q][d] = 0
      BY <1>0, <2>1, <2>5, <2>6 DEF SigningInv, GrantsInv
    <3>3. \A d \in grants', q \in Planes : ~Has(q, d)'
      BY <1>0, <2>1, <2>6 DEF SigningInv, GrantsInv, SigningTypes
    <3>4. /\ \A q, r \in Planes, d \in Codes : Has(q, d)' /\ Has(r, d)' => q = r
          /\ \A q, r \in Planes, d \in Codes :
               Has(q, d)' /\ op'[q].kind = "authorize" => heard'[r][d] = 0
      BY <1>0, <2>6 DEF SigningInv, GrantsInv
    <3>5. QED
      BY <3>1, <3>2, <3>3, <3>4 DEF GrantsInv
  <2>8. IntervalsInv'
    <3>1. \A q \in Planes : op'[q].kind = "poll" => op'[q] = op[q]
      BY <2>2
    <3>2. QED
      BY <1>0, <2>1, <2>5, <3>1 DEF SigningInv, IntervalsInv, Signing!SlowDownIsForGood
  <2>9. Signing!IdNamesToken'
    BY <1>0 DEF SigningInv, Signing!IdNamesToken
  <2>10. QED
    BY <2>3, <2>4, <2>7, <2>8, <2>9 DEF SigningInv
<1>3. QED
  BY <1>1, <1>2 DEF Signing!Granted, Signing!Hears

(* The browser's login counts what it hears, of a code no plane remembers. *)
LEMMA AskingKeeps ==
  ASSUME Signing!SignInAssumption, SigningInv, NEW p \in Planes, Signing!KeepsAsking(p)
  PROVE  SigningInv'
<1> DEFINE c == op[p].at
<1>0. /\ SigningTypes /\ op[p] \in Ops /\ op[p].kind = "browser" /\ c # None
      /\ UNCHANGED <<code, dead, grants>> /\ UNCHANGED <<held, heldId, revokedOwn, intervals>>
      /\ heard' = Signing!Heard(p)
      /\ SlowDown \in Nat
  BY DEF SigningInv, SigningTypes, Signing!SignInAssumption, Signing!KeepsAsking, Signing!Hears,
         Signing!planeVars, Signing!apiVars, AnswersInv, AnswerIsSo
<1>1. c \in Codes /\ c \notin grants /\ intervals[p][c] = None
  BY <1>0, BrowserHas
<1>2. /\ heard' \in [Planes -> [Codes -> Nat]]
      /\ \A q \in Planes, d \in Codes : q # p \/ d # c => heard'[q][d] = heard[q][d]
  <2>1. CASE op[p].answer = "slow_down"
    BY <1>0, <1>1, <2>1 DEF Signing!Heard, SigningTypes
  <2>2. CASE op[p].answer # "slow_down"
    BY <1>0, <1>1, <2>2 DEF Signing!Heard, SigningTypes
  <2>3. QED
    BY <2>1, <2>2
<1>3. /\ op' \in [Planes -> Ops] /\ \A q \in Planes \ {p} : op'[q] = op[q]
      /\ op'[p].answer = "none"
      /\ op'[p].kind = "idle" \/ (op'[p].kind = "browser" /\ op'[p].at = c)
  <2>1. CASE op' = [op EXCEPT ![p] = Signing!Idle]
    BY <1>0, <2>1, CallEnds
  <2>2. CASE op[p].elapsed < SignInTimeout
    <3> DEFINE left == SignInTimeout - op[p].elapsed
               r == IF Signing!Longer(p) < left THEN Signing!Longer(p) ELSE left
               o == [op[p] EXCEPT !.phase = "asleep", !.answer = "none",
                                  !.wait = Signing!Longer(p), !.rest = r]
    <3>1. SignInTimeout \in Nat /\ op[p].elapsed \in Nat /\ op[p].wait \in Nat
      BY <1>0 DEF Ops, Signing!SignInAssumption
    <3>2. Signing!Longer(p) \in Nat /\ r \in Nat
      BY <1>0, <2>2, <3>1 DEF Signing!Longer
    <3>3. op' = [op EXCEPT ![p].phase = "asleep", ![p].answer = "none",
                           ![p].wait = Signing!Longer(p), ![p].rest = r]
      BY <2>2, <3>1 DEF Signing!KeepsAsking
    <3> HIDE DEF r, left
    <3>4. op' = [op EXCEPT ![p] = o]
      BY <1>0, <3>3 DEF SigningTypes
    <3>5. o \in Ops /\ o.kind = op[p].kind /\ o.at = c /\ o.answer = "none"
      BY <1>0, <3>2 DEF Ops
    <3> HIDE DEF o
    <3>6. QED
      BY <1>0, <3>4, <3>5, CallMoves
  <2>3. QED
    BY <1>0, <2>1, <2>2 DEF Signing!KeepsAsking, Signing!SignInAssumption, Ops
<1>4. AnswerIsSo(p)'
  BY <1>3 DEF AnswerIsSo
<1>5. /\ held' \in [Planes -> Signing!Tokens \cup {None}]
      /\ heldId' \in [Planes -> ApiTokens \cup {None}] /\ revokedOwn' \in [Planes -> BOOLEAN]
      /\ \A q \in Planes \ {p} : held'[q] = held[q]
      /\ intervals' \in [Planes -> [Codes -> Nat \cup {None}]]
  BY <1>0 DEF SigningTypes
<1>6. Signing!IdNamesToken'
  BY <1>0 DEF SigningInv, Signing!IdNamesToken
<1>7. \A q \in Planes, d \in Codes : q # p \/ d # c =>
        intervals'[q][d] = intervals[q][d] /\ heard'[q][d] = heard[q][d]
  BY <1>0, <1>2
<1>8. intervals'[p][c] = None
  BY <1>0, <1>1
<1>9. op'[p].kind \in {"authorize", "browser"} => op[p].kind = op'[p].kind /\ op[p].at = op'[p].at
  BY <1>0, <1>3
<1>10. /\ op'[p].kind # "poll" /\ UNCHANGED <<code, dead, grants>>
       /\ op[p].kind = "browser" /\ op[p].at = c
  BY <1>0, <1>3
<1>11. QED
  BY <1>1, <1>2, <1>3, <1>4, <1>5, <1>6, <1>7, <1>8, <1>9, <1>10, HearingStep

LEMMA SigningStep ==
  ASSUME Signing!SignInAssumption, SigningInv, Signing!SignInNext
  PROVE  SigningInv'
<1>1. CASE \E c \in Codes : Signing!Decides(c)
  <2>1. CASE Planes = {}
    BY <1>1, <2>1 DEF Signing!Decides, SigningInv, SigningTypes, AnswersInv, GrantsInv,
         IntervalsInv, Signing!SlowDownIsForGood, Signing!IdNamesToken, Signing!planeVars
  <2>2. CASE Planes # {}
    BY <1>1, <2>2, WorldKeeps
  <2>3. QED
    BY <2>1, <2>2
<1>2. CASE \E t \in ApiTokens : Signing!Expires(t)
  <2>1. CASE Planes = {}
    BY <1>2, <2>1 DEF Signing!Expires, SigningInv, SigningTypes, AnswersInv, GrantsInv,
         IntervalsInv, Signing!SlowDownIsForGood, Signing!IdNamesToken, Signing!planeVars
  <2>2. CASE Planes # {}
    BY <1>2, <2>2, WorldKeeps
  <2>3. QED
    BY <2>1, <2>2
<1>3. ASSUME NEW p \in Planes,
             \/ Signing!Login(p) \/ Signing!BeginDevice(p) \/ Signing!LoginWithBrowser(p)
             \/ \E n \in Natives : Signing!CompleteNative(p, n)
             \/ \E c \in Codes : Signing!PollDevice(p, c)
             \/ \E t \in ApiTokens \cup {None} : Signing!Revoke(p, t)
             \/ Signing!RevokeNothing(p)
             \/ \E q \in Planes : Signing!CloneOf(p, q)
             \/ Signing!ApiLogsIn(p) \/ Signing!ApiExchanges(p) \/ Signing!ApiAuthorizes(p)
             \/ Signing!ApiPolled(p) \/ Signing!ApiRevokes(p) \/ Signing!AnswerFails(p)
             \/ Signing!SignedIn(p) \/ Signing!Granted(p) \/ Signing!StillPending(p)
             \/ Signing!CallFails(p) \/ Signing!KeepsAsking(p) \/ Signing!Passes(p)
             \/ Signing!AsksAgain(p) \/ Signing!RevokeReturns(p) \/ Signing!Dropped(p)
      PROVE  SigningInv'
  BY <1>3, StartsKeep, StopsKeep, AnswersKeep, ClockKeeps, PollKeeps, PendingKeeps, SignedInKeeps,
     CallFailsKeeps, RevokeKeeps, CloneKeeps, AuthorizeKeeps, GrantedKeeps, AskingKeeps
<1>4. QED
  BY <1>1, <1>2, <1>3 DEF Signing!SignInNext

LEMMA SigningStutters == ASSUME SigningInv, UNCHANGED Signing!signInVars PROVE SigningInv'
  BY DEF Signing!signInVars, SigningInv, SigningTypes, AnswersInv, AnswerIsSo, GrantsInv, Has, IntervalsInv,
         Signing!SlowDownIsForGood, Signing!IdNamesToken

(* Only a revoke that was answered takes a plane's token away.             *)
LEMMA ForgettingIsOfTheDead ==
  ASSUME Signing!SignInAssumption, SigningInv, Signing!SignInNext, NEW p \in Planes,
         held'[p] = None, held[p] # None
  PROVE  held[p] \in dead
<1>0. SigningTypes
  BY DEF SigningInv
<1>1. PICK q \in Planes :
        Signing!SignedIn(q) \/ Signing!RevokeReturns(q) \/ \E r \in Planes : Signing!CloneOf(r, q)
  BY ZenonT(60)
  DEF Signing!SignInNext, Signing!planeVars, Signing!Login, Signing!BeginDevice,
         Signing!LoginWithBrowser, Signing!CompleteNative, Signing!PollDevice, Signing!Revoke,
         Signing!RevokeNothing, Signing!ApiLogsIn, Signing!ApiExchanges, Signing!ApiAuthorizes,
         Signing!ApiPolled, Signing!ApiRevokes, Signing!AnswerFails, Signing!Granted,
         Signing!StillPending, Signing!CallFails, Signing!KeepsAsking, Signing!Passes,
         Signing!AsksAgain, Signing!Dropped, Signing!Decides, Signing!Expires
<1>2. CASE \E r \in Planes : Signing!CloneOf(r, q)
  BY <1>0, <1>2 DEF Signing!CloneOf, SigningTypes
<1>3. CASE Signing!SignedIn(q)
  <2>1. op[q].token # None /\ held' = [held EXCEPT ![q] = op[q].token]
    BY <1>3 DEF Signing!SignedIn, Signing!Hears, Signing!AcceptToken, SigningInv, AnswersInv, AnswerIsSo
  <2>2. QED
    BY <1>0, <2>1 DEF SigningTypes
<1>4. CASE Signing!RevokeReturns(q)
  <2>1. /\ q = p /\ op[p].kind = "revoke" /\ heldId[p] = op[p].at
        /\ op[p].answer \in {"ok", "401"}
    BY <1>0, <1>4 DEF Signing!RevokeReturns, Signing!Hears, Signing!MeansRevoked, Signing!Forgets,
                      Signing!IsOwn, SigningTypes
  <2>2. /\ op[p].at # None
        /\ op[p].answer = "ok" => op[p].at \in dead
        /\ op[p].answer = "401" => held[p] \in dead
    BY <2>1 DEF SigningInv, AnswersInv, AnswerIsSo
  <2>3. heldId[p] = held[p]
    BY <2>1, <2>2 DEF SigningInv, Signing!IdNamesToken
  <2>4. QED
    BY <2>1, <2>2, <2>3
<1>5. QED
  BY <1>1, <1>2, <1>3, <1>4

(* A plane's id names the token it holds, it forgets a token only once     *)
(* that is dead, and a "slow down" is obeyed for good (revoke_api_token,   *)
(* poll_device_login).                                                     *)
THEOREM TokensAreSafe ==
  ASSUME Signing!SignInAssumption
  PROVE  Signing!SignInInit /\ [][Signing!SignInNext]_(Signing!signInVars) =>
           [](Signing!IdNamesToken /\ Signing!SlowDownIsForGood) /\ Signing!ForgetsOnlyDead
<1>1. Signing!SignInInit => SigningInv
  BY SigningStarts
<1>2. SigningInv /\ [Signing!SignInNext]_(Signing!signInVars) => SigningInv'
  BY SigningStep, SigningStutters
<1>3. SigningInv => Signing!IdNamesToken /\ Signing!SlowDownIsForGood
  BY DEF SigningInv, IntervalsInv
<1>4. SigningInv /\ [Signing!SignInNext]_(Signing!signInVars) =>
        [\A p \in Planes : held'[p] = None /\ held[p] # None => held[p] \in dead]_(Signing!signInVars)
  BY ForgettingIsOfTheDead
<1>5. QED
  BY <1>1, <1>2, <1>3, <1>4, PTL DEF Signing!ForgetsOnlyDead

-----------------------------------------------------------------------------
(* Composition: whatever the behaviour is of, every component keeps to     *)
(* its own steps.                                                          *)

LEMMA ProvisioningIsAComponent == ControlSpec => ProvisioningSpec
<1>1. ControlInit => ProvisioningInit
  BY DEF ControlInit
<1>2. [ControlNext]_ControlVars => [ProvisioningNext]_provisionVars
  BY DEF ControlNext, ControlVars, provisionVars
<1>3. QED
  BY <1>1, <1>2, PTL DEF ControlSpec, ProvisioningSpec

LEMMA SigningIsAComponent ==
  ControlSpec => Signing!SignInInit /\ [][Signing!SignInNext]_(Signing!signInVars)
<1>1. ControlInit => Signing!SignInInit
  BY DEF ControlInit
<1>2. [ControlNext]_ControlVars => [Signing!SignInNext]_(Signing!signInVars)
  BY DEF ControlNext, ControlVars, signingVars, Signing!signInVars
<1>3. QED
  BY <1>1, <1>2, PTL DEF ControlSpec

LEMMA ConfigIsAComponent == ControlSpec => Config!RuntimeConfigSpec
<1>1. ControlInit => Config!RuntimeConfigInit
  BY DEF ControlInit
<1>2. [ControlNext]_ControlVars => [Config!RuntimeConfigNext]_(Config!configVars)
  BY DEF ControlNext, ControlVars, configVars, Config!configVars
<1>3. QED
  BY <1>1, <1>2, PTL DEF ControlSpec, Config!RuntimeConfigSpec

LEMMA RequestsIsAComponent == ControlSpec => Requests!ControlRequestsSpec
<1>1. ControlInit => Requests!ControlRequestsInit
  BY DEF ControlInit
<1>2. [ControlNext]_ControlVars => [Requests!ControlRequestsNext]_(Requests!requestVars)
  BY DEF ControlNext, ControlVars, requestsVars, Requests!requestVars
<1>3. QED
  BY <1>1, <1>2, PTL DEF ControlSpec, Requests!ControlRequestsSpec

LEMMA SkillsIsAComponent == ControlSpec => Skills!SkillOperationsSpec
<1>1. ControlInit => Skills!SkillOperationsInit
  BY DEF ControlInit
<1>2. [ControlNext]_ControlVars => [Skills!SkillOperationsNext]_(Skills!skillVars)
  BY DEF ControlNext, ControlVars, skillsVars, Skills!skillVars, Skills!callerVars,
         Skills!waitVars
<1>3. QED
  BY <1>1, <1>2, PTL DEF ControlSpec, Skills!SkillOperationsSpec

(* A connection of a kind that was not asked for is gone when the call     *)
(* says so, and the call failed when it is not (require_connection_type,   *)
(* delete_client).                                                         *)
THEOREM UnwantedIsTold == ControlSpec => []UnwantedGoneOrTold
  BY GoneOrTold, ProvisioningIsAComponent, PTL

(* What the waits for an admission and for a skill operation end with is   *)
(* what the hub came to, a timeout only when their time is over or would   *)
(* be, and no poll comes before the wait the API asked for is over         *)
(* (wait_for_admission, wait_for_hub_skill_operation).                     *)
THEOREM WaitsSpeakTrue == ControlSpec => []WaitsAreTrue
<1>1. Skills!SkillOperationsSpec => [](Skills!DoneOnce /\ Skills!WaitIsTrue)
  BY SkillsAreSafe, ComponentAssumptions
<1>2. QED
  BY <1>1, AdmissionsAreTrue, ProvisioningIsAComponent, SkillsIsAComponent, PTL DEF WaitsAreTrue

(* No accepted write is overwritten by one who had not seen it             *)
(* (update_runtime_group_config, the If-Match of update_hub).              *)
THEOREM NoUpdateIsLost == ControlSpec => []NoLostUpdate
<1>1. Config!RuntimeConfigSpec => []Config!NoLostUpdate
  BY NoWriteIsLost, ComponentAssumptions
<1>2. Requests!ControlRequestsSpec => []Requests!NoLostUpdate
  BY RequestsAreSafe, ComponentAssumptions
<1>3. QED
  BY <1>1, <1>2, ConfigIsAComponent, RequestsIsAComponent, PTL DEF NoLostUpdate

(* The hub takes no more changes of skills than were asked for, whichever  *)
(* waits are given up and taken up again (change_hub_skill,                *)
(* wait_for_hub_skill_operation).                                          *)
THEOREM OnceOnly == ControlSpec => []DoneOnce
<1>1. Skills!SkillOperationsSpec => [](Skills!DoneOnce /\ Skills!WaitIsTrue)
  BY SkillsAreSafe, ComponentAssumptions
<1>2. QED
  BY <1>1, SkillsIsAComponent, PTL DEF DoneOnce

(* A plane's id names the token it holds, it forgets a token only once     *)
(* that is dead, and a "slow down" is obeyed for good (revoke_api_token,   *)
(* poll_device_login).                                                     *)
THEOREM TokensStayTrue == ControlSpec => TokensAreTrue
<1>1. Signing!SignInInit /\ [][Signing!SignInNext]_(Signing!signInVars) =>
        [](Signing!IdNamesToken /\ Signing!SlowDownIsForGood) /\ Signing!ForgetsOnlyDead
  BY TokensAreSafe, ComponentAssumptions
<1>2. QED
  BY <1>1, SigningIsAComponent, PTL DEF TokensAreTrue
=============================================================================
