---------------------------- MODULE Client_proof ----------------------------
(***************************************************************************)
(* A client over one link, as the components of MCClient: the home link's  *)
(* answers, asks and queries, and the description of intents, each under   *)
(* its own name, and every step of the whole a step of one of them.        *)
(***************************************************************************)
EXTENDS MCClient, Integers, FiniteSetTheorems, WellFoundedInduction, TLAPS

-----------------------------------------------------------------------------
(* Home link: a request is answered once, in the contract and in time.     *)

InContract(answer) ==
  /\ answer = [type |-> answer.type, code |-> answer.code]
  /\ answer.type \in ResponseTypes
  /\ answer.type = "error" <=> answer.code \in ErrorCodes

Stages == {"away", "handling", "answering", "waiting", "writing", "sent", "silent", "failed", "stopped"}

TaskTypes(r) ==
  /\ task[r] = [at |-> task[r].at, since |-> task[r].since, answer |-> task[r].answer]
  /\ task[r].at \in Stages /\ task[r].since \in Nat /\ InContract(task[r].answer)

HomeTypes ==
  /\ now \in Nat /\ path \in Requests \cup {None}
  /\ task = [r \in Requests |-> task[r]] /\ handler = [r \in Requests |-> handler[r]]
  /\ heard = [r \in Requests |-> heard[r]]
  /\ \A r \in Requests : TaskTypes(r)

(* A reply is on the path from when its write begins, or its answer was    *)
(* heard, once, as it was made, and its call has nothing left to do.       *)
Unheard(r) ==
  /\ heard[r] = {}
  /\ path = r => task[r].at \in {"writing", "silent", "stopped"}
  /\ task[r].at = "writing" => path = r

Heard(r) ==
  /\ \E t \in Nat : heard[r] = {[answer |-> task[r].answer, at |-> t]}
  /\ path # r /\ task[r].at \in {"sent", "silent", "stopped"}

(* A reply that waits for the path has not been given up on.               *)
InTime(r) == task[r].at = "waiting" => now <= task[r].since + Bound

HomeInv == HomeTypes /\ \A r \in Requests : (Unheard(r) \/ Heard(r)) /\ InTime(r)

LEMMA HomeStarts == ASSUME HomeLinkInit PROVE HomeInv
<1>1. /\ Away = [at |-> Away.at, since |-> Away.since, answer |-> Away.answer]
      /\ Away.at = "away" /\ Away.since = 0 /\ InContract(Away.answer)
  BY DEF Away, TooSlow, InContract, ResponseTypes, ErrorCodes
<1>2. QED
  BY <1>1, HomeLinkAssumption
     DEF HomeLinkInit, HomeInv, HomeTypes, TaskTypes, Stages, Unheard, InTime

(* Whatever a handler says is made to fit the contract.                    *)
LEMMA ResponsesFit ==
  ASSUME NEW said \in HandlerSays \cup {Failed} PROVE InContract(HomeResponse(said))
<1>1. said = [type |-> said.type, code |-> said.code]
  BY DEF HandlerSays, Failed
<1>2. CASE \/ said.type \notin ResponseTypes
           \/ said.type = "error" /\ said.code \notin ErrorCodes
  BY <1>2 DEF HomeResponse, InContract, ResponseTypes, ErrorCodes
<1>3. CASE said.type = "error" /\ said.code \in ErrorCodes
  <2>1. HomeResponse(said) = said
    BY <1>1, <1>3 DEF HomeResponse, ResponseTypes
  <2>2. QED
    BY <1>1, <1>3, <2>1 DEF InContract, ResponseTypes
<1>4. CASE said.type \in ResponseTypes /\ said.type # "error"
  <2>1. HomeResponse(said) = [type |-> said.type, code |-> None]
    BY <1>1, <1>4 DEF HomeResponse
  <2>2. QED
    BY <1>4, <2>1, HomeLinkAssumption DEF InContract
<1>5. QED
  BY <1>2, <1>3, <1>4 DEF ResponseTypes

(* A step that moves one request's task, and leaves what was heard and the *)
(* path as they are.                                                       *)
LEMMA TaskMoves ==
  ASSUME HomeInv, NEW r \in Requests, NEW how \in Stages, NEW since \in Nat, NEW answer,
         InContract(answer), UNCHANGED <<now, path, heard>>,
         handler' = [q \in Requests |-> handler'[q]],
         task' = [task EXCEPT ![r] = [at |-> how, since |-> since, answer |-> answer]],
         heard[r] = {} \/ answer = task[r].answer,
         heard[r] # {} => how \in {"sent", "silent", "stopped"},
         path = r => how \in {"writing", "silent", "stopped"},
         how = "writing" => path = r,
         how = "waiting" => now <= since + Bound
  PROVE  HomeInv'
<1>1. /\ task' = [q \in Requests |-> task'[q]]
      /\ task'[r] = [at |-> how, since |-> since, answer |-> answer]
      /\ \A q \in Requests \ {r} : task'[q] = task[q]
  BY DEF HomeInv, HomeTypes
<1>2. HomeTypes'
  BY <1>1 DEF HomeInv, HomeTypes, TaskTypes
<1>3. \A q \in Requests \ {r} : ((Unheard(q) \/ Heard(q)) /\ InTime(q))'
  BY <1>1 DEF HomeInv, Unheard, Heard, InTime
<1>4. (Unheard(r) \/ Heard(r))'
  BY <1>1 DEF HomeInv, Unheard, Heard
<1>5. InTime(r)'
  BY <1>1 DEF InTime
<1>6. QED
  BY <1>2, <1>3, <1>4, <1>5 DEF HomeInv

LEMMA EndsMoves ==
  ASSUME HomeInv, NEW r \in Requests, NEW how, Ends(r, how)
  PROVE  task' = [task EXCEPT ![r] = [at |-> how, since |-> task[r].since,
                                      answer |-> task[r].answer]]
<1>1. TaskTypes(r)
  BY DEF HomeInv, HomeTypes
<1>2. [task[r] EXCEPT !.at = how] = [at |-> how, since |-> task[r].since, answer |-> task[r].answer]
  BY <1>1 DEF TaskTypes
<1>3. QED
  BY <1>2 DEF Ends

LEMMA ArrivesKeeps == ASSUME HomeInv, NEW r \in Requests, Arrives(r) PROVE HomeInv'
<1>0. /\ now \in Nat /\ TaskTypes(r) /\ task[r].at = "away" /\ heard[r] = {} /\ path # r
      /\ UNCHANGED <<now, path, heard>> /\ handler' = [q \in Requests |-> handler'[q]]
  BY DEF HomeInv, HomeTypes, Unheard, Heard, Arrives
<1>1. CASE task' = [task EXCEPT ![r].at = "handling", ![r].since = now]
  <2>1. [task[r] EXCEPT !.at = "handling", !.since = now] =
          [at |-> "handling", since |-> now, answer |-> task[r].answer]
    <3> DEFINE moved == [task[r] EXCEPT !.at = "handling"]
    <3>1. moved = [at |-> "handling", since |-> task[r].since, answer |-> task[r].answer]
      BY <1>0 DEF TaskTypes
    <3>2. [task[r] EXCEPT !.at = "handling", !.since = now] = [moved EXCEPT !.since = now]
      OBVIOUS
    <3> HIDE DEF moved
    <3>3. QED
      BY <3>1, <3>2
  <2>2. task' = [task EXCEPT ![r] = [task[r] EXCEPT !.at = "handling", !.since = now]]
    BY <1>1 DEF HomeInv, HomeTypes
  <2>3. task' = [task EXCEPT ![r] = [at |-> "handling", since |-> now, answer |-> task[r].answer]]
    BY <2>1, <2>2
  <2>4. QED
    BY <1>0, <2>3, TaskMoves DEF TaskTypes, Stages
<1>2. CASE task' = [task EXCEPT ![r] = [at |-> "answering", since |-> now, answer |-> Failed]]
  <2>1. InContract(Failed)
    BY DEF InContract, Failed, ResponseTypes, ErrorCodes
  <2>2. QED
    BY <1>0, <1>2, <2>1, TaskMoves DEF Stages
<1>3. QED
  BY <1>1, <1>2 DEF Arrives

LEMMA AnswerIsMade ==
  ASSUME HomeInv, NEW r \in Requests, NEW answer, InContract(answer), task[r].at = "handling",
         UNCHANGED <<now, path, heard>>, handler' = [q \in Requests |-> handler'[q]],
         task' = [task EXCEPT ![r].at = "answering", ![r].answer = answer]
  PROVE  HomeInv'
<1>0. TaskTypes(r) /\ heard[r] = {} /\ path # r
  BY DEF HomeInv, HomeTypes, Unheard, Heard
<1>1. [task[r] EXCEPT !.at = "answering", !.answer = answer] =
        [at |-> "answering", since |-> task[r].since, answer |-> answer]
  <2> DEFINE moved == [task[r] EXCEPT !.at = "answering"]
  <2>1. moved = [at |-> "answering", since |-> task[r].since, answer |-> task[r].answer]
    BY <1>0 DEF TaskTypes
  <2>2. [task[r] EXCEPT !.at = "answering", !.answer = answer] = [moved EXCEPT !.answer = answer]
    OBVIOUS
  <2> HIDE DEF moved
  <2>3. QED
    BY <2>1, <2>2
<1>2. task' = [task EXCEPT ![r] = [task[r] EXCEPT !.at = "answering", !.answer = answer]]
  BY DEF HomeInv, HomeTypes
<1>3. task' = [task EXCEPT ![r] = [at |-> "answering", since |-> task[r].since, answer |-> answer]]
  BY <1>1, <1>2
<1>4. QED
  BY <1>0, <1>3, TaskMoves DEF TaskTypes, Stages

LEMMA HandlerKeeps ==
  ASSUME HomeInv, NEW r \in Requests, HandlerEnds(r) \/ HandlerTimesOut(r) PROVE HomeInv'
<1>0. UNCHANGED <<now, path, heard>> /\ handler' = [q \in Requests |-> handler'[q]]
  BY DEF HomeInv, HomeTypes, HandlerEnds, HandlerTimesOut
<1>1. CASE HandlerTimesOut(r)
  <2>1. InContract(TooSlow)
    BY DEF InContract, TooSlow, ResponseTypes, ErrorCodes
  <2>2. QED
    BY <1>0, <1>1, <2>1, AnswerIsMade DEF HandlerTimesOut
<1>2. CASE HandlerEnds(r) /\ task[r].at = "handling"
  <2>1. PICK said \in HandlerSays \cup {Failed} :
          task' = [task EXCEPT ![r].at = "answering", ![r].answer = HomeResponse(said)]
    BY <1>2 DEF HandlerEnds
  <2>2. QED
    BY <1>0, <1>2, <2>1, AnswerIsMade, ResponsesFit
<1>3. CASE HandlerEnds(r) /\ task[r].at # "handling"
  <2>1. UNCHANGED <<now, path, heard, task>>
    BY <1>3 DEF HandlerEnds
  <2>2. QED
    BY <1>0, <2>1 DEF HomeInv, HomeTypes, TaskTypes, Unheard, Heard, InTime
<1>4. QED
  BY <1>1, <1>2, <1>3

LEMMA AnswersKeep == ASSUME HomeInv, NEW r \in Requests, Answers(r) PROVE HomeInv'
<1>0. /\ TaskTypes(r) /\ task[r].at = "answering" /\ heard[r] = {} /\ path # r /\ now \in Nat
      /\ UNCHANGED <<now, path, heard>> /\ handler' = [q \in Requests |-> handler'[q]]
  BY DEF HomeInv, HomeTypes, Unheard, Heard, Answers
<1>1. PICK how \in {"waiting", "silent"} :
        Ends(r, how) /\ (how = "waiting" => now < task[r].since + Bound)
  BY DEF Answers, HubGivesUp
<1>2. how = "waiting" => now <= task[r].since + Bound
  BY <1>0, <1>1, HomeLinkAssumption DEF TaskTypes
<1>3. QED
  BY <1>0, <1>1, <1>2, EndsMoves, TaskMoves DEF TaskTypes, Stages

LEMMA WithdrawsKeeps == ASSUME HomeInv, NEW r \in Requests, Withdraws(r) PROVE HomeInv'
<1>0. /\ TaskTypes(r) /\ heard[r] = {} /\ now \in Nat
      /\ UNCHANGED <<now, path, heard>> /\ handler' = [q \in Requests |-> handler'[q]]
      /\ Ends(r, "silent")
  BY DEF HomeInv, HomeTypes, Unheard, Heard, Withdraws
<1>1. QED
  BY <1>0, EndsMoves, TaskMoves DEF TaskTypes, Stages

(* What one request's step does to the path is nothing to the others.      *)
LEMMA PathMoves ==
  ASSUME HomeInv, NEW r \in Requests, UNCHANGED now,
         path' \in Requests \cup {None}, path' = path \/ (path = r /\ path' = None) \/ (path = None /\ path' = r),
         heard' = [q \in Requests |-> heard'[q]],
         \A q \in Requests \ {r} : heard'[q] = heard[q] /\ task'[q] = task[q],
         task' = [q \in Requests |-> task'[q]], handler' = [q \in Requests |-> handler'[q]],
         TaskTypes(r)', (Unheard(r) \/ Heard(r))', InTime(r)'
  PROVE  HomeInv'
<1>1. HomeTypes'
  BY DEF HomeInv, HomeTypes, TaskTypes
<1>2. \A q \in Requests \ {r} : ((Unheard(q) \/ Heard(q)) /\ InTime(q))'
  BY HomeLinkAssumption DEF HomeInv, HomeTypes, Unheard, Heard, InTime
<1>3. QED
  BY <1>1, <1>2 DEF HomeInv

LEMMA PathKeeps ==
  ASSUME HomeInv, NEW r \in Requests,
         TakesPath(r) \/ ReplyFails(r) \/ WriteEnds(r) \/ WriteFails(r)
  PROVE  HomeInv'
<1>0. /\ TaskTypes(r) /\ now \in Nat /\ path \in Requests \cup {None} /\ None \notin Requests
      /\ UNCHANGED now /\ handler' = [q \in Requests |-> handler'[q]]
      /\ (Unheard(r) \/ Heard(r)) /\ InTime(r)
      /\ task = [q \in Requests |-> task[q]] /\ heard = [q \in Requests |-> heard[q]]
  BY HomeLinkAssumption DEF HomeInv, HomeTypes, TakesPath, ReplyFails, WriteEnds, WriteFails
<1>1. ASSUME NEW how \in Stages, Ends(r, how)
      PROVE  /\ task' = [q \in Requests |-> task'[q]]
             /\ task'[r] = [at |-> how, since |-> task[r].since, answer |-> task[r].answer]
             /\ \A q \in Requests \ {r} : task'[q] = task[q]
             /\ TaskTypes(r)'
  <2>1. task' = [task EXCEPT ![r] = [at |-> how, since |-> task[r].since, answer |-> task[r].answer]]
    BY <1>1, EndsMoves
  <2>2. /\ task' = [q \in Requests |-> task'[q]]
        /\ task'[r] = [at |-> how, since |-> task[r].since, answer |-> task[r].answer]
        /\ \A q \in Requests \ {r} : task'[q] = task[q]
    BY <1>0, <2>1
  <2>3. QED
    BY <1>0, <2>2 DEF TaskTypes
<1>2. CASE TakesPath(r)
  <2>1. task[r].at = "waiting" /\ path = None /\ path' = r /\ Ends(r, "writing") /\ heard' = heard
    BY <1>2 DEF TakesPath
  <2>2. heard[r] = {}
    BY <1>0, <2>1 DEF Unheard, Heard
  <2>3. Unheard(r)' /\ InTime(r)'
    BY <1>1, <2>1, <2>2 DEF Unheard, InTime, Stages
  <2>4. QED
    BY <1>0, <1>1, <2>1, <2>3, PathMoves DEF Stages
<1>3. CASE ReplyFails(r)
  <2>1. /\ task[r].at \in {"waiting", "writing"} /\ Ends(r, "failed") /\ heard' = heard
        /\ path' = IF path = r THEN None ELSE path
    BY <1>3 DEF ReplyFails
  <2>2. heard[r] = {} /\ path' # r
    BY <1>0, <2>1 DEF Unheard, Heard
  <2>3. Unheard(r)' /\ InTime(r)'
    BY <1>1, <2>1, <2>2 DEF Unheard, InTime, Stages
  <2>4. QED
    BY <1>0, <1>1, <2>1, <2>3, PathMoves DEF Stages
<1>4. CASE WriteFails(r)
  <2>1. path = r /\ task[r].at # "writing" /\ path' = None /\ task' = task /\ heard' = heard
    BY <1>4 DEF WriteFails
  <2>2. Unheard(r)' /\ InTime(r)' /\ TaskTypes(r)'
    BY <1>0, <2>1 DEF Unheard, Heard, InTime, TaskTypes
  <2>3. QED
    BY <1>0, <2>1, <2>2, PathMoves
<1>5. CASE WriteEnds(r)
  <2>1. /\ path = r /\ path' = None
        /\ heard' = [heard EXCEPT ![r] = @ \cup {[answer |-> task[r].answer, at |-> now]}]
        /\ IF task[r].at = "writing" THEN Ends(r, "sent") ELSE UNCHANGED task
    BY <1>5 DEF WriteEnds
  <2>2. heard[r] = {} /\ task[r].at \in {"writing", "silent", "stopped"}
    BY <1>0, <2>1 DEF Unheard, Heard
  <2>3. /\ heard' = [q \in Requests |-> heard'[q]]
        /\ heard'[r] = {[answer |-> task[r].answer, at |-> now]}
        /\ \A q \in Requests \ {r} : heard'[q] = heard[q]
    BY <1>0, <2>1, <2>2
  <2>4. /\ task' = [q \in Requests |-> task'[q]] /\ \A q \in Requests \ {r} : task'[q] = task[q]
        /\ task'[r].answer = task[r].answer /\ task'[r].at \in {"sent", "silent", "stopped"}
        /\ TaskTypes(r)'
    <3>1. CASE task[r].at = "writing"
      BY <1>1, <2>1, <3>1 DEF Stages
    <3>2. CASE task[r].at # "writing"
      BY <1>0, <2>1, <2>2, <3>2 DEF TaskTypes
    <3>3. QED
      BY <3>1, <3>2
  <2>5. Heard(r)' /\ InTime(r)'
    BY <1>0, <2>1, <2>3, <2>4 DEF Heard, InTime
  <2>6. QED
    BY <1>0, <2>1, <2>3, <2>4, <2>5, PathMoves
<1>6. QED
  BY <1>2, <1>3, <1>4, <1>5

LEMMA StopsKeep == ASSUME HomeInv, Stops PROVE HomeInv'
<1>1. /\ UNCHANGED <<now, handler, path, heard>> /\ task' = [q \in Requests |-> task'[q]]
      /\ \A r \in Requests : task'[r] = task[r] \/
           /\ task'[r] = [task[r] EXCEPT !.at = "stopped"]
           /\ task[r].at \in {"handling", "answering", "waiting", "writing"}
  BY DEF Stops
<1>2. ASSUME NEW r \in Requests PROVE TaskTypes(r)' /\ (Unheard(r) \/ Heard(r))' /\ InTime(r)'
  <2>1. TaskTypes(r) /\ (Unheard(r) \/ Heard(r)) /\ InTime(r)
    BY DEF HomeInv, HomeTypes
  <2>2. CASE task'[r] = task[r]
    BY <1>1, <2>1, <2>2 DEF TaskTypes, Unheard, Heard, InTime
  <2>3. CASE /\ task'[r] = [task[r] EXCEPT !.at = "stopped"]
             /\ task[r].at \in {"handling", "answering", "waiting", "writing"}
    <3>1. task'[r] = [at |-> "stopped", since |-> task[r].since, answer |-> task[r].answer]
      BY <2>1, <2>3 DEF TaskTypes
    <3>2. Unheard(r)
      BY <2>1, <2>3 DEF Heard
    <3>3. QED
      BY <1>1, <2>1, <3>1, <3>2 DEF TaskTypes, Unheard, InTime, Stages
  <2>4. QED
    BY <1>1, <2>2, <2>3
<1>3. QED
  BY <1>1, <1>2 DEF HomeInv, HomeTypes

LEMMA HomeTickKeeps == ASSUME HomeInv, Tick PROVE HomeInv'
<1>1. /\ UNCHANGED <<handler, path, heard, task>> /\ now' = now + 1
      /\ \A r \in Requests : task[r].at = "waiting" => now < task[r].since + Bound
  BY DEF Tick, HubGivesUp
<1>2. now' \in Nat /\ \A r \in Requests : InTime(r)'
  BY <1>1, HomeLinkAssumption DEF HomeInv, HomeTypes, TaskTypes, InTime
<1>3. QED
  BY <1>1, <1>2 DEF HomeInv, HomeTypes, TaskTypes, Unheard, Heard

LEMMA HomeStutters == ASSUME HomeInv, UNCHANGED homeVars PROVE HomeInv'
  BY DEF homeVars, HomeInv, HomeTypes, TaskTypes, Unheard, Heard, InTime

LEMMA HomeKeeps == HomeLinkSpec => []HomeInv
<1>1. HomeLinkInit => HomeInv
  BY HomeStarts
<1>2. HomeInv /\ [HomeLinkNext]_homeVars => HomeInv'
  BY ArrivesKeeps, HandlerKeeps, AnswersKeep, WithdrawsKeeps, PathKeeps, StopsKeep,
     HomeTickKeeps, HomeStutters DEF HomeLinkNext
<1>3. QED
  BY <1>1, <1>2, PTL DEF HomeLinkSpec

(* A request of the hub has at most one answer, in the contract whatever   *)
(* the handler said, did not say, or said too late                         *)
(* (answer_home_request_within).                                           *)
THEOREM OneAnswerEach == HomeLinkSpec => []OneAnswerInContract
<1>1. ASSUME HomeInv, NEW r \in Requests
      PROVE  /\ Cardinality(heard[r]) <= 1
             /\ \A h \in heard[r] :
                  /\ h.answer = task[r].answer
                  /\ h.answer.type \in ResponseTypes
                  /\ h.answer.type = "error" <=> h.answer.code \in ErrorCodes
  <2>1. TaskTypes(r) /\ (Unheard(r) \/ Heard(r))
    BY <1>1 DEF HomeInv, HomeTypes
  <2>2. CASE heard[r] = {}
    BY <2>2, FS_EmptySet
  <2>3. CASE \E t \in Nat : heard[r] = {[answer |-> task[r].answer, at |-> t]}
    <3>1. PICK t \in Nat : heard[r] = {[answer |-> task[r].answer, at |-> t]}
      BY <2>3
    <3>2. Cardinality({[answer |-> task[r].answer, at |-> t]}) = 1
      BY FS_Singleton
    <3>3. Cardinality(heard[r]) <= 1
      BY <3>1, <3>2
    <3>4. \A h \in heard[r] : h.answer = task[r].answer
      BY <3>1
    <3>5. QED
      BY <2>1, <3>3, <3>4 DEF TaskTypes, InContract
  <2>4. QED
    BY <2>1, <2>2, <2>3 DEF Unheard, Heard
<1>2. HomeInv => OneAnswerInContract
  BY <1>1 DEF OneAnswerInContract
<1>3. QED
  BY <1>2, HomeKeeps, PTL

(* No reply takes the send path once the hub has given up on it            *)
(* (HOME_REQUEST_TIMEOUT).                                                 *)
THEOREM NoneStartedLate == HomeLinkSpec => NothingStartedLate
<1>1. ASSUME HomeInv, HomeLinkNext, NEW r \in Requests, path' = r, path # r
      PROVE  now <= task[r].since + Bound
  <2>1. TakesPath(r)
    BY <1>1, HomeLinkAssumption
       DEF HomeLinkNext, Arrives, HandlerEnds, HandlerTimesOut, Answers, TakesPath, ReplyFails,
           Withdraws, WriteEnds, WriteFails, Stops, Tick
  <2>2. QED
    BY <1>1, <2>1 DEF TakesPath, HomeInv, InTime
<1>2. HomeInv /\ [HomeLinkNext]_homeVars =>
        [\A r \in Requests : path' = r /\ path # r => now <= task[r].since + Bound]_homeVars
  BY <1>1
<1>3. QED
  BY <1>2, HomeKeeps, PTL DEF HomeLinkSpec, NothingStartedLate

-----------------------------------------------------------------------------
(* Describe: a registration is described only by its own answer, and a     *)
(* partial answer is an answer.                                            *)

(* What the hub said of k, and said to k's request.                        *)
OfTheHub(event) ==
  /\ event.id \in Describing!Keys => event.of = event.id
  /\ event.id \in Describing!Keys \cup {None} =>
       event.of \in Describing!Keys /\ copies[event.of] > 0
  /\ event.says \in {"usable", "empty"}

DescribeEvents ==
  [name : {"described", "denied"}, of : Describing!Keys,
   id : Describing!Keys \cup {None, Describing!Foreign}, says : {"usable", "empty"}]

DescribeTypes ==
  /\ describeNow \in Nat /\ sent \in Nat /\ window \in Nat \ {0} /\ lastSend \in Nat
  /\ queue \in Seq(DescribeEvents)
  /\ copies \in [Describing!Keys -> Nat]
  /\ found \in [Describing!Keys -> {None, "usable", "empty"}]
  /\ kept \in [Describing!Keys -> {None, "usable", "empty"}]

(* Nothing is described while a window's requests are sent; and the call   *)
(* fails as a timeout with nothing described.                              *)
DescribeInv ==
  /\ DescribeTypes
  /\ \A i \in 1..Len(queue) : OfTheHub(queue[i])
  /\ \A k \in Describing!Keys : found[k] # None \/ kept[k] # None => copies[k] > 0
  /\ describeAt = "sending" => found = [k \in Describing!Keys |-> None]
  /\ Describing!PartialSurvives
  /\ lastSend <= Deadline

LEMMA DescribeStarts ==
  ASSUME Describing!DescribeAssumption, Describing!DescribeInit PROVE DescribeInv
  BY DEF Describing!DescribeAssumption, Describing!DescribeInit, DescribeInv, DescribeTypes,
         Describing!PartialSurvives

(* The buffer gains an event, and may lose its oldest.                     *)
LEMMA BufferKeeps ==
  ASSUME NEW S, queue \in Seq(S), NEW event \in S, Describing!Arrives(event)
  PROVE  /\ queue' \in Seq(S)
         /\ \A i \in 1..Len(queue') :
              queue'[i] = event \/ \E j \in 1..Len(queue) : queue'[i] = queue[j]
<1> DEFINE longer == Append(queue, event)
<1>1. /\ longer \in Seq(S) /\ Len(longer) = Len(queue) + 1 /\ Len(queue) \in Nat
      /\ \A i \in 1..Len(longer) : longer[i] = event \/ \E j \in 1..Len(queue) : longer[i] = queue[j]
  OBVIOUS
<1>2. queue' = IF Len(longer) > Capacity THEN Tail(longer) ELSE longer
  BY DEF Describing!Arrives
<1> HIDE DEF longer
<1>3. /\ longer # <<>> /\ Tail(longer) \in Seq(S)
      /\ \A i \in 1..Len(Tail(longer)) : i + 1 \in 1..Len(longer) /\ Tail(longer)[i] = longer[i + 1]
  BY <1>1
<1>4. CASE queue' = longer
  BY <1>1, <1>4
<1>5. CASE queue' = Tail(longer)
  BY <1>1, <1>3, <1>5
<1>6. QED
  BY <1>2, <1>4, <1>5

LEMMA HubSaysKeeps ==
  ASSUME Describing!DescribeAssumption, DescribeInv, NEW k \in Describing!Keys,
         Describing!HubAnswers(k) \/ Describing!HubDenies(k)
  PROVE  DescribeInv'
<1>1. PICK event \in DescribeEvents :
        Describing!Arrives(event) /\ event.of = k /\ event.id \in {k, None}
  <2>1. CASE Describing!HubAnswers(k)
    BY <2>1 DEF Describing!HubAnswers, DescribeEvents
  <2>2. CASE Describing!HubDenies(k)
    BY <2>2 DEF Describing!HubDenies, DescribeEvents
  <2>3. QED
    BY <2>1, <2>2
<1>2. /\ copies' = [copies EXCEPT ![k] = @ + 1] /\ copies \in [Describing!Keys -> Nat]
      /\ UNCHANGED <<describeNow, sent, describeAt, window, found, kept, lastSend>>
  BY DEF Describing!HubAnswers, Describing!HubDenies, DescribeInv, DescribeTypes
<1>3. /\ copies' \in [Describing!Keys -> Nat] /\ copies'[k] > 0
      /\ \A q \in Describing!Keys : copies[q] > 0 => copies'[q] > 0
  BY <1>2
<1>4. /\ queue' \in Seq(DescribeEvents)
      /\ \A i \in 1..Len(queue') :
           queue'[i] = event \/ \E j \in 1..Len(queue) : queue'[i] = queue[j]
  BY <1>1, BufferKeeps DEF DescribeInv, DescribeTypes
<1>5. OfTheHub(event)'
  BY <1>1, <1>3 DEF OfTheHub, DescribeEvents, Describing!DescribeAssumption
<1>7. \A e : OfTheHub(e) => OfTheHub(e)'
  BY <1>3 DEF OfTheHub
<1>8. (\A i \in 1..Len(queue) : OfTheHub(queue[i]))'
  BY <1>4, <1>5, <1>7 DEF DescribeInv
<1>9. QED
  BY <1>2, <1>3, <1>4, <1>8 DEF DescribeInv, DescribeTypes, Describing!PartialSurvives, Describing!Usable

LEMMA OthersKeep ==
  ASSUME Describing!DescribeAssumption, DescribeInv, NEW k \in Describing!Keys,
         Describing!OthersAnswer(k)
  PROVE  DescribeInv'
<1>1. PICK event \in DescribeEvents :
        Describing!Arrives(event) /\ event.id = Describing!Foreign
  BY DEF Describing!OthersAnswer, DescribeEvents
<1>2. UNCHANGED <<describeNow, sent, describeAt, window, found, kept, copies, lastSend>>
  BY DEF Describing!OthersAnswer
<1>3. /\ queue' \in Seq(DescribeEvents)
      /\ \A i \in 1..Len(queue') :
           queue'[i] = event \/ \E j \in 1..Len(queue) : queue'[i] = queue[j]
  BY <1>1, BufferKeeps DEF DescribeInv, DescribeTypes
<1>4. OfTheHub(event)'
  BY <1>1 DEF OfTheHub, DescribeEvents, Describing!DescribeAssumption
<1>5. \A e : OfTheHub(e) => OfTheHub(e)'
  BY <1>2 DEF OfTheHub
<1>6. (\A i \in 1..Len(queue) : OfTheHub(queue[i]))'
  BY <1>3, <1>4, <1>5 DEF DescribeInv
<1>7. QED
  BY <1>2, <1>3, <1>6 DEF DescribeInv, DescribeTypes, Describing!PartialSurvives, Describing!Usable

LEMMA WindowIsOurs ==
  ASSUME Describing!DescribeAssumption, DescribeInv
  PROVE  Describing!WindowEnd \in Nat /\ Describing!InWindow \subseteq Describing!Keys
<1>1. Len(Wanted) \in Nat /\ window \in Nat \ {0} /\ Batch \in Nat
  BY DEF Describing!DescribeAssumption, DescribeInv, DescribeTypes
<1>2. Describing!WindowEnd \in Nat /\ Describing!WindowEnd <= Len(Wanted)
  BY <1>1 DEF Describing!WindowEnd, Describing!Earlier
<1>3. \A i \in window..Describing!WindowEnd : i \in 1..Len(Wanted)
  BY <1>1, <1>2
<1>4. QED
  BY <1>2, <1>3 DEF Describing!InWindow, Describing!Keys

(* A window ends: nothing is lost of the windows before it, and a timeout  *)
(* fails only a call with nothing described.                               *)
LEMMA WindowOverKeeps ==
  ASSUME Describing!DescribeAssumption, DescribeInv, NEW timedOut \in BOOLEAN,
         NEW described \in [Describing!Keys -> {None, "usable", "empty"}],
         \A k \in Describing!Keys : described[k] # None => copies[k] > 0,
         timedOut => /\ described = [k \in Describing!Keys |-> None]
                     /\ ~Describing!Usable(found),
         Describing!WindowOver(timedOut, described),
         sent' \in Nat, UNCHANGED <<describeNow, copies, lastSend>>
  PROVE  DescribeInv'
<1>1. /\ kept' \in [Describing!Keys -> {None, "usable", "empty"}]
      /\ \A k \in Describing!Keys : kept'[k] = IF described[k] = None THEN kept[k] ELSE described[k]
  BY DEF Describing!WindowOver, DescribeInv, DescribeTypes
<1>2. \A k \in Describing!Keys : kept'[k] # None => copies'[k] > 0
  BY <1>1 DEF DescribeInv
<1>3. \A e : OfTheHub(e) => OfTheHub(e)'
  BY DEF OfTheHub
<1>4. CASE timedOut /\ ~Describing!Usable(kept) /\ Describing!Ends("timeout")
  <2>1. \A k \in Describing!Keys : kept'[k] = kept[k]
    BY <1>1, <1>4
  <2>2. UNCHANGED <<window, queue, found>> /\ describeAt' = "timeout"
    BY <1>4 DEF Describing!Ends
  <2>3. Describing!PartialSurvives'
    BY <1>4, <2>1, <2>2 DEF Describing!PartialSurvives, Describing!Usable
  <2>4. QED
    BY <1>1, <1>2, <1>3, <2>2, <2>3 DEF DescribeInv, DescribeTypes
<1>5. CASE Describing!Ends("ok")
  <2>1. UNCHANGED <<window, queue, found>> /\ describeAt' = "ok"
    BY <1>5 DEF Describing!Ends
  <2>2. QED
    BY <1>1, <1>2, <1>3, <2>1 DEF DescribeInv, DescribeTypes, Describing!PartialSurvives
<1>6. CASE Describing!Begin(Describing!WindowEnd + 1)
  <2>1. /\ window' \in Nat \ {0} /\ describeAt' = "sending" /\ queue' = <<>>
        /\ found' = [k \in Describing!Keys |-> None]
    BY <1>6, WindowIsOurs DEF Describing!Begin
  <2>2. QED
    BY <1>1, <1>2, <2>1 DEF DescribeInv, DescribeTypes, Describing!PartialSurvives
<1>7. QED
  BY <1>4, <1>5, <1>6 DEF Describing!WindowOver

LEMMA WindowTimesOutKeeps ==
  ASSUME Describing!DescribeAssumption, DescribeInv,
         Describing!SendTimesOut \/ Describing!WaitTimesOut
  PROVE  DescribeInv'
<1> DEFINE nothing == [k \in Describing!Keys |-> None]
<1>1. nothing \in [Describing!Keys -> {None, "usable", "empty"}] /\ ~Describing!Usable(nothing)
  BY DEF Describing!Usable, Describing!DescribeAssumption
<1>2. CASE Describing!SendTimesOut
  <2>1. found = nothing /\ Describing!WindowOver(TRUE, nothing) /\ sent' \in Nat
    BY <1>2, WindowIsOurs DEF Describing!SendTimesOut, DescribeInv
  <2>2. UNCHANGED <<describeNow, copies, lastSend>>
    BY <1>2 DEF Describing!SendTimesOut
  <2>3. \A k \in Describing!Keys : nothing[k] # None => copies[k] > 0
    OBVIOUS
  <2> HIDE DEF nothing
  <2>4. QED
    BY <1>1, <2>1, <2>2, <2>3, WindowOverKeeps DEF nothing
<1>3. CASE Describing!WaitTimesOut
  <2>1. /\ sent' \in Nat /\ UNCHANGED <<describeNow, copies, lastSend>>
        /\ found \in [Describing!Keys -> {None, "usable", "empty"}]
        /\ \A k \in Describing!Keys : found[k] # None => copies[k] > 0
    BY <1>3 DEF Describing!WaitTimesOut, DescribeInv, DescribeTypes
  <2>2. CASE Describing!Usable(found)
    <3>1. Describing!WindowOver(FALSE, found)
      BY <1>3, <2>2 DEF Describing!WaitTimesOut
    <3>2. QED
      BY <2>1, <3>1, WindowOverKeeps
  <2>3. CASE ~Describing!Usable(found)
    <3>1. Describing!WindowOver(TRUE, nothing)
      BY <1>3, <2>3 DEF Describing!WaitTimesOut
    <3>2. \A k \in Describing!Keys : nothing[k] # None => copies[k] > 0
      OBVIOUS
    <3> HIDE DEF nothing
    <3>3. QED
      BY <1>1, <2>1, <2>3, <3>1, <3>2, WindowOverKeeps DEF nothing
  <2>4. QED
    BY <2>2, <2>3
<1>4. QED
  BY <1>2, <1>3

LEMMA ReadKeeps ==
  ASSUME Describing!DescribeAssumption, DescribeInv, Describing!Read PROVE DescribeInv'
<1> DEFINE event == Head(queue)
           key == Describing!KeyOf(event)
           described == IF event.name = "described" /\ key # None /\ found[key] = None
                        THEN [found EXCEPT ![key] = event.says] ELSE found
<1>1. /\ OfTheHub(event) /\ UNCHANGED <<describeNow, sent, copies, lastSend>>
      /\ describeAt = "waiting" /\ queue # <<>>
  <2>1. queue # <<>> /\ Len(queue) \in Nat /\ Head(queue) = queue[1] /\ 1 \in 1..Len(queue)
    BY DEF Describing!Read, DescribeInv, DescribeTypes
  <2>2. QED
    BY <2>1 DEF Describing!Read, DescribeInv
<1>2. key # None => key \in Describing!Keys /\ copies[key] > 0
  BY <1>1, WindowIsOurs DEF Describing!KeyOf, OfTheHub
<1>3. event.says \in {"usable", "empty"}
  BY <1>1 DEF OfTheHub
<1>4. /\ described \in [Describing!Keys -> {None, "usable", "empty"}]
      /\ \A k \in Describing!Keys : described[k] # None => copies[k] > 0
  <2> HIDE DEF key, event
  <2>1. found \in [Describing!Keys -> {None, "usable", "empty"}]
    BY DEF DescribeInv, DescribeTypes
  <2>2. \A k \in Describing!Keys : found[k] # None => copies[k] > 0
    BY DEF DescribeInv
  <2>3. QED
    BY <1>2, <1>3, <2>1, <2>2
<1>5. \/ Describing!Ends("denied") /\ UNCHANGED kept
      \/ Describing!WindowOver(FALSE, described)
      \/ found' = described /\ queue' = Tail(queue) /\ UNCHANGED <<describeAt, window, kept>>
  BY DEF Describing!Read
<1> HIDE DEF described
<1>6. CASE Describing!Ends("denied") /\ UNCHANGED kept
  <2>1. UNCHANGED <<window, queue, found, kept>> /\ describeAt' = "denied"
    BY <1>6 DEF Describing!Ends
  <2>2. QED
    BY <1>1, <2>1 DEF DescribeInv, DescribeTypes, Describing!PartialSurvives, OfTheHub
<1>7. CASE Describing!WindowOver(FALSE, described)
  <2>1. sent' \in Nat
    BY <1>1 DEF DescribeInv, DescribeTypes
  <2>2. QED
    BY <1>1, <1>4, <1>7, <2>1, WindowOverKeeps
<1>8. CASE found' = described /\ queue' = Tail(queue) /\ UNCHANGED <<describeAt, window, kept>>
  <2>1. /\ queue' \in Seq(DescribeEvents)
        /\ \A i \in 1..Len(queue') : i + 1 \in 1..Len(queue) /\ queue'[i] = queue[i + 1]
    BY <1>1, <1>8 DEF DescribeInv, DescribeTypes
  <2>2. \A e : OfTheHub(e) => OfTheHub(e)'
    BY <1>1 DEF OfTheHub
  <2>3. (\A i \in 1..Len(queue) : OfTheHub(queue[i]))'
    BY <2>1, <2>2 DEF DescribeInv
  <2>4. QED
    BY <1>1, <1>4, <1>8, <2>1, <2>3 DEF DescribeInv, DescribeTypes, Describing!PartialSurvives
<1>9. QED
  BY <1>5, <1>6, <1>7, <1>8

LEMMA DescribeStepKeeps ==
  ASSUME Describing!DescribeAssumption, DescribeInv,
         [Describing!DescribeNext]_(Describing!describeVars)
  PROVE  DescribeInv'
<1>1. CASE Describing!Send
  <2>1. /\ sent' \in Nat /\ lastSend' = describeNow /\ describeNow \in Nat
        /\ describeNow <= Deadline
        /\ UNCHANGED <<describeNow, describeAt, window, found, kept, queue, copies>>
    BY <1>1 DEF Describing!Send, DescribeInv, DescribeTypes, Describing!DescribeAssumption
  <2>2. QED
    BY <2>1 DEF DescribeInv, DescribeTypes, Describing!PartialSurvives, Describing!Usable, OfTheHub
<1>2. CASE Describing!AllSent \/ Describing!SendFails
  <2>1. /\ describeAt' \in {"waiting", "failed"}
        /\ UNCHANGED <<describeNow, sent, window, found, kept, queue, copies, lastSend>>
    BY <1>2 DEF Describing!AllSent, Describing!SendFails, Describing!Ends
  <2>2. QED
    BY <2>1 DEF DescribeInv, DescribeTypes, Describing!PartialSurvives, OfTheHub
<1>3. CASE Describing!Tick
  <2>1. /\ describeNow' \in Nat
        /\ UNCHANGED <<describeAt, sent, window, found, kept, queue, copies, lastSend>>
    BY <1>3 DEF Describing!Tick, DescribeInv, DescribeTypes
  <2>2. QED
    BY <2>1 DEF DescribeInv, DescribeTypes, Describing!PartialSurvives, Describing!Usable, OfTheHub
<1>4. CASE UNCHANGED Describing!describeVars
  BY <1>4 DEF Describing!describeVars, DescribeInv, DescribeTypes, Describing!PartialSurvives,
              Describing!Usable, OfTheHub
<1>5. QED
  BY <1>1, <1>2, <1>3, <1>4, HubSaysKeeps, OthersKeep, ReadKeeps, WindowTimesOutKeeps
     DEF Describing!DescribeNext

LEMMA DescribesItsOwn ==
  ASSUME Describing!DescribeAssumption, DescribeInv
  PROVE  Describing!DescribedByOwn /\ Describing!PartialSurvives
<1>1. \A k \in Describing!Keys : Describing!Merged[k] # None => copies[k] > 0
  BY DEF Describing!Merged, DescribeInv
<1>2. QED
  BY <1>1 DEF Describing!DescribedByOwn, DescribeInv

(* A registration is described only by an answer the hub gave to it, and   *)
(* what one window described another does not lose (describe_many).        *)
THEOREM DescribesTruly ==
  ASSUME Describing!DescribeAssumption
  PROVE  Describing!DescribeSpec => [](Describing!DescribedByOwn /\ Describing!PartialSurvives)
<1>1. Describing!DescribeInit => DescribeInv
  BY DescribeStarts
<1>2. DescribeInv /\ [Describing!DescribeNext]_(Describing!describeVars) => DescribeInv'
  BY DescribeStepKeeps
<1>3. DescribeInv => Describing!DescribedByOwn /\ Describing!PartialSurvives
  BY DescribesItsOwn
<1>4. QED
  BY <1>1, <1>2, <1>3, PTL DEF Describing!DescribeSpec

-----------------------------------------------------------------------------
(* Replies: what an operation returns was said to it, in time, and a       *)
(* refusal is not taken from another.                                      *)

Whats == {"speak", "missed", "expired", "complete", "handled", "denied"}
ReplyEvents == [op : Ops, id : Ids \cup {None}, what : Whats, at : Nat]

RepliesTypes ==
  /\ repliesNow \in Nat
  /\ pc \in [Ops -> {"idle", "connect", "sending", "collect", "done"}]
  /\ kind \in [Ops -> Asks!Kinds \cup {None}] /\ id \in [Ops -> Ids \cup {None}]
  /\ deadline \in [Ops -> Nat \cup {None}] /\ seen \in [Ops -> Nat]
  /\ repliesHeard \in [Ops -> BOOLEAN] /\ soft \in [Ops -> BOOLEAN]
  /\ emptyAt \in [Ops -> Nat \cup {None}] /\ settleAt \in [Ops -> Nat \cup {None}]
  /\ write \in [Ops -> {"none", "out", "done", "failed"}]
  /\ sentAt \in [Ops -> Nat \cup {None}]
  /\ log \in [{"bus", "hive"} -> Seq(ReplyEvents)]
  /\ result \in [Ops -> Asks!Results \cup {None}]

(* How far an operation is: what it reads, once its write is out.          *)
Stage(o) ==
  /\ pc[o] = "idle" => id[o] = None
  /\ pc[o] # "idle" => kind[o] \in Asks!Kinds /\ id[o] \in Ids
  /\ pc[o] \in {"connect", "collect", "sending"} => deadline[o] \in Nat
  /\ pc[o] # "done" => result[o] = None
  /\ pc[o] = "collect" => kind[o] # "send"
  /\ pc[o] = "sending" => kind[o] = "send"
  /\ write[o] # "none" => /\ pc[o] \in {"collect", "sending", "done"} /\ deadline[o] \in Nat
                          /\ kind[o] = "send" => sentAt[o] \in Nat
  /\ write[o] = "none" => /\ pc[o] \in {"idle", "connect", "done"} /\ seen[o] = 0
                          /\ emptyAt[o] = None /\ settleAt[o] = None
  /\ kind[o] = "send" => seen[o] = 0
  /\ seen[o] <= Len(log[Asks!RingOf(o)])

(* A window is counted from the first event that opens it.                 *)
FirstOpens(o, what, end, wait) ==
  end # None => \E n \in Asks!SaidTo(o, what) :
                  /\ end = log[Asks!RingOf(o)][n].at + wait
                  /\ \A m \in Asks!SaidTo(o, what) :
                       log[Asks!RingOf(o)][n].at <= log[Asks!RingOf(o)][m].at

(* What the operation knows is what it has read of its own; what it has    *)
(* not read arrived this instant.                                          *)
Knows(o) ==
  /\ repliesHeard[o] <=> \E n \in Asks!SaidTo(o, {"speak"}) : n <= seen[o]
  /\ result[o] = "answered" => repliesHeard[o]
  /\ pc[o] = "collect" => \A n \in 1..Len(log[Asks!RingOf(o)]) :
                            n > seen[o] => log[Asks!RingOf(o)][n].at = repliesNow
  /\ FirstOpens(o, {"speak"}, settleAt[o], Settle)
  /\ FirstOpens(o, {"missed", "handled"}, emptyAt[o], EmptyWait)
  /\ kind[o] = "ask" /\ repliesHeard[o] => settleAt[o] # None
  /\ kind[o] = "ask" => \A n \in Asks!SaidTo(o, {"missed", "handled"}) :
                          n <= seen[o] => emptyAt[o] # None

(* An ask that returned nothing was past its window, and so is all that    *)
(* was said to it.                                                         *)
SpokenLate(o) ==
  kind[o] = "ask" /\ result[o] \in {"silent", "unanswered"} =>
    /\ pc[o] = "done" /\ deadline[o] \in Nat /\ repliesNow >= Asks!WakeAt(o)
    /\ \A n \in Asks!SaidTo(o, {"speak"}) : log["bus"][n].at >= Asks!WakeAt(o)

(* The hub answers what was written, by its id; a refusal has none.        *)
Logged(ring, event) ==
  /\ event.at <= repliesNow /\ write[event.op] # "none"
  /\ event.what = "denied" => ring = "bus"
  /\ event.what # "denied" => event.id = id[event.op] /\ ring = Asks!RingOf(event.op)

Active(o) == pc[o] \in {"connect", "collect", "sending"} \/ write[o] # "none"

(* An id is shared only by an ask and a query, which read different rings. *)
Apart(o, p) ==
  o # p /\ Active(o) /\ Active(p) /\ id[o] = id[p] =>
    kind[o] # kind[p] /\ kind[o] # "send" /\ kind[p] # "send"

RepliesInv ==
  /\ RepliesTypes
  /\ \A o \in Ops : Stage(o) /\ Knows(o) /\ SpokenLate(o)
  /\ \A ring \in {"bus", "hive"} : \A n \in 1..Len(log[ring]) : Logged(ring, log[ring][n])
  /\ \A o, p \in Ops : Apart(o, p)

LEMMA ReplyConstants ==
  /\ ReplyTimeout \in Nat /\ EmptyWait \in Nat /\ Settle \in Nat /\ Grace \in Nat /\ Ring \in Nat
  /\ None \notin Ops \cup Ids \cup Asks!Kinds \cup Asks!Results \cup Nat
  BY ComponentAssumptions DEF Asks!RepliesAssumption

LEMMA RepliesStart == Asks!RepliesInit => RepliesInv
<1> SUFFICES ASSUME Asks!RepliesInit PROVE RepliesInv
  OBVIOUS
<1>1. RepliesTypes
  BY DEF RepliesTypes, Asks!RepliesInit
<1>2. \A ring \in {"bus", "hive"} : log[ring] = <<>> /\ Len(log[ring]) = 0
  BY DEF Asks!RepliesInit
<1>3. \A o \in Ops : Asks!RingOf(o) \in {"bus", "hive"}
  BY DEF Asks!RingOf
<1>4. \A o \in Ops : \A what : Asks!SaidTo(o, what) = {}
  BY <1>2, <1>3 DEF Asks!SaidTo
<1>5. \A o \in Ops : Stage(o)
  BY <1>2, <1>3, ReplyConstants DEF Stage, Asks!RepliesInit
<1>6. \A o \in Ops : Knows(o) /\ SpokenLate(o)
  BY <1>2, <1>3, <1>4, ReplyConstants
     DEF Knows, SpokenLate, FirstOpens, Asks!RepliesInit, Asks!Kinds, Asks!Results
<1>7. \A o, p \in Ops : Apart(o, p)
  BY DEF Apart, Active, Asks!RepliesInit
<1>8. QED
  BY <1>1, <1>2, <1>5, <1>6, <1>7 DEF RepliesInv

(* An operation of which nothing changes.                                  *)
Rests(p) ==
  UNCHANGED <<pc[p], kind[p], id[p], deadline[p], seen[p], repliesHeard[p], emptyAt[p],
              settleAt[p], write[p], sentAt[p], result[p]>>

LEMMA RestsKeeps ==
  ASSUME NEW p \in Ops, Rests(p), UNCHANGED <<repliesNow, log>>, Stage(p), Knows(p), SpokenLate(p)
  PROVE  Stage(p)' /\ Knows(p)' /\ SpokenLate(p)'
<1>1. /\ Asks!RingOf(p)' = Asks!RingOf(p) /\ Asks!WakeAt(p)' = Asks!WakeAt(p)
      /\ \A what : Asks!SaidTo(p, what)' = Asks!SaidTo(p, what)
  BY DEF Rests, Asks!RingOf, Asks!WakeAt, Asks!SaidTo
<1>2. Stage(p)'
  BY <1>1 DEF Rests, Stage
<1>3. SpokenLate(p)'
  BY <1>1 DEF Rests, SpokenLate
<1>4. \A what, end, wait : FirstOpens(p, what, end, wait) => FirstOpens(p, what, end, wait)'
  BY <1>1 DEF FirstOpens
<1>5. Knows(p)'
  BY <1>1, <1>4 DEF Rests, Knows
<1>6. QED
  BY <1>2, <1>3, <1>5

LEMMA OneMoves ==
  ASSUME RepliesInv, NEW o \in Ops, UNCHANGED <<repliesNow, log>>, RepliesTypes',
         \A p \in Ops \ {o} : Rests(p),
         write[o] # "none" => write'[o] # "none" /\ id'[o] = id[o] /\ kind'[o] = kind[o],
         Stage(o)', Knows(o)', SpokenLate(o)',
         \A p \in Ops : Apart(o, p)' /\ Apart(p, o)'
  PROVE  RepliesInv'
<1>1. \A p \in Ops : (Stage(p) /\ Knows(p) /\ SpokenLate(p))'
  BY RestsKeeps DEF RepliesInv
<1>2. \A p \in Ops : write[p] # "none" =>
        write'[p] # "none" /\ id'[p] = id[p] /\ kind'[p] = kind[p]
  BY DEF Rests
<1>3. ASSUME NEW ring \in {"bus", "hive"}, NEW n \in 1..Len(log[ring])
      PROVE  Logged(ring, log[ring][n])'
  <2>1. Logged(ring, log[ring][n]) /\ log[ring] \in Seq(ReplyEvents)
    BY <1>3 DEF RepliesInv, RepliesTypes
  <2>2. log[ring][n] \in ReplyEvents
    BY <1>3, <2>1
  <2>3. QED
    BY <1>2, <2>1, <2>2 DEF Logged, Asks!RingOf, ReplyEvents
<1>4. \A p, q \in Ops : Apart(p, q)'
  <2>1. ASSUME NEW p \in Ops \ {o}, NEW q \in Ops \ {o} PROVE Apart(p, q)'
    BY <2>1 DEF RepliesInv, Apart, Active, Rests
  <2>2. QED
    BY <2>1
<1>5. QED
  BY <1>1, <1>3, <1>4 DEF RepliesInv

(* Pairs stay apart while an operation goes on, or ends.                   *)
LEMMA ActiveStaysApart ==
  ASSUME RepliesInv, NEW o \in Ops, Active(o)' => Active(o), id'[o] = id[o], kind'[o] = kind[o],
         \A p \in Ops \ {o} : Rests(p)
  PROVE  \A p \in Ops : Apart(o, p)' /\ Apart(p, o)'
<1>1. ASSUME NEW p \in Ops \ {o} PROVE Apart(o, p)' /\ Apart(p, o)'
  <2>1. Apart(o, p) /\ Apart(p, o) /\ (Active(p)' => Active(p)) /\ id'[p] = id[p] /\ kind'[p] = kind[p]
    BY DEF RepliesInv, Rests, Active
  <2>2. QED
    BY <2>1 DEF Apart
<1>2. QED
  BY <1>1 DEF Apart

LEMMA WakesInTime ==
  ASSUME RepliesTypes, NEW o \in Ops, deadline[o] \in Nat
  PROVE  /\ Asks!WakeAt(o) \in Nat /\ Asks!WakeAt(o) <= deadline[o]
         /\ settleAt[o] # None => Asks!WakeAt(o) <= settleAt[o]
         /\ settleAt[o] = None /\ emptyAt[o] # None => Asks!WakeAt(o) <= emptyAt[o]
<1>1. settleAt[o] \in Nat \cup {None} /\ emptyAt[o] \in Nat \cup {None}
  BY DEF RepliesTypes
<1>2. QED
  BY <1>1, ReplyConstants DEF Asks!WakeAt, Asks!Earlier

(* An operation ends, or its write does: what it has read is as it was.    *)
LEMMA EndKeeps ==
  ASSUME RepliesInv, NEW o \in Ops, NEW w \in {"none", "out", "done", "failed"},
         NEW how \in Asks!Results,
         pc[o] \in {"connect", "collect", "sending"},
         w = "none" <=> write[o] = "none",
         write' = [write EXCEPT ![o] = w],
         UNCHANGED <<repliesNow, kind, id, deadline, seen, repliesHeard, soft, emptyAt, settleAt,
                     sentAt, log>>,
         Asks!End(o, how) \/ UNCHANGED <<pc, result>>,
         how = "answered" => repliesHeard[o],
         kind[o] = "ask" /\ how \in {"silent", "unanswered"} =>
           pc[o] = "collect" /\ Asks!Due(o) /\ ~repliesHeard[o]
  PROVE  RepliesInv'
<1>1. RepliesTypes /\ Stage(o) /\ Knows(o) /\ SpokenLate(o)
  BY DEF RepliesInv
<1>0. /\ pc' \in [Ops -> {"idle", "connect", "sending", "collect", "done"}]
      /\ result' \in [Ops -> Asks!Results \cup {None}]
      /\ write' \in [Ops -> {"none", "out", "done", "failed"}]
  <2>1. /\ pc \in [Ops -> {"idle", "connect", "sending", "collect", "done"}]
        /\ result \in [Ops -> Asks!Results \cup {None}]
        /\ write \in [Ops -> {"none", "out", "done", "failed"}]
    BY <1>1 DEF RepliesTypes
  <2>2. QED
    BY <2>1 DEF Asks!End
<1>2. /\ RepliesTypes' /\ pc'[o] \in {pc[o], "done"} /\ write'[o] = w
      /\ \/ pc'[o] = pc[o] /\ result'[o] = result[o]
         \/ pc'[o] = "done" /\ result'[o] = how
  BY <1>0, <1>1 DEF RepliesTypes, Asks!End
<1>3. \A p \in Ops \ {o} : Rests(p)
  BY <1>1 DEF RepliesTypes, Asks!End, Rests
<1>4. /\ Asks!RingOf(o)' = Asks!RingOf(o) /\ Asks!WakeAt(o)' = Asks!WakeAt(o)
      /\ \A what : Asks!SaidTo(o, what)' = Asks!SaidTo(o, what)
  BY DEF Asks!RingOf, Asks!WakeAt, Asks!SaidTo
<1>5. \A what, end, wait : FirstOpens(o, what, end, wait) => FirstOpens(o, what, end, wait)'
  BY <1>4 DEF FirstOpens
<1>6. Stage(o)'
  BY <1>1, <1>2, <1>4 DEF Stage
<1>7. Knows(o)'
  BY <1>1, <1>2, <1>4, <1>5 DEF Knows
<1>8. SpokenLate(o)'
  <2>1. CASE pc'[o] = pc[o] /\ result'[o] = result[o]
    BY <1>1, <1>4, <2>1 DEF SpokenLate
  <2>2. CASE pc'[o] = "done" /\ result'[o] = how
    <3>1. CASE kind[o] = "ask" /\ how \in {"silent", "unanswered"}
      <4>1. /\ pc[o] = "collect" /\ repliesNow >= Asks!WakeAt(o) /\ ~repliesHeard[o]
            /\ Asks!RingOf(o) = "bus" /\ deadline[o] \in Nat
        BY <1>1, <3>1 DEF Asks!Due, Asks!RingOf, Stage
      <4>2. \A n \in Asks!SaidTo(o, {"speak"}) :
              n \in 1..Len(log["bus"]) /\ n \in Nat /\ seen[o] \in Nat /\ ~(n <= seen[o])
        BY <1>1, <4>1 DEF Knows, Asks!SaidTo, RepliesTypes
      <4>3. \A n \in Asks!SaidTo(o, {"speak"}) : log["bus"][n].at = repliesNow
        BY <1>1, <4>1, <4>2 DEF Knows
      <4>4. QED
        BY <1>4, <2>2, <4>1, <4>3 DEF SpokenLate
    <3>2. CASE ~(kind[o] = "ask" /\ how \in {"silent", "unanswered"})
      BY <2>2, <3>2 DEF SpokenLate
    <3>3. QED
      BY <3>1, <3>2
  <2>3. QED
    BY <1>2, <2>1, <2>2
<1>9. \A p \in Ops : Apart(o, p)' /\ Apart(p, o)'
  <2>1. Active(o)
    BY DEF Active
  <2>2. QED
    BY <1>3, <2>1, ActiveStaysApart
<1>10. QED
  BY <1>2, <1>3, <1>6, <1>7, <1>8, <1>9, OneMoves

LEMMA EndsKeepReplies ==
  ASSUME RepliesInv, NEW o \in Ops,
         \/ Asks!ConnectFails(o) \/ Asks!ConnectTimesOut(o) \/ Asks!WriteDone(o)
         \/ Asks!WriteFails(o) \/ Asks!Drop(o) \/ Asks!Overflows(o) \/ Asks!Wakes(o)
  PROVE  RepliesInv'
<1>1. RepliesTypes /\ Stage(o) /\ Knows(o)
  BY DEF RepliesInv
<1>2. /\ write \in [Ops -> {"none", "out", "done", "failed"}]
      /\ {"failed", "timeout", "cancelled", "overflow", "sent", "answered", "unanswered",
          "silent"} \subseteq Asks!Results
      /\ \A r \in Ops : write = [write EXCEPT ![r] = write[r]]
  BY <1>1 DEF RepliesTypes, Asks!Results
<1>3. CASE Asks!ConnectFails(o) \/ Asks!ConnectTimesOut(o) \/ Asks!Drop(o) \/ Asks!Overflows(o)
  <2>1. PICK how \in {"failed", "timeout", "cancelled", "overflow"} : Asks!End(o, how)
    BY <1>3 DEF Asks!ConnectFails, Asks!ConnectTimesOut, Asks!Drop, Asks!Overflows
  <2>2. /\ pc[o] \in {"connect", "collect", "sending"} /\ write' = write
        /\ UNCHANGED <<repliesNow, kind, id, deadline, seen, repliesHeard, soft, emptyAt, settleAt,
                       sentAt, log>>
    BY <1>3 DEF Asks!ConnectFails, Asks!ConnectTimesOut, Asks!Drop, Asks!Overflows
  <2>3. write' = [write EXCEPT ![o] = write[o]] /\ write[o] \in {"none", "out", "done", "failed"}
    BY <1>2, <2>2
  <2>4. how \in Asks!Results /\ how \notin {"answered", "silent", "unanswered"}
    BY <1>2, <2>1
  <2>5. QED
    BY <2>1, <2>2, <2>3, <2>4, EndKeeps
<1>4. CASE Asks!WriteDone(o) \/ Asks!WriteFails(o)
  <2>1. PICK w \in {"done", "failed"}, how \in {"sent", "failed"} :
          /\ write' = [write EXCEPT ![o] = w]
          /\ Asks!End(o, how) \/ UNCHANGED <<pc, result>>
    BY <1>4 DEF Asks!WriteDone, Asks!WriteFails
  <2>2. /\ write[o] = "out" /\ pc[o] # "done"
        /\ UNCHANGED <<repliesNow, kind, id, deadline, seen, repliesHeard, soft, emptyAt, settleAt,
                       sentAt, log>>
    BY <1>4 DEF Asks!WriteDone, Asks!WriteFails
  <2>3. pc[o] \in {"connect", "collect", "sending"}
    BY <1>1, <2>2 DEF Stage
  <2>4. how \in Asks!Results /\ how \notin {"answered", "silent", "unanswered"}
    BY <1>2, <2>1
  <2>5. QED
    BY <2>1, <2>2, <2>3, <2>4, EndKeeps
<1>5. CASE Asks!Wakes(o)
  <2>1. PICK how \in {"timeout", "answered", "unanswered", "silent"} :
          /\ Asks!End(o, how)
          /\ how = "answered" => repliesHeard[o]
          /\ kind[o] = "ask" /\ how \in {"silent", "unanswered"} => ~repliesHeard[o]
    BY <1>5 DEF Asks!Wakes
  <2>2. /\ pc[o] = "collect" /\ Asks!Due(o) /\ write' = write
        /\ UNCHANGED <<repliesNow, kind, id, deadline, seen, repliesHeard, soft, emptyAt, settleAt,
                       sentAt, log>>
    BY <1>5 DEF Asks!Wakes
  <2>3. write' = [write EXCEPT ![o] = write[o]] /\ write[o] \in {"none", "out", "done", "failed"}
    BY <1>2, <2>2
  <2>4. how \in Asks!Results
    BY <1>2, <2>1
  <2>5. QED
    BY <2>1, <2>2, <2>3, <2>4, EndKeeps
<1>6. QED
  BY <1>3, <1>4, <1>5

(* A new operation takes an id that nothing of its kind waits under.       *)
LEMMA BeginKeeps ==
  ASSUME RepliesInv, NEW o \in Ops, NEW k \in Asks!Kinds, NEW i \in Ids, Asks!Begin(o, k, i)
  PROVE  RepliesInv'
<1>1. RepliesTypes /\ Stage(o) /\ Knows(o) /\ SpokenLate(o) /\ pc[o] = "idle"
  BY DEF RepliesInv, Asks!Begin
<1>2. /\ kind' = [kind EXCEPT ![o] = k] /\ id' = [id EXCEPT ![o] = i]
      /\ UNCHANGED <<repliesNow, seen, repliesHeard, soft, emptyAt, settleAt, write, sentAt, log>>
  BY DEF Asks!Begin
<1>3. \/ /\ Asks!Reserved(k, i) /\ UNCHANGED deadline /\ pc' = [pc EXCEPT ![o] = "done"]
         /\ result' = [result EXCEPT ![o] = "duplicate"]
      \/ /\ ~Asks!Reserved(k, i) /\ UNCHANGED result /\ pc' = [pc EXCEPT ![o] = "connect"]
         /\ deadline' = [deadline EXCEPT ![o] = repliesNow + ReplyTimeout]
  BY DEF Asks!Begin, Asks!End
<1>4. RepliesTypes'
  <2>1. pc' \in [Ops -> {"idle", "connect", "sending", "collect", "done"}]
    BY <1>1, <1>3 DEF RepliesTypes
  <2>2. result' \in [Ops -> Asks!Results \cup {None}]
    BY <1>1, <1>3 DEF RepliesTypes, Asks!Results
  <2>3. deadline' \in [Ops -> Nat \cup {None}]
    <3>1. deadline \in [Ops -> Nat \cup {None}] /\ repliesNow + ReplyTimeout \in Nat
      BY <1>1, ReplyConstants DEF RepliesTypes
    <3>2. QED
      BY <1>3, <3>1
  <2>4. kind' \in [Ops -> Asks!Kinds \cup {None}] /\ id' \in [Ops -> Ids \cup {None}]
    BY <1>1, <1>2 DEF RepliesTypes
  <2>5. QED
    BY <1>1, <1>2, <2>1, <2>2, <2>3, <2>4 DEF RepliesTypes
<1>5. \A p \in Ops \ {o} : Rests(p)
  BY <1>1, <1>2, <1>3 DEF RepliesTypes, Rests
<1>6. /\ kind'[o] = k /\ id'[o] = i /\ write'[o] = "none" /\ seen'[o] = 0
      /\ \/ pc'[o] = "done" /\ result'[o] = "duplicate"
         \/ pc'[o] = "connect" /\ result'[o] = result[o] /\ deadline'[o] \in Nat
  BY <1>1, <1>2, <1>3, ReplyConstants DEF RepliesTypes, Stage
<1>7. Asks!RingOf(o)' \in {"bus", "hive"} /\ Len(log'[Asks!RingOf(o)']) \in Nat
  BY <1>1, <1>2 DEF Asks!RingOf, RepliesTypes
<1>8. Stage(o)'
  BY <1>1, <1>2, <1>6, <1>7 DEF Stage
<1>9. (\A what : Asks!SaidTo(o, what) = {})'
  <2>1. \A ring \in {"bus", "hive"} : \A n \in 1..Len(log[ring]) : log[ring][n].op # o
    BY <1>1 DEF RepliesInv, Logged, Stage
  <2>2. \A ring \in {"bus", "hive"} : DOMAIN log[ring] = 1..Len(log[ring])
    BY <1>1 DEF RepliesTypes
  <2>3. QED
    BY <1>2, <1>7, <2>1, <2>2 DEF Asks!SaidTo
<1>10. ~repliesHeard[o]
  BY <1>1, <1>7 DEF Knows, Stage, Asks!SaidTo, RepliesTypes
<1>11. Knows(o)'
  <2>1. ~repliesHeard'[o] /\ emptyAt'[o] = None /\ settleAt'[o] = None /\ result'[o] # "answered"
        /\ pc'[o] # "collect"
    BY <1>1, <1>2, <1>6, <1>10, ReplyConstants DEF Stage, Asks!Results
  <2>2. QED
    BY <1>9, <2>1 DEF Knows, FirstOpens
<1>12. SpokenLate(o)'
  BY <1>1, <1>6, ReplyConstants DEF SpokenLate, Stage, Asks!Results
<1>13. ASSUME NEW p \in Ops PROVE Apart(o, p)' /\ Apart(p, o)'
  <2>1. CASE p = o \/ pc'[o] = "done"
    BY <1>6, <2>1 DEF Apart, Active
  <2>2. CASE p # o /\ pc'[o] = "connect" /\ Active(p)' /\ id'[p] = id'[o]
    <3>1. /\ Active(p) /\ id[p] = i /\ kind'[p] = kind[p] /\ Stage(p) /\ ~Asks!Reserved(k, i)
          /\ pc[p] \in {"idle", "connect", "sending", "collect", "done"}
      BY <1>1, <1>3, <1>5, <1>6, <2>2 DEF Rests, Active, RepliesInv, RepliesTypes
    <3>2. pc[p] # "done" /\ k # "send" /\ kind[p] # "send"
      BY <3>1 DEF Asks!Begin
    <3>3. pc[p] \in {"connect", "collect"}
      BY <3>1, <3>2 DEF Active, Stage
    <3>4. kind[p] # k
      BY <3>1, <3>2, <3>3 DEF Asks!Reserved, Asks!Waiting
    <3>5. QED
      BY <1>6, <3>1, <3>2, <3>4 DEF Apart
  <2>3. QED
    BY <1>6, <2>1, <2>2 DEF Apart
<1>14. QED
  BY <1>1, <1>2, <1>4, <1>5, <1>6, <1>8, <1>11, <1>12, <1>13, OneMoves DEF Stage

(* A reader takes its place at the end of its ring before its write.       *)
LEMMA PublishKeeps ==
  ASSUME RepliesInv, NEW o \in Ops,
         Asks!AskPublishes(o) \/ Asks!QueryPublishes(o) \/ Asks!SendPublishes(o)
  PROVE  RepliesInv'
<1>1. /\ RepliesTypes /\ Stage(o) /\ Knows(o) /\ SpokenLate(o) /\ pc[o] = "connect"
      /\ write' = [write EXCEPT ![o] = "out"]
      /\ pc' = [pc EXCEPT ![o] = IF kind[o] = "send" THEN "sending" ELSE "collect"]
      /\ UNCHANGED <<repliesNow, kind, id, deadline, repliesHeard, soft, emptyAt, settleAt, log,
                     result>>
  BY DEF RepliesInv, Asks!AskPublishes, Asks!QueryPublishes, Asks!SendPublishes, Asks!Publish
<1>2. \/ /\ kind[o] \in {"ask", "query"} /\ UNCHANGED sentAt
         /\ seen' = [seen EXCEPT ![o] = Len(log[Asks!RingOf(o)])]
      \/ /\ kind[o] = "send" /\ UNCHANGED seen
         /\ sentAt' = [sentAt EXCEPT ![o] = repliesNow]
  BY DEF Asks!AskPublishes, Asks!QueryPublishes, Asks!SendPublishes, Asks!Subscribe, Asks!Records
<1>3. /\ Asks!RingOf(o) \in {"bus", "hive"} /\ Len(log[Asks!RingOf(o)]) \in Nat
      /\ Asks!RingOf(o)' = Asks!RingOf(o)
  BY <1>1 DEF Asks!RingOf, RepliesTypes
<1>4. RepliesTypes'
  <2>1. pc' \in [Ops -> {"idle", "connect", "sending", "collect", "done"}]
    BY <1>1 DEF RepliesTypes
  <2>2. write' \in [Ops -> {"none", "out", "done", "failed"}]
    BY <1>1 DEF RepliesTypes
  <2>3. seen' \in [Ops -> Nat] /\ sentAt' \in [Ops -> Nat \cup {None}]
    <3>1. /\ seen \in [Ops -> Nat] /\ sentAt \in [Ops -> Nat \cup {None}]
          /\ repliesNow \in Nat \cup {None}
      BY <1>1 DEF RepliesTypes
    <3>2. QED
      BY <1>2, <1>3, <3>1
  <2>4. QED
    BY <1>1, <2>1, <2>2, <2>3 DEF RepliesTypes
<1>5. \A p \in Ops \ {o} : Rests(p)
  BY <1>1, <1>2 DEF RepliesTypes, Rests
<1>6. /\ write[o] = "none" /\ write'[o] = "out"
      /\ pc'[o] = IF kind[o] = "send" THEN "sending" ELSE "collect"
      /\ kind[o] = "send" => seen'[o] = 0 /\ sentAt'[o] \in Nat
      /\ kind[o] # "send" => seen'[o] = Len(log[Asks!RingOf(o)])
  BY <1>1, <1>2 DEF RepliesTypes, Stage
<1>7. Stage(o)'
  BY <1>1, <1>3, <1>6 DEF Stage
<1>8. \A what : Asks!SaidTo(o, what) = {} /\ Asks!SaidTo(o, what)' = {}
  <2>1. \A ring \in {"bus", "hive"} : \A n \in 1..Len(log[ring]) : log[ring][n].op # o
    BY <1>6 DEF RepliesInv, Logged
  <2>2. \A ring \in {"bus", "hive"} : DOMAIN log[ring] = 1..Len(log[ring])
    BY <1>1 DEF RepliesTypes
  <2>3. QED
    BY <1>1, <1>3, <2>1, <2>2 DEF Asks!SaidTo
<1>9. Knows(o)'
  <2>1. /\ ~repliesHeard'[o] /\ emptyAt'[o] = None /\ settleAt'[o] = None
        /\ result'[o] # "answered"
    BY <1>1, <1>6, <1>8 DEF Stage, Knows
  <2>2. \A n \in 1..Len(log[Asks!RingOf(o)]) : pc'[o] = "collect" => ~(n > seen'[o])
    BY <1>3, <1>6
  <2>3. QED
    BY <1>1, <1>3, <1>8, <2>1, <2>2 DEF Knows, FirstOpens
<1>10. SpokenLate(o)'
  BY <1>1, <1>6, ReplyConstants DEF SpokenLate, Stage, Asks!Results
<1>11. \A p \in Ops : Apart(o, p)' /\ Apart(p, o)'
  BY <1>1, <1>5, ActiveStaysApart DEF Active
<1>12. QED
  BY <1>1, <1>4, <1>5, <1>6, <1>7, <1>9, <1>10, <1>11, OneMoves

(* An event with an id is the operation's own when the id is.              *)
LEMMA OwnEvent ==
  ASSUME RepliesInv, NEW o \in Ops, Active(o), kind[o] \in {"ask", "query"},
         NEW n \in 1..Len(log[Asks!RingOf(o)])
  PROVE  /\ log[Asks!RingOf(o)][n] \in ReplyEvents
         /\ log[Asks!RingOf(o)][n].what # "denied" =>
              (log[Asks!RingOf(o)][n].id = id[o] <=> log[Asks!RingOf(o)][n].op = o)
<1> DEFINE event == log[Asks!RingOf(o)][n]
<1>1. /\ Asks!RingOf(o) \in {"bus", "hive"} /\ log[Asks!RingOf(o)] \in Seq(ReplyEvents)
  BY DEF RepliesInv, RepliesTypes, Asks!RingOf
<1>2. event \in ReplyEvents /\ Logged(Asks!RingOf(o), event)
  BY <1>1 DEF RepliesInv
<1> HIDE DEF event
<1>3. event.op \in Ops
  BY <1>2 DEF ReplyEvents
<1>4. CASE event.what # "denied" /\ event.id = id[o] /\ event.op # o
  <2>1. /\ id[event.op] = id[o] /\ Active(event.op) /\ Asks!RingOf(event.op) = Asks!RingOf(o)
        /\ Apart(o, event.op) /\ Stage(event.op)
        /\ pc[event.op] # "idle"
    BY <1>2, <1>3, <1>4 DEF Logged, Active, RepliesInv, Stage
  <2>2. kind[event.op] \in Asks!Kinds /\ kind[event.op] # kind[o] /\ kind[event.op] # "send"
    BY <1>4, <2>1 DEF Apart, Stage
  <2>3. QED
    BY <2>1, <2>2 DEF Asks!RingOf, Asks!Kinds
<1>5. QED
  BY <1>2, <1>4 DEF Logged, event

(* A window is opened once, by the first event that opens it, the instant  *)
(* it arrives.                                                             *)
LEMMA WindowOpens ==
  ASSUME RepliesInv, NEW o \in Ops, pc[o] = "collect", kind[o] = "ask", NEW what, NEW wait \in Nat,
         NEW end \in Nat \cup {None}, FirstOpens(o, what, end, wait),
         \A m \in Asks!SaidTo(o, what) : m <= seen[o] => end # None,
         seen[o] + 1 \in Asks!SaidTo(o, what)
  PROVE  /\ Asks!SetOnce(end, wait) \in Nat
         /\ FirstOpens(o, what, Asks!SetOnce(end, wait), wait)
<1>1. /\ Asks!RingOf(o) = "bus" /\ repliesNow \in Nat /\ seen[o] \in Nat
      /\ log["bus"] \in Seq(ReplyEvents) /\ DOMAIN log["bus"] = 1..Len(log["bus"])
  BY DEF Asks!RingOf, RepliesInv, RepliesTypes
<1>2. /\ Asks!SaidTo(o, what) \subseteq 1..Len(log["bus"])
      /\ \A m \in 1..Len(log["bus"]) : m > seen[o] => log["bus"][m].at = repliesNow
  BY <1>1 DEF Asks!SaidTo, RepliesInv, Knows
<1>3. CASE end # None
  BY <1>3 DEF Asks!SetOnce
<1>4. CASE end = None
  <2>1. \A m \in Asks!SaidTo(o, what) : log["bus"][m].at = repliesNow
    BY <1>1, <1>2, <1>4
  <2>2. Asks!SetOnce(end, wait) = repliesNow + wait
    BY <1>4 DEF Asks!SetOnce
  <2>3. /\ repliesNow + wait = log["bus"][seen[o] + 1].at + wait
        /\ \A m \in Asks!SaidTo(o, what) : log["bus"][seen[o] + 1].at <= log["bus"][m].at
    BY <1>1, <2>1
  <2>4. FirstOpens(o, what, repliesNow + wait, wait)
    BY <1>1, <2>3 DEF FirstOpens
  <2>5. QED
    BY <1>1, <2>2, <2>4
<1>5. QED
  BY <1>3, <1>4

(* A collector reads the next event of its ring.                           *)
LEMMA ReadsNext ==
  ASSUME RepliesInv, NEW o \in Ops, pc[o] = "collect", Asks!Unread(o) >= 1,
         UNCHANGED <<repliesNow, kind, id, deadline, write, sentAt, log>>,
         \A p \in Ops \ {o} : Rests(p), RepliesTypes', seen'[o] = seen[o] + 1,
         repliesHeard'[o] <=> repliesHeard[o] \/ seen[o] + 1 \in Asks!SaidTo(o, {"speak"}),
         settleAt'[o] = IF kind[o] = "ask" /\ seen[o] + 1 \in Asks!SaidTo(o, {"speak"})
                        THEN Asks!SetOnce(settleAt[o], Settle) ELSE settleAt[o],
         emptyAt'[o] = IF kind[o] = "ask" /\ seen[o] + 1 \in Asks!SaidTo(o, {"missed", "handled"})
                       THEN Asks!SetOnce(emptyAt[o], EmptyWait) ELSE emptyAt[o],
         \/ pc'[o] = "collect" /\ result'[o] = result[o]
         \/ pc'[o] = "done" /\ result'[o] \in Asks!Results,
         result'[o] = "answered" => repliesHeard'[o],
         kind[o] = "ask" => result'[o] \notin {"silent", "unanswered"}
  PROVE  RepliesInv'
<1>1. RepliesTypes /\ Stage(o) /\ Knows(o) /\ SpokenLate(o) /\ kind[o] \in {"ask", "query"}
  BY DEF RepliesInv, Stage, Asks!Kinds
<1>2. /\ Asks!RingOf(o)' = Asks!RingOf(o) /\ Asks!RingOf(o) \in {"bus", "hive"}
      /\ \A what : Asks!SaidTo(o, what)' = Asks!SaidTo(o, what)
      /\ Len(log[Asks!RingOf(o)]) \in Nat /\ seen[o] \in Nat
      /\ DOMAIN log[Asks!RingOf(o)] = 1..Len(log[Asks!RingOf(o)])
  BY <1>1 DEF Asks!RingOf, Asks!SaidTo, RepliesTypes
<1>3. seen[o] + 1 <= Len(log[Asks!RingOf(o)])
  BY <1>2 DEF Asks!Unread
<1>4. Stage(o)'
  BY <1>1, <1>2, <1>3 DEF Stage
<1>5. \A what : Asks!SaidTo(o, what) \subseteq 1..Len(log[Asks!RingOf(o)])
  BY <1>2 DEF Asks!SaidTo
<1>6. \A what, end, wait : FirstOpens(o, what, end, wait) => FirstOpens(o, what, end, wait)'
  BY <1>2 DEF FirstOpens
<1>7. FirstOpens(o, {"speak"}, settleAt'[o], Settle)
  <2>1. FirstOpens(o, {"speak"}, settleAt[o], Settle)
    BY <1>1 DEF Knows
  <2>2. CASE kind[o] = "ask" /\ seen[o] + 1 \in Asks!SaidTo(o, {"speak"})
    <3>1. \A m \in Asks!SaidTo(o, {"speak"}) : m <= seen[o] => settleAt[o] # None
      BY <1>1, <2>2 DEF Knows
    <3>2. settleAt[o] \in Nat \cup {None}
      BY <1>1 DEF RepliesTypes
    <3>3. FirstOpens(o, {"speak"}, Asks!SetOnce(settleAt[o], Settle), Settle)
      BY <2>1, <2>2, <3>1, <3>2, ReplyConstants, WindowOpens
    <3>4. QED
      BY <2>2, <3>3
  <2>3. QED
    BY <2>1, <2>2
<1>8. FirstOpens(o, {"missed", "handled"}, emptyAt'[o], EmptyWait)
  <2>1. FirstOpens(o, {"missed", "handled"}, emptyAt[o], EmptyWait)
    BY <1>1 DEF Knows
  <2>2. CASE kind[o] = "ask" /\ seen[o] + 1 \in Asks!SaidTo(o, {"missed", "handled"})
    <3>1. \A m \in Asks!SaidTo(o, {"missed", "handled"}) : m <= seen[o] => emptyAt[o] # None
      BY <1>1, <2>2 DEF Knows
    <3>2. emptyAt[o] \in Nat \cup {None}
      BY <1>1 DEF RepliesTypes
    <3>3. FirstOpens(o, {"missed", "handled"}, Asks!SetOnce(emptyAt[o], EmptyWait), EmptyWait)
      BY <2>1, <2>2, <3>1, <3>2, ReplyConstants, WindowOpens
    <3>4. QED
      BY <2>2, <3>3
  <2>3. QED
    BY <2>1, <2>2
<1>9. /\ kind[o] = "ask" /\ repliesHeard'[o] => settleAt'[o] # None
      /\ kind[o] = "ask" => \A n \in Asks!SaidTo(o, {"missed", "handled"}) :
                              n <= seen'[o] => emptyAt'[o] # None
  <2>1. \A end \in Nat \cup {None} : \A wait \in Nat : Asks!SetOnce(end, wait) # None
    BY <1>1, ReplyConstants DEF Asks!SetOnce, RepliesTypes
  <2>2. settleAt[o] \in Nat \cup {None} /\ emptyAt[o] \in Nat \cup {None}
    BY <1>1 DEF RepliesTypes
  <2>3. kind[o] = "ask" /\ repliesHeard'[o] => settleAt'[o] # None
    BY <1>1, <2>1, <2>2, ReplyConstants DEF Knows
  <2>4. ASSUME kind[o] = "ask", NEW n \in Asks!SaidTo(o, {"missed", "handled"}), n <= seen'[o]
        PROVE  emptyAt'[o] # None
    <3>1. n \in Nat /\ (n <= seen[o] \/ n = seen[o] + 1)
      BY <1>2, <1>5, <2>4
    <3>2. QED
      BY <1>1, <2>1, <2>2, <2>4, <3>1, ReplyConstants DEF Knows
  <2>5. QED
    BY <2>3, <2>4
<1>10. repliesHeard'[o] <=> \E n \in Asks!SaidTo(o, {"speak"}) : n <= seen'[o]
  <2>1. \A n \in Asks!SaidTo(o, {"speak"}) : n <= seen'[o] <=> n <= seen[o] \/ n = seen[o] + 1
    BY <1>2, <1>5
  <2>2. seen[o] + 1 <= seen'[o]
    BY <1>2
  <2>3. QED
    BY <1>1, <2>1, <2>2 DEF Knows
<1>11. Knows(o)'
  <2>1. pc'[o] = "collect" => \A n \in 1..Len(log[Asks!RingOf(o)]) :
                                n > seen'[o] => log[Asks!RingOf(o)][n].at = repliesNow
    BY <1>1, <1>2 DEF Knows
  <2>2. QED
    BY <1>2, <1>6, <1>7, <1>8, <1>9, <1>10, <2>1 DEF Knows
<1>12. SpokenLate(o)'
  BY DEF SpokenLate
<1>13. \A p \in Ops : Apart(o, p)' /\ Apart(p, o)'
  BY ActiveStaysApart DEF Active
<1>14. QED
  BY <1>4, <1>11, <1>12, <1>13, OneMoves

LEMMA AskReadKeeps == ASSUME RepliesInv, NEW o \in Ops, Asks!AskReads(o) PROVE RepliesInv'
<1> DEFINE n == seen[o] + 1
           event == log["bus"][n]
           mine == event.what # "denied" /\ event.id = id[o]
           taken == event.what = "denied" /\ Asks!RefusalBelongs(o)
           expired == mine /\ event.what = "expired"
<1>1. /\ RepliesTypes /\ pc[o] = "collect" /\ kind[o] = "ask" /\ Asks!RingOf(o) = "bus"
      /\ Asks!Unread(o) \in 1..Ring
      /\ UNCHANGED <<repliesNow, kind, id, deadline, write, sentAt, log>>
  BY DEF RepliesInv, Asks!AskReads, Asks!RingOf
<1>2. Len(log["bus"]) \in Nat /\ seen[o] \in Nat /\ DOMAIN log["bus"] = 1..Len(log["bus"])
  BY <1>1 DEF RepliesTypes
<1>3. Asks!Unread(o) >= 1 /\ n \in 1..Len(log["bus"])
  BY <1>1, <1>2, ReplyConstants DEF Asks!Unread
<1>4. event \in ReplyEvents /\ (event.what # "denied" => (event.id = id[o] <=> event.op = o))
  <2>1. Active(o)
    BY <1>1 DEF Active
  <2>2. QED
    BY <1>1, <1>3, <2>1, OwnEvent
<1>5. \A what \in SUBSET (Whats \ {"denied"}) :
        mine /\ event.what \in what <=> n \in Asks!SaidTo(o, what)
  BY <1>1, <1>2, <1>3, <1>4 DEF Asks!SaidTo
<1>6. /\ seen' = [seen EXCEPT ![o] = @ + 1]
      /\ repliesHeard' = [repliesHeard EXCEPT ![o] = @ \/ (mine /\ event.what = "speak")]
      /\ soft' = [soft EXCEPT ![o] = @ \/ (mine /\ event.what = "missed")]
      /\ settleAt' = [settleAt EXCEPT ![o] =
                        IF mine /\ event.what = "speak" THEN Asks!SetOnce(@, Settle) ELSE @]
      /\ emptyAt' = [emptyAt EXCEPT ![o] =
                        IF mine /\ event.what \in {"missed", "handled"}
                        THEN Asks!SetOnce(@, EmptyWait) ELSE @]
  BY DEF Asks!AskReads
<1>7. IF taken \/ expired
      THEN Asks!End(o, IF repliesHeard[o] THEN "answered" ELSE IF taken THEN "refused" ELSE "failed")
      ELSE UNCHANGED <<pc, result>>
  BY DEF Asks!AskReads
<1>8. /\ mine /\ event.what = "speak" <=> n \in Asks!SaidTo(o, {"speak"})
      /\ mine /\ event.what \in {"missed", "handled"} <=> n \in Asks!SaidTo(o, {"missed", "handled"})
  BY <1>5 DEF Whats
<1> HIDE DEF mine, taken, expired, event
<1>9. PICK how \in {"answered", "refused", "failed"} :
        /\ Asks!End(o, how) \/ UNCHANGED <<pc, result>>
        /\ how = "answered" => repliesHeard[o]
  BY <1>7
<1>10. /\ seen' \in [Ops -> Nat] /\ repliesHeard' \in [Ops -> BOOLEAN] /\ soft' \in [Ops -> BOOLEAN]
       /\ seen'[o] = n /\ repliesHeard'[o] = (repliesHeard[o] \/ (mine /\ event.what = "speak"))
  BY <1>1, <1>6 DEF RepliesTypes
<1>11. \A end \in Nat \cup {None} : \A wait \in Nat : Asks!SetOnce(end, wait) \in Nat
  BY <1>1 DEF Asks!SetOnce, RepliesTypes
<1>12. settleAt' \in [Ops -> Nat \cup {None}] /\ emptyAt' \in [Ops -> Nat \cup {None}]
  <2>1. settleAt \in [Ops -> Nat \cup {None}] /\ emptyAt \in [Ops -> Nat \cup {None}]
    BY <1>1 DEF RepliesTypes
  <2>2. Asks!SetOnce(settleAt[o], Settle) \in Nat /\ Asks!SetOnce(emptyAt[o], EmptyWait) \in Nat
    BY <1>11, <2>1, ReplyConstants
  <2>3. QED
    BY <1>6, <2>1, <2>2
<1>13. /\ pc' \in [Ops -> {"idle", "connect", "sending", "collect", "done"}]
       /\ result' \in [Ops -> Asks!Results \cup {None}] /\ how \in Asks!Results
  <2>1. /\ pc \in [Ops -> {"idle", "connect", "sending", "collect", "done"}]
        /\ result \in [Ops -> Asks!Results \cup {None}]
    BY <1>1 DEF RepliesTypes
  <2>2. how \in Asks!Results
    BY DEF Asks!Results
  <2>3. QED
    BY <1>9, <2>1, <2>2 DEF Asks!End
<1>14. RepliesTypes'
  BY <1>1, <1>10, <1>12, <1>13 DEF RepliesTypes
<1>15. \A p \in Ops \ {o} : Rests(p)
  BY <1>1, <1>6, <1>9 DEF RepliesTypes, Rests, Asks!End
<1>16. /\ settleAt'[o] = IF kind[o] = "ask" /\ seen[o] + 1 \in Asks!SaidTo(o, {"speak"})
                         THEN Asks!SetOnce(settleAt[o], Settle) ELSE settleAt[o]
       /\ emptyAt'[o] = IF kind[o] = "ask" /\ seen[o] + 1 \in Asks!SaidTo(o, {"missed", "handled"})
                        THEN Asks!SetOnce(emptyAt[o], EmptyWait) ELSE emptyAt[o]
  <2>1. settleAt \in [Ops -> Nat \cup {None}] /\ emptyAt \in [Ops -> Nat \cup {None}]
    BY <1>1 DEF RepliesTypes
  <2>2. QED
    BY <1>1, <1>6, <1>8, <2>1
<1>17. /\ \/ pc'[o] = "collect" /\ result'[o] = result[o]
          \/ pc'[o] = "done" /\ result'[o] = how
       /\ result[o] \notin {"answered", "silent", "unanswered"}
  <2>1. result[o] = None /\ None \notin Asks!Results
    BY <1>1, ReplyConstants DEF RepliesInv, Stage
  <2>2. QED
    BY <1>1, <1>9, <2>1 DEF RepliesTypes, Asks!End, Asks!Results
<1>18. /\ result'[o] = "answered" => repliesHeard'[o]
       /\ result'[o] \notin {"silent", "unanswered"}
  BY <1>9, <1>10, <1>17
<1>19. /\ \/ pc'[o] = "collect" /\ result'[o] = result[o]
          \/ pc'[o] = "done" /\ result'[o] \in Asks!Results
       /\ repliesHeard'[o] <=> repliesHeard[o] \/ seen[o] + 1 \in Asks!SaidTo(o, {"speak"})
  BY <1>8, <1>10, <1>13, <1>17
<1>20. QED
  BY <1>1, <1>3, <1>10, <1>14, <1>15, <1>16, <1>18, <1>19, ReadsNext

LEMMA QueryReadKeeps == ASSUME RepliesInv, NEW o \in Ops, Asks!QueryReads(o) PROVE RepliesInv'
<1> DEFINE n == seen[o] + 1
           event == log["hive"][n]
           mine == event.id = id[o]
           spoken == repliesHeard[o] \/ (mine /\ event.what = "speak")
<1>1. /\ RepliesTypes /\ pc[o] = "collect" /\ kind[o] = "query" /\ Asks!RingOf(o) = "hive"
      /\ Asks!Unread(o) \in 1..Ring
      /\ UNCHANGED <<repliesNow, kind, id, deadline, emptyAt, settleAt, write, sentAt, log>>
  BY DEF RepliesInv, Asks!QueryReads, Asks!RingOf
<1>2. Len(log["hive"]) \in Nat /\ seen[o] \in Nat /\ DOMAIN log["hive"] = 1..Len(log["hive"])
  BY <1>1 DEF RepliesTypes
<1>3. Asks!Unread(o) >= 1 /\ n \in 1..Len(log["hive"])
  BY <1>1, <1>2, ReplyConstants DEF Asks!Unread
<1>4. event \in ReplyEvents /\ (mine <=> event.op = o)
  <2>1. Active(o) /\ event.what # "denied"
    BY <1>1, <1>3 DEF Active, RepliesInv, Logged
  <2>2. QED
    BY <1>1, <1>3, <2>1, OwnEvent
<1>5. mine /\ event.what = "speak" <=> n \in Asks!SaidTo(o, {"speak"})
  BY <1>1, <1>2, <1>3, <1>4 DEF Asks!SaidTo
<1>6. /\ seen' = [seen EXCEPT ![o] = @ + 1]
      /\ repliesHeard' = [repliesHeard EXCEPT ![o] = spoken]
      /\ soft' = [soft EXCEPT ![o] = @ \/ (mine /\ event.what = "missed")]
  BY DEF Asks!QueryReads
<1>7. IF mine /\ event.what \in {"complete", "expired"}
      THEN Asks!End(o, IF spoken THEN "answered"
                       ELSE IF event.what = "expired" THEN "failed"
                       ELSE IF soft[o] THEN "unanswered" ELSE "silent")
      ELSE UNCHANGED <<pc, result>>
  BY DEF Asks!QueryReads
<1>8. spoken \in BOOLEAN /\ (spoken <=> repliesHeard[o] \/ n \in Asks!SaidTo(o, {"speak"}))
  BY <1>1, <1>5 DEF RepliesTypes
<1>9. PICK how \in {"answered", "failed", "unanswered", "silent"} :
        /\ Asks!End(o, how) \/ UNCHANGED <<pc, result>>
        /\ how = "answered" => spoken
  BY <1>7
<1>10. soft' \in [Ops -> BOOLEAN]
  BY <1>1, <1>6 DEF RepliesTypes
<1> HIDE DEF mine, spoken, event
<1>11. /\ seen' \in [Ops -> Nat] /\ repliesHeard' \in [Ops -> BOOLEAN]
       /\ seen'[o] = n /\ repliesHeard'[o] = spoken
  BY <1>1, <1>6, <1>8 DEF RepliesTypes
<1>12. /\ pc' \in [Ops -> {"idle", "connect", "sending", "collect", "done"}]
       /\ result' \in [Ops -> Asks!Results \cup {None}] /\ how \in Asks!Results
  <2>1. /\ pc \in [Ops -> {"idle", "connect", "sending", "collect", "done"}]
        /\ result \in [Ops -> Asks!Results \cup {None}]
    BY <1>1 DEF RepliesTypes
  <2>2. how \in Asks!Results
    BY DEF Asks!Results
  <2>3. QED
    BY <1>9, <2>1, <2>2 DEF Asks!End
<1>13. RepliesTypes'
  BY <1>1, <1>10, <1>11, <1>12 DEF RepliesTypes
<1>14. \A p \in Ops \ {o} : Rests(p)
  BY <1>1, <1>6, <1>9 DEF RepliesTypes, Rests, Asks!End
<1>15. /\ \/ pc'[o] = "collect" /\ result'[o] = result[o]
          \/ pc'[o] = "done" /\ result'[o] = how
       /\ result[o] # "answered"
  <2>1. result[o] = None /\ None \notin Asks!Results
    BY <1>1, ReplyConstants DEF RepliesInv, Stage
  <2>2. QED
    BY <1>1, <1>9, <2>1 DEF RepliesTypes, Asks!End, Asks!Results
<1>16. /\ \/ pc'[o] = "collect" /\ result'[o] = result[o]
          \/ pc'[o] = "done" /\ result'[o] \in Asks!Results
       /\ result'[o] = "answered" => repliesHeard'[o]
  BY <1>9, <1>11, <1>12, <1>15
<1>17. QED
  BY <1>1, <1>3, <1>8, <1>11, <1>13, <1>14, <1>16, ReadsNext

LEMMA OneLonger ==
  ASSUME NEW S, NEW old \in Seq(S), NEW e \in S
  PROVE  /\ Append(old, e) \in Seq(S) /\ Len(Append(old, e)) = Len(old) + 1 /\ Len(old) \in Nat
         /\ DOMAIN old = 1..Len(old) /\ DOMAIN Append(old, e) = 1..Len(Append(old, e))
         /\ Len(old) <= Len(Append(old, e))
         /\ \A n \in 1..Len(Append(old, e)) :
              \/ n \in 1..Len(old) /\ Append(old, e)[n] = old[n]
              \/ n = Len(old) + 1 /\ Append(old, e)[n] = e
         /\ \A n \in 1..Len(old) : n \in 1..Len(Append(old, e)) /\ Append(old, e)[n] = old[n]
  OBVIOUS

(* The hub's ring gains an event, this instant.                            *)
LEMMA HubSendsKeeps == ASSUME RepliesInv, NEW o \in Ops, Asks!HubSends(o) PROVE RepliesInv'
<1>1. /\ RepliesTypes /\ Stage(o) /\ write[o] # "none"
      /\ UNCHANGED <<repliesNow, pc, kind, id, deadline, seen, repliesHeard, soft, emptyAt, settleAt,
                     write, sentAt, result>>
  BY DEF RepliesInv, Asks!HubSends
<1>2. PICK ring \in {"bus", "hive"}, event \in ReplyEvents :
        log' = [log EXCEPT ![ring] = Append(@, event)] /\ event.at = repliesNow
          /\ Logged(ring, event)
  <2>1. kind[o] \in Asks!Kinds /\ id[o] \in Ids /\ repliesNow \in Nat /\ Asks!RingOf(o) \in {"bus", "hive"}
    BY <1>1 DEF Stage, RepliesTypes, Asks!RingOf
  <2>2. CASE \E what \in Asks!Answers(kind[o]) :
               log' = [log EXCEPT ![Asks!RingOf(o)] =
                         Append(@, [op |-> o, id |-> id[o], what |-> what, at |-> repliesNow])]
    <3>1. PICK what \in Asks!Answers(kind[o]) :
            log' = [log EXCEPT ![Asks!RingOf(o)] =
                      Append(@, [op |-> o, id |-> id[o], what |-> what, at |-> repliesNow])]
      BY <2>2
    <3>2. what \in Whats \ {"denied"}
      BY DEF Asks!Answers, Whats
    <3> DEFINE event == [op |-> o, id |-> id[o], what |-> what, at |-> repliesNow]
    <3>3. event \in ReplyEvents /\ event.at = repliesNow /\ Logged(Asks!RingOf(o), event)
      BY <1>1, <2>1, <3>2 DEF ReplyEvents, Logged
    <3> HIDE DEF event
    <3>4. QED
      BY <2>1, <3>1, <3>3 DEF event
  <2>3. CASE log' = [log EXCEPT !["bus"] =
                       Append(@, [op |-> o, id |-> None, what |-> "denied", at |-> repliesNow])]
    <3> DEFINE event == [op |-> o, id |-> None, what |-> "denied", at |-> repliesNow]
    <3>1. event \in ReplyEvents /\ event.at = repliesNow /\ Logged("bus", event)
      BY <1>1, <2>1 DEF ReplyEvents, Logged, Whats
    <3> HIDE DEF event
    <3>2. QED
      BY <2>3, <3>1 DEF event
  <2>4. QED
    BY <2>2, <2>3 DEF Asks!HubSends
<1>3. /\ log' \in [{"bus", "hive"} -> Seq(ReplyEvents)]
      /\ \A r \in {"bus", "hive"} :
           /\ log[r] \in Seq(ReplyEvents) /\ Len(log[r]) \in Nat /\ Len(log'[r]) \in Nat
           /\ DOMAIN log[r] = 1..Len(log[r]) /\ DOMAIN log'[r] = 1..Len(log'[r])
           /\ Len(log[r]) <= Len(log'[r])
           /\ \A n \in 1..Len(log'[r]) :
                \/ n \in 1..Len(log[r]) /\ log'[r][n] = log[r][n]
                \/ n = Len(log[r]) + 1 /\ r = ring /\ log'[r][n] = event
           /\ \A n \in 1..Len(log[r]) : n \in 1..Len(log'[r]) /\ log'[r][n] = log[r][n]
  <2>1. log \in [{"bus", "hive"} -> Seq(ReplyEvents)]
    BY <1>1 DEF RepliesTypes
  <2>2. Append(log[ring], event) \in Seq(ReplyEvents)
    BY <2>1
  <2>3. log' \in [{"bus", "hive"} -> Seq(ReplyEvents)] /\ log'[ring] = Append(log[ring], event)
        /\ \A r \in {"bus", "hive"} \ {ring} : log'[r] = log[r]
    BY <1>2, <2>1, <2>2
  <2>4. \A r \in {"bus", "hive"} : log[r] \in Seq(ReplyEvents) /\ log'[r] \in Seq(ReplyEvents)
    BY <2>1, <2>3
  <2>5. ASSUME NEW r \in {"bus", "hive"}
        PROVE  /\ Len(log[r]) \in Nat /\ Len(log'[r]) \in Nat
               /\ DOMAIN log[r] = 1..Len(log[r]) /\ DOMAIN log'[r] = 1..Len(log'[r])
               /\ Len(log[r]) <= Len(log'[r])
               /\ \A n \in 1..Len(log'[r]) :
                    \/ n \in 1..Len(log[r]) /\ log'[r][n] = log[r][n]
                    \/ n = Len(log[r]) + 1 /\ r = ring /\ log'[r][n] = event
               /\ \A n \in 1..Len(log[r]) : n \in 1..Len(log'[r]) /\ log'[r][n] = log[r][n]
    <3>1. CASE r = ring
      <4> DEFINE old == log[ring]
      <4>1. log[r] = old /\ log'[r] = Append(old, event) /\ old \in Seq(ReplyEvents)
        BY <2>3, <2>4, <3>1
      <4> HIDE DEF old
      <4>2. /\ Append(old, event) \in Seq(ReplyEvents) /\ Len(old) \in Nat
            /\ Len(Append(old, event)) = Len(old) + 1
            /\ DOMAIN old = 1..Len(old) /\ DOMAIN Append(old, event) = 1..Len(Append(old, event))
            /\ Len(old) <= Len(Append(old, event))
            /\ \A n \in 1..Len(Append(old, event)) :
                 \/ n \in 1..Len(old) /\ Append(old, event)[n] = old[n]
                 \/ n = Len(old) + 1 /\ Append(old, event)[n] = event
            /\ \A n \in 1..Len(old) :
                 n \in 1..Len(Append(old, event)) /\ Append(old, event)[n] = old[n]
        BY <4>1, OneLonger
      <4> DEFINE new == Append(old, event)
      <4>3. log'[r] = new /\ Len(new) \in Nat
        BY <4>1, <4>2
      <4> HIDE DEF new
      <4>4. QED
        BY <3>1, <4>1, <4>2, <4>3 DEF new
    <3>2. CASE r # ring
      BY <2>3, <2>4, <3>2
    <3>3. QED
      BY <3>1, <3>2
  <2>6. QED
    BY <2>3, <2>4, <2>5
<1>4. RepliesTypes'
  BY <1>1, <1>3 DEF RepliesTypes
<1>5. ASSUME NEW r \in {"bus", "hive"}, NEW n \in 1..Len(log'[r]) PROVE Logged(r, log[r][n])'
  <2>1. \A e : Logged(r, e) => Logged(r, e)'
    BY <1>1 DEF Logged, Asks!RingOf
  <2>2. Logged(r, log'[r][n])
    BY <1>2, <1>3 DEF RepliesInv
  <2>3. QED
    BY <2>1, <2>2
<1>6. ASSUME NEW p \in Ops PROVE Stage(p)' /\ Knows(p)' /\ SpokenLate(p)'
  <2> DEFINE r == Asks!RingOf(p)
  <2>1. /\ Asks!RingOf(p)' = r /\ r \in {"bus", "hive"} /\ Asks!WakeAt(p)' = Asks!WakeAt(p)
        /\ Stage(p) /\ Knows(p) /\ SpokenLate(p) /\ seen[p] \in Nat /\ repliesNow \in Nat
    BY <1>1 DEF Asks!RingOf, Asks!WakeAt, RepliesInv, RepliesTypes
  <2> HIDE DEF r
  <2>2. Stage(p)'
    <3>1. seen[p] <= Len(log'[r])
      BY <1>3, <2>1 DEF Stage, r
    <3>2. QED
      BY <1>1, <2>1, <3>1 DEF Stage, r
  <2>3. \A what :
          /\ Asks!SaidTo(p, what) \subseteq Asks!SaidTo(p, what)'
          /\ Asks!SaidTo(p, what) \subseteq 1..Len(log[r])
          /\ \A n \in Asks!SaidTo(p, what)' :
               \/ n \in Asks!SaidTo(p, what)
               \/ n = Len(log[r]) + 1 /\ log'[r][n] = event
    <3>1. TAKE what
    <3>2. /\ Asks!SaidTo(p, what) =
               {n \in DOMAIN log[r] : log[r][n].op = p /\ log[r][n].what \in what}
          /\ Asks!SaidTo(p, what)' =
               {n \in DOMAIN log'[r] : log'[r][n].op = p /\ log'[r][n].what \in what}
      BY <2>1 DEF Asks!SaidTo, r
    <3>3. /\ DOMAIN log[r] = 1..Len(log[r]) /\ DOMAIN log'[r] = 1..Len(log'[r])
          /\ \A n \in 1..Len(log'[r]) :
               \/ n \in 1..Len(log[r]) /\ log'[r][n] = log[r][n]
               \/ n = Len(log[r]) + 1 /\ log'[r][n] = event
          /\ \A n \in 1..Len(log[r]) : n \in 1..Len(log'[r]) /\ log'[r][n] = log[r][n]
      BY <1>3, <2>1
    <3>4. Asks!SaidTo(p, what) \subseteq Asks!SaidTo(p, what)'
      BY <3>2, <3>3
    <3>5. \A n \in Asks!SaidTo(p, what)' :
            n \in Asks!SaidTo(p, what) \/ (n = Len(log[r]) + 1 /\ log'[r][n] = event)
      BY <3>2, <3>3
    <3>6. QED
      BY <3>2, <3>3, <3>4, <3>5
  <2>4. \A n \in 1..Len(log[r]) : log[r][n].at <= repliesNow
    BY <2>1 DEF RepliesInv, Logged
  <2>5. \A n \in 1..Len(log[r]) : log[r][n].at \in Nat
    <3>1. \A n \in 1..Len(log[r]) : log[r][n] \in ReplyEvents
      BY <1>3, <2>1
    <3>2. QED
      BY <3>1 DEF ReplyEvents
  <2>6. ASSUME NEW what, NEW end, NEW wait, FirstOpens(p, what, end, wait)
        PROVE  FirstOpens(p, what, end, wait)'
    <3>1. CASE end = None
      BY <3>1 DEF FirstOpens
    <3>2. CASE end # None
      <4>1. PICK n \in Asks!SaidTo(p, what) :
              /\ end = log[r][n].at + wait
              /\ \A m \in Asks!SaidTo(p, what) : log[r][n].at <= log[r][m].at
        BY <2>6, <3>2 DEF FirstOpens, r
      <4>2. n \in Asks!SaidTo(p, what)' /\ log'[r][n] = log[r][n] /\ log[r][n].at <= repliesNow
        BY <1>3, <2>1, <2>3, <2>4
      <4>3. \A m \in Asks!SaidTo(p, what)' : log'[r][n].at <= log'[r][m].at
        BY <1>2, <1>3, <2>1, <2>3, <4>1, <4>2
      <4>4. QED
        BY <2>1, <4>1, <4>2, <4>3 DEF FirstOpens
    <3>3. QED
      BY <3>1, <3>2
  <2>7. \A what : \A n \in Asks!SaidTo(p, what)' : n <= seen[p] => n \in Asks!SaidTo(p, what)
    <3>1. seen[p] <= Len(log[r]) /\ Len(log[r]) \in Nat
      BY <1>3, <2>1 DEF Stage, r
    <3>2. QED
      BY <2>1, <2>3, <3>1
  <2>8. Knows(p)'
    <3>1. repliesHeard[p] <=> \E n \in Asks!SaidTo(p, {"speak"})' : n <= seen[p]
      BY <2>1, <2>3, <2>7 DEF Knows
    <3>2. kind[p] = "ask" => \A n \in Asks!SaidTo(p, {"missed", "handled"})' :
                               n <= seen[p] => emptyAt[p] # None
      BY <2>1, <2>7 DEF Knows
    <3>3. pc[p] = "collect" => \A n \in 1..Len(log'[r]) : n > seen[p] => log'[r][n].at = repliesNow
      BY <1>2, <1>3, <2>1 DEF Knows, r
    <3>4. FirstOpens(p, {"speak"}, settleAt[p], Settle)'
      <4>1. FirstOpens(p, {"speak"}, settleAt[p], Settle)
        BY <2>1 DEF Knows
      <4>2. QED
        BY <4>1, <2>6, <1>1
    <3>5. FirstOpens(p, {"missed", "handled"}, emptyAt[p], EmptyWait)'
      <4>1. FirstOpens(p, {"missed", "handled"}, emptyAt[p], EmptyWait)
        BY <2>1 DEF Knows
      <4>2. QED
        BY <4>1, <2>6, <1>1
    <3>6. QED
      BY <1>1, <2>1, <3>1, <3>2, <3>3, <3>4, <3>5 DEF Knows
  <2>9. SpokenLate(p)'
    <3>1. CASE kind[p] = "ask" /\ result[p] \in {"silent", "unanswered"}
      <4>1. r = "bus" /\ repliesNow >= Asks!WakeAt(p)
        BY <2>1, <3>1 DEF r, Asks!RingOf, SpokenLate
      <4>2. \A n \in Asks!SaidTo(p, {"speak"})' : log'["bus"][n].at >= Asks!WakeAt(p)
        BY <1>2, <1>3, <2>1, <2>3, <3>1, <4>1 DEF SpokenLate
      <4>3. QED
        BY <1>1, <2>1, <3>1, <4>1, <4>2 DEF SpokenLate
    <3>2. CASE ~(kind[p] = "ask" /\ result[p] \in {"silent", "unanswered"})
      BY <1>1, <3>2 DEF SpokenLate
    <3>3. QED
      BY <3>1, <3>2
  <2>10. QED
    BY <2>2, <2>8, <2>9
<1>7. \A p, q \in Ops : Apart(p, q)'
  BY <1>1 DEF RepliesInv, Apart, Active
<1>8. QED
  BY <1>4, <1>5, <1>6, <1>7 DEF RepliesInv

(* Time passes only when every collector has read what there is.           *)
LEMMA RepliesTickKeeps == ASSUME RepliesInv, Asks!Tick PROVE RepliesInv'
<1>1. /\ RepliesTypes /\ repliesNow' = repliesNow + 1 /\ repliesNow \in Nat
      /\ \A o \in Ops : ~Asks!Busy(o)
      /\ UNCHANGED <<pc, kind, id, deadline, seen, repliesHeard, soft, emptyAt, settleAt, write,
                     sentAt, log, result>>
  BY DEF RepliesInv, RepliesTypes, Asks!Tick
<1>2. RepliesTypes'
  BY <1>1 DEF RepliesTypes
<1>3. ASSUME NEW o \in Ops PROVE Stage(o)' /\ Knows(o)' /\ SpokenLate(o)'
  <2>1. /\ Asks!RingOf(o)' = Asks!RingOf(o) /\ Asks!WakeAt(o)' = Asks!WakeAt(o)
        /\ \A what : Asks!SaidTo(o, what)' = Asks!SaidTo(o, what)
        /\ Stage(o) /\ Knows(o) /\ SpokenLate(o) /\ Asks!RingOf(o) \in {"bus", "hive"}
    BY <1>1 DEF Asks!RingOf, Asks!WakeAt, Asks!SaidTo, RepliesInv
  <2>2. Stage(o)'
    BY <1>1, <2>1 DEF Stage
  <2>3. \A what, end, wait : FirstOpens(o, what, end, wait) => FirstOpens(o, what, end, wait)'
    BY <1>1, <2>1 DEF FirstOpens
  <2>4. pc[o] = "collect" => \A n \in 1..Len(log[Asks!RingOf(o)]) : ~(n > seen[o])
    <3>1. seen[o] \in Nat /\ Len(log[Asks!RingOf(o)]) \in Nat
      BY <1>1, <2>1 DEF RepliesTypes
    <3>2. pc[o] = "collect" => ~(Asks!Unread(o) > 0)
      BY <1>1 DEF Asks!Busy
    <3>3. QED
      BY <3>1, <3>2 DEF Asks!Unread
  <2>5. Knows(o)'
    BY <1>1, <2>1, <2>3, <2>4 DEF Knows
  <2>6. SpokenLate(o)'
    <3>1. CASE kind[o] = "ask" /\ result[o] \in {"silent", "unanswered"}
      <4>1. pc[o] = "done" /\ deadline[o] \in Nat /\ repliesNow >= Asks!WakeAt(o)
        BY <2>1, <3>1 DEF SpokenLate
      <4>2. repliesNow' >= Asks!WakeAt(o)
        BY <1>1, <4>1, WakesInTime
      <4>3. QED
        BY <1>1, <2>1, <3>1, <4>1, <4>2 DEF SpokenLate
    <3>2. CASE ~(kind[o] = "ask" /\ result[o] \in {"silent", "unanswered"})
      BY <1>1, <3>2 DEF SpokenLate
    <3>3. QED
      BY <3>1, <3>2
  <2>7. QED
    BY <2>2, <2>5, <2>6
<1>4. ASSUME NEW ring \in {"bus", "hive"}, NEW n \in 1..Len(log[ring]) PROVE Logged(ring, log[ring][n])'
  <2>1. Logged(ring, log[ring][n]) /\ log[ring][n] \in ReplyEvents
    BY <1>1 DEF RepliesInv, RepliesTypes
  <2>2. log[ring][n].at <= repliesNow'
    BY <1>1, <2>1 DEF Logged, ReplyEvents
  <2>3. QED
    BY <1>1, <2>1, <2>2 DEF Logged, Asks!RingOf
<1>5. \A p, q \in Ops : Apart(p, q)'
  BY <1>1 DEF RepliesInv, Apart, Active
<1>6. QED
  BY <1>1, <1>2, <1>3, <1>4, <1>5 DEF RepliesInv

LEMMA RepliesStepKeeps ==
  RepliesInv /\ [Asks!RepliesNext]_(Asks!replyVars) => RepliesInv'
<1>1. RepliesInv /\ UNCHANGED Asks!replyVars => RepliesInv'
  <2> SUFFICES ASSUME RepliesInv, UNCHANGED Asks!replyVars PROVE RepliesInv'
    OBVIOUS
  <2>1. /\ UNCHANGED <<repliesNow, pc, kind, id, deadline, seen, repliesHeard, soft, emptyAt, settleAt,
                       write, sentAt, log, result>>
    BY DEF Asks!replyVars
  <2>2. RepliesTypes'
    BY <2>1 DEF RepliesInv, RepliesTypes
  <2>3. \A o \in Ops : (Stage(o) /\ Knows(o) /\ SpokenLate(o))'
    BY <2>1, RestsKeeps DEF RepliesInv, Rests
  <2>4. \A ring \in {"bus", "hive"} : (\A n \in 1..Len(log[ring]) : Logged(ring, log[ring][n]))'
    BY <2>1 DEF RepliesInv, Logged, Asks!RingOf
  <2>5. \A p, q \in Ops : Apart(p, q)'
    BY <2>1 DEF RepliesInv, Apart, Active
  <2>6. QED
    BY <2>2, <2>3, <2>4, <2>5 DEF RepliesInv
<1>2. QED
  BY <1>1, BeginKeeps, PublishKeeps, EndsKeepReplies, AskReadKeeps, QueryReadKeeps, HubSendsKeeps,
     RepliesTickKeeps DEF Asks!RepliesNext

(* The window an ask waits in ends with the first that opened it.          *)
LEMMA FirstIsFirst ==
  ASSUME RepliesTypes, NEW o \in Ops, NEW what, NEW end \in Nat, NEW wait \in Nat,
         FirstOpens(o, what, end, wait), end # None
  PROVE  end = Asks!FirstAt(o, what) + wait
<1> DEFINE times == {log[Asks!RingOf(o)][n].at : n \in Asks!SaidTo(o, what)}
<1>1. PICK n \in Asks!SaidTo(o, what) :
        /\ end = log[Asks!RingOf(o)][n].at + wait
        /\ \A m \in Asks!SaidTo(o, what) : log[Asks!RingOf(o)][n].at <= log[Asks!RingOf(o)][m].at
  BY DEF FirstOpens
<1>2. times \subseteq Nat
  <2>1. log[Asks!RingOf(o)] \in Seq(ReplyEvents)
    BY DEF RepliesTypes, Asks!RingOf
  <2>2. \A m \in Asks!SaidTo(o, what) : log[Asks!RingOf(o)][m] \in ReplyEvents
    BY <2>1 DEF Asks!SaidTo
  <2>3. QED
    BY <2>2 DEF ReplyEvents
<1>3. log[Asks!RingOf(o)][n].at \in times /\ \A u \in times : log[Asks!RingOf(o)][n].at <= u
  BY <1>1
<1>4. Asks!FirstAt(o, what) = CHOOSE t \in times : \A u \in times : t <= u
  BY DEF Asks!FirstAt
<1> HIDE DEF times
<1>5. /\ Asks!FirstAt(o, what) \in times
      /\ \A u \in times : Asks!FirstAt(o, what) <= u
  BY <1>3, <1>4
<1>6. Asks!FirstAt(o, what) = log[Asks!RingOf(o)][n].at
  <2>1. Asks!FirstAt(o, what) \in Nat /\ log[Asks!RingOf(o)][n].at \in Nat
    BY <1>2, <1>3, <1>5
  <2>2. Asks!FirstAt(o, what) <= log[Asks!RingOf(o)][n].at
    BY <1>3, <1>5
  <2>3. log[Asks!RingOf(o)][n].at <= Asks!FirstAt(o, what)
    BY <1>3, <1>5
  <2>4. QED
    BY <2>1, <2>2, <2>3
<1>7. QED
  BY <1>1, <1>6

LEMMA AnswersFollow ==
  RepliesInv => Asks!AnswerIsOwn /\ Asks!NothingMissed /\ Asks!WindowsRunOnce
<1> SUFFICES ASSUME RepliesInv PROVE Asks!AnswerIsOwn /\ Asks!NothingMissed /\ Asks!WindowsRunOnce
  OBVIOUS
<1>1. RepliesTypes /\ \A o \in Ops : Stage(o) /\ Knows(o) /\ SpokenLate(o)
  BY DEF RepliesInv
<1>2. Asks!AnswerIsOwn
  BY <1>1 DEF Asks!AnswerIsOwn, Knows
<1>3. Asks!NothingMissed
  BY <1>1 DEF Asks!NothingMissed, SpokenLate
<1>4. ASSUME NEW o \in Ops, kind[o] = "ask", pc[o] = "collect", ~Asks!Busy(o)
      PROVE  /\ repliesNow < deadline[o]
             /\ Asks!SaidTo(o, {"speak"}) # {} => repliesNow < Asks!FirstAt(o, {"speak"}) + Settle
             /\ Asks!SaidTo(o, {"missed", "handled"}) # {} /\ Asks!SaidTo(o, {"speak"}) = {}
                  => repliesNow < Asks!FirstAt(o, {"missed", "handled"}) + EmptyWait
  <2>1. /\ Stage(o) /\ Knows(o) /\ deadline[o] \in Nat /\ repliesNow \in Nat /\ seen[o] \in Nat
        /\ settleAt[o] \in Nat \cup {None} /\ emptyAt[o] \in Nat \cup {None}
    BY <1>1, <1>4 DEF Stage, RepliesTypes
  <2>2. Asks!WakeAt(o) \in Nat /\ repliesNow < Asks!WakeAt(o) /\ Asks!WakeAt(o) <= deadline[o]
    BY <1>1, <1>4, <2>1, WakesInTime DEF Asks!Busy, Asks!Due
  <2>3. \A what : \A n \in Asks!SaidTo(o, what) : n <= seen[o]
    <3>1. /\ Asks!RingOf(o) = "bus" /\ Len(log["bus"]) \in Nat /\ DOMAIN log["bus"] = 1..Len(log["bus"])
      BY <1>1, <1>4 DEF Asks!RingOf, RepliesTypes
    <3>2. Len(log["bus"]) <= seen[o]
      BY <1>4, <2>1, <3>1 DEF Asks!Busy, Asks!Unread
    <3>3. QED
      BY <2>1, <3>1, <3>2 DEF Asks!SaidTo
  <2>4. ASSUME Asks!SaidTo(o, {"speak"}) # {} PROVE repliesNow < Asks!FirstAt(o, {"speak"}) + Settle
    <3>1. settleAt[o] \in Nat /\ settleAt[o] # None
      BY <1>4, <2>1, <2>3, <2>4 DEF Knows
    <3>2. settleAt[o] = Asks!FirstAt(o, {"speak"}) + Settle
      BY <1>1, <2>1, <3>1, ReplyConstants, FirstIsFirst DEF Knows
    <3>3. Asks!WakeAt(o) <= settleAt[o]
      BY <1>1, <2>1, <3>1, WakesInTime
    <3>4. QED
      BY <2>1, <2>2, <3>1, <3>2, <3>3
  <2>5. ASSUME Asks!SaidTo(o, {"missed", "handled"}) # {}, Asks!SaidTo(o, {"speak"}) = {}
        PROVE  repliesNow < Asks!FirstAt(o, {"missed", "handled"}) + EmptyWait
    <3>1. emptyAt[o] \in Nat /\ emptyAt[o] # None /\ settleAt[o] = None
      BY <1>4, <2>1, <2>3, <2>5 DEF Knows, FirstOpens
    <3>2. emptyAt[o] = Asks!FirstAt(o, {"missed", "handled"}) + EmptyWait
      BY <1>1, <2>1, <3>1, ReplyConstants, FirstIsFirst DEF Knows
    <3>3. Asks!WakeAt(o) <= emptyAt[o]
      BY <1>1, <2>1, <3>1, WakesInTime
    <3>4. QED
      BY <2>1, <2>2, <3>1, <3>2, <3>3
  <2>6. QED
    BY <2>1, <2>2, <2>4, <2>5
<1>5. QED
  BY <1>2, <1>3, <1>4 DEF Asks!WindowsRunOnce

(* A refusal is taken only while nothing else is out.                      *)
LEMMA RefusalsAreOwn ==
  ASSUME RepliesInv, [Asks!RepliesNext]_(Asks!replyVars), NEW o \in Ops, refusedBy'[o] # refusedBy[o],
         NEW p, p = refusedBy'[o]
  PROVE  \/ p = o
         \/ kind[p] # "send" /\ pc[p] = "done"
         \/ kind[p] = "send" /\ repliesNow - sentAt[p] > Grace
<1>1. PICK q \in Ops : Asks!AskReads(q)
  BY ZenonT(60)
  DEF Asks!RepliesNext, Asks!replyVars, Asks!Begin, Asks!AskPublishes, Asks!QueryPublishes,
         Asks!SendPublishes, Asks!Publish, Asks!ConnectFails, Asks!ConnectTimesOut, Asks!WriteDone,
         Asks!WriteFails, Asks!Drop, Asks!Overflows, Asks!QueryReads, Asks!Wakes, Asks!HubSends,
         Asks!Tick
<1>2. /\ q = o /\ log["bus"][seen[o] + 1].what = "denied" /\ Asks!RefusalBelongs(o)
      /\ p = log["bus"][seen[o] + 1].op
  BY <1>1 DEF Asks!AskReads
<1>3. /\ pc[o] = "collect" /\ kind[o] = "ask" /\ Asks!Unread(o) \in 1..Ring /\ RepliesTypes
      /\ Asks!RingOf(o) = "bus"
  BY <1>1, <1>2 DEF Asks!AskReads, RepliesInv, Asks!RingOf
<1>4. seen[o] + 1 \in 1..Len(log["bus"])
  BY <1>3, ReplyConstants DEF Asks!Unread, RepliesTypes
<1>5. log["bus"][seen[o] + 1] \in ReplyEvents
  BY <1>3, <1>4 DEF RepliesTypes
<1>6. p \in Ops /\ write[p] # "none"
  BY <1>2, <1>4, <1>5 DEF RepliesInv, Logged, ReplyEvents
<1>7. /\ Stage(p) /\ pc[p] \in {"collect", "sending", "done"} /\ kind[p] \in Asks!Kinds
      /\ kind[p] = "send" => sentAt[p] \in Nat
      /\ pc[p] = "collect" => kind[p] # "send"
      /\ pc[p] = "sending" => kind[p] = "send"
  BY <1>6 DEF RepliesInv, Stage
<1>8. CASE kind[p] = "ask" /\ pc[p] = "collect"
  BY <1>2, <1>6, <1>8 DEF Asks!RefusalBelongs, Asks!Waiting
<1>9. CASE kind[p] = "query" /\ pc[p] = "collect"
  BY <1>2, <1>6, <1>9 DEF Asks!RefusalBelongs, Asks!Waiting
<1>10. CASE kind[p] = "send"
  <2>1. p \notin Asks!Untracked /\ sentAt[p] \in Nat /\ sentAt[p] # None /\ repliesNow \in Nat
    BY <1>2, <1>3, <1>7, <1>10, ReplyConstants DEF Asks!RefusalBelongs, RepliesTypes
  <2>2. QED
    BY <1>6, <1>10, <2>1, ReplyConstants DEF Asks!Untracked
<1>11. QED
  BY <1>7, <1>8, <1>9, <1>10 DEF Asks!Kinds

(* What an ask or a query returns was said to it, one that returns nothing *)
(* was told nothing in time, and its windows run once                      *)
(* (collect_ask_reply, collect_query_reply); and a refusal is taken by no  *)
(* operation while another could be the one refused                        *)
(* (refusal_belongs_to_ask).                                               *)
THEOREM RepliesAreOwn ==
  Asks!RepliesSpec =>
    /\ [](Asks!AnswerIsOwn /\ Asks!NothingMissed /\ Asks!WindowsRunOnce)
    /\ Asks!RefusalNotStolen
<1>1. RepliesInv /\ [Asks!RepliesNext]_(Asks!replyVars) =>
        [\A o \in Ops : refusedBy'[o] # refusedBy[o] =>
           LET p == refusedBy'[o] IN
           \/ p = o
           \/ kind[p] # "send" /\ pc[p] = "done"
           \/ kind[p] = "send" /\ repliesNow - sentAt[p] > Grace]_(Asks!replyVars)
  BY RefusalsAreOwn
<1>2. QED
  BY <1>1, RepliesStart, RepliesStepKeeps, AnswersFollow, PTL
     DEF Asks!RepliesSpec, Asks!RefusalNotStolen

-----------------------------------------------------------------------------
(* Listing: looking further never makes a listing worse.                   *)

LEMMA LeastNumber ==
  ASSUME NEW T, T \subseteq Nat, T # {}
  PROVE  \E i \in T : \A j \in T : i <= j
<1> DEFINE B == {0 .. i : i \in T}
           R == StrictSubsetOrdering(Nat)
<1>1. IsWellFoundedOn(R, FiniteSubsetsOf(Nat))
  BY FS_StrictSubsetOrderingWellFounded
<1>2. B # {} /\ B \subseteq FiniteSubsetsOf(Nat)
  <2>1. \A i \in T : (0 .. i) \in SUBSET Nat /\ IsFiniteSet(0 .. i)
    BY FS_Interval
  <2>2. QED
    BY <2>1 DEF FiniteSubsetsOf
<1>3. \A x, y \in FiniteSubsetsOf(Nat) : x \subseteq y /\ x # y => <<x, y>> \in R
  BY DEF StrictSubsetOrdering, FiniteSubsetsOf
<1>4. PICK b \in B : \A c \in B : ~ (<<c, b>> \in R)
  <2> HIDE DEF B, R
  <2>1. QED
    BY <1>1, <1>2, WFMin
<1>5. PICK i \in T : b = 0 .. i
  BY <1>4
<1>6. ASSUME NEW j \in T, j < i PROVE FALSE
  <2> HIDE DEF R
  <2>1. (0 .. j) \in B /\ (0 .. j) \subseteq (0 .. i) /\ i \in 0 .. i /\ i \notin 0 .. j
    BY <1>6
  <2>2. QED
    BY <1>2, <1>3, <1>4, <1>5, <2>1
<1>7. QED
  BY <1>6

(* The first listed of some tags is one of them.                           *)
LEMMA FirstListedIsOne ==
  ASSUME NEW tags, tags \subseteq Listing!TagSet, tags # {}
  PROVE  Listing!FirstListed(tags) \in tags
<1> DEFINE T == {n \in DOMAIN Tags : Tags[n] \in tags}
           IsFirst(n) == Tags[n] \in tags /\ \A m \in 1 .. n - 1 : Tags[m] \notin tags
<1>1. Tags \in Seq(Listing!TagSet) /\ DOMAIN Tags = 1 .. Len(Tags) /\ Len(Tags) \in Nat
  BY ComponentAssumptions DEF Listing!IntentListingAssumption
<1>2. T \subseteq Nat /\ T # {}
  BY <1>1 DEF Listing!TagSet, Listing!Range
<1>3. PICK n \in T : \A m \in T : n <= m
  <2> HIDE DEF T
  <2>1. QED
    BY <1>2, LeastNumber
<1>4. \A m \in 1 .. n - 1 : m < n /\ m \in DOMAIN Tags
  BY <1>1, <1>3
<1>5. n \in DOMAIN Tags /\ IsFirst(n)
  BY <1>1, <1>3, <1>4
<1>6. IsFirst(CHOOSE m \in DOMAIN Tags : IsFirst(m))
  BY <1>5
<1>7. QED
  BY <1>6 DEF Listing!FirstListed

(* How many rows a language has, whatever its spellings.                   *)
MostRows == Cardinality(Listing!TagSet \X (1 .. Listing!MaxSentenceRows))

LEMMA RowsAreCounted ==
  ASSUME NEW l
  PROVE  /\ Listing!ManifestRows(l).names \in Nat
         /\ Listing!ManifestRows(l).sentences \in 0 .. MostRows
         /\ MostRows \in Nat
         /\ Listing!ManifestRows(l) = [names |-> Listing!ManifestRows(l).names,
                                       sentences |-> Listing!ManifestRows(l).sentences]
<1> DEFINE All == Listing!TagSet \X (1 .. Listing!MaxSentenceRows)
           R == {row \in All : Language[row[1]] = l}
           N == {row \in R : row[2] <= hub[row[1]].names}
           S == {row \in R : row[2] <= hub[row[1]].sentences}
<1>1. IsFiniteSet(All)
  <2>1. /\ Tags \in Seq(Listing!TagSet) /\ Len(Tags) \in Nat
        /\ Listing!TagSet = {Tags[m] : m \in 1 .. Len(Tags)}
    BY ComponentAssumptions DEF Listing!IntentListingAssumption, Listing!TagSet, Listing!Range
  <2> DEFINE n == Len(Tags)
  <2>2. IsFiniteSet(1 .. n)
    <3> HIDE DEF n
    <3>1. 1 \in Int /\ n \in Int
      BY <2>1 DEF n
    <3>2. QED
      BY <3>1, FS_Interval, Zenon
  <2>3. IsFiniteSet(Listing!TagSet)
    <3>1. Tags \in Surjection(1 .. n, Listing!TagSet)
      BY <2>1 DEF Surjection
    <3>2. QED
      BY <2>2, <3>1, FS_Surjection
  <2>4. IsFiniteSet(1 .. Listing!MaxSentenceRows)
    <3>1. 1 \in Int /\ Listing!MaxSentenceRows \in Int
      BY DEF Listing!MaxSentenceRows
    <3>2. QED
      BY <3>1, FS_Interval, Zenon
  <2>5. QED
    BY <2>3, <2>4, FS_Product
<1>2. N \in SUBSET All /\ S \in SUBSET All
  OBVIOUS
<1>3. /\ Cardinality(N) \in Nat /\ Cardinality(S) \in Nat /\ Cardinality(All) \in Nat
      /\ Cardinality(S) <= Cardinality(All)
  <2> HIDE DEF All, N, S
  <2>1. IsFiniteSet(N) /\ IsFiniteSet(S) /\ Cardinality(S) <= Cardinality(All)
    BY <1>1, <1>2, FS_Subset
  <2>2. QED
    BY <1>1, <2>1, FS_CardinalityType
<1>4. Listing!ManifestRows(l) = [names |-> Cardinality(N), sentences |-> Cardinality(S)]
  BY DEF Listing!ManifestRows, Listing!Cardinality, Cardinality
<1>5. QED
  BY <1>3, <1>4 DEF MostRows

(* Some language has the most to say.                                      *)
LEMMA SomeSayMost ==
  ASSUME NEW tags, tags # {}
  PROVE  \E t \in tags : \A u \in tags :
            Listing!ManifestRows(Language[t]).sentences >= Listing!ManifestRows(Language[u]).sentences
<1> DEFINE Says(t) == Listing!ManifestRows(Language[t]).sentences
           Lacks == {MostRows - Says(t) : t \in tags}
<1>1. MostRows \in Nat /\ \A t \in tags : Says(t) \in 0 .. MostRows
  BY RowsAreCounted
<1> HIDE DEF Says
<1>2. Lacks \subseteq Nat /\ Lacks # {}
  BY <1>1
<1>3. PICK n \in Lacks : \A m \in Lacks : n <= m
  <2> HIDE DEF Lacks
  <2>1. QED
    BY <1>2, LeastNumber
<1>4. PICK t \in tags : n = MostRows - Says(t)
  BY <1>3
<1>5. \A u \in tags : Says(t) >= Says(u)
  <2>1. TAKE u \in tags
  <2>2. MostRows - Says(t) <= MostRows - Says(u)
    BY <1>3, <1>4
  <2>3. QED
    BY <1>1, <2>2
<1>6. QED
  BY <1>5 DEF Says

(* The language that is looked further in has a sentence to show           *)
(* (nearest_hub_language).                                                 *)
LEMMA NearestHasSentences ==
  ASSUME NEW wanted
  PROVE  LET tag == Listing!NearestHubLanguage(wanted)
         IN  tag # None => Listing!CarriesSentences(Listing!ManifestRows(Language[tag]))
<1> DEFINE C == Listing!Candidates
           tag == Listing!NearestHubLanguage(wanted)
<1>1. C \subseteq Listing!TagSet
  BY DEF Listing!Candidates
<1>2. \A w : Listing!Closest(w, C) # None => Listing!Closest(w, C) \in C
  <2> HIDE DEF C
  <2>1. TAKE w
  <2> DEFINE near == {t \in C : /\ Distance[w, t] <= 10
                                /\ \A u \in C : Distance[w, t] <= Distance[w, u]}
  <2>2. near \subseteq C /\ near \subseteq Listing!TagSet
    BY <1>1, Zenon
  <2>3. Listing!Closest(w, C) = IF near = {} THEN None ELSE Listing!FirstListed(near)
    BY Zenon DEF Listing!Closest
  <2> HIDE DEF near
  <2>4. QED
    BY <2>2, <2>3, FirstListedIsOne
<1>3. C # {} => Listing!MostSentences(C) \in C
  <2> HIDE DEF C
  <2>1. HAVE C # {}
  <2> DEFINE most == {t \in C : \A u \in C :
        Listing!ManifestRows(Language[t]).sentences >= Listing!ManifestRows(Language[u]).sentences}
  <2>2. most \subseteq C /\ most \subseteq Listing!TagSet /\ most # {}
    BY <1>1, <2>1, SomeSayMost
  <2>3. Listing!MostSentences(C) = Listing!FirstListed(most)
    BY DEF Listing!MostSentences
  <2> HIDE DEF most
  <2>4. QED
    BY <2>2, <2>3, FirstListedIsOne
<1>4. tag # None => tag \in C
  <2> DEFINE near == Listing!Closest(wanted, C)
             ours == Listing!Closest(own, C)
             most == Listing!MostSentences(C)
  <2>1. tag = IF C = {} THEN None ELSE IF near # None THEN near
              ELSE IF own # None /\ ours # None THEN ours ELSE most
    BY DEF Listing!NearestHubLanguage
  <2>2. /\ near # None => near \in C
        /\ ours # None => ours \in C
        /\ C # {} => most \in C
    BY <1>2, <1>3
  <2> HIDE DEF C, near, ours, most, tag
  <2>3. QED
    BY <2>1, <2>2
<1>5. QED
  BY <1>4 DEF Listing!Candidates

-----------------------------------------------------------------------------
Counts == [names : Nat, sentences : Nat]

ListingTypes ==
  /\ hub \in [Listing!TagSet -> Counts]
  /\ given \in Seq(Counts) /\ first \in Seq(Counts)

(* A language under way has its first listing, and holds one worth as much *)
(* (listing).                                                              *)
OneUnderWay ==
  listingAt \in {"usual", "look", "settled"} =>
    /\ Len(first) = Len(given) + 1 /\ Len(given) < Len(Asked)
    /\ holding = [tag |-> holding.tag, rows |-> holding.rows] /\ holding.rows \in Counts
    /\ Listing!Worth(holding.rows) >= Listing!Worth(first[Len(first)])
    /\ listingAt = "usual" => Usual[Listing!Asking] # None

ListingInv ==
  /\ ListingTypes /\ OneUnderWay /\ Listing!NeverWorse
  /\ Len(given) <= Len(first)
  /\ listingAt = "first" => Len(first) = Len(given) /\ Len(given) < Len(Asked)

LEMMA ListingStarts == Listing!IntentListingInit => ListingInv
<1> SUFFICES ASSUME Listing!IntentListingInit PROVE ListingInv
  OBVIOUS
<1>1. Listing!Listings \subseteq Counts
  BY DEF Listing!Listings, Listing!MaxSentenceRows, Counts
<1>2. ListingTypes
  BY <1>1 DEF Listing!IntentListingInit, ListingTypes
<1>3. 0 < Len(Asked)
  BY ComponentAssumptions DEF Listing!IntentListingAssumption
<1>4. QED
  BY <1>2, <1>3 DEF Listing!IntentListingInit, ListingInv, OneUnderWay, Listing!NeverWorse

(* What a listing is worth.                                                *)
LEMMA WorthRanks ==
  ASSUME NEW a \in Counts, NEW b \in Counts
  PROVE  /\ Listing!Worth(a) \in 0 .. 2
         /\ Listing!CarriesSentences(a) => Listing!Worth(a) >= Listing!Worth(b)
         /\ ~ Listing!CarriesSentences(b) /\ a # Listing!NoListing => Listing!Worth(a) >= Listing!Worth(b)
         /\ b = Listing!NoListing => Listing!Worth(a) >= Listing!Worth(b)
         /\ a = Listing!NoListing /\ Listing!Worth(a) >= Listing!Worth(b) => b = Listing!NoListing
  BY DEF Counts, Listing!Worth, Listing!CarriesSentences, Listing!NoListing

LEMMA AskedIsATag ==
  ASSUME Len(given) \in Nat, Len(given) < Len(Asked)
  PROVE  /\ Listing!Asking \in Listing!TagSet
         /\ Usual[Listing!Asking] # None => Usual[Listing!Asking] \in Listing!TagSet
<1>1. /\ Asked \in Seq(Listing!TagSet)
      /\ Usual \in [Listing!TagSet -> Listing!TagSet \cup {None}]
  BY ComponentAssumptions DEF Listing!IntentListingAssumption
<1>2. Len(given) + 1 \in 1 .. Len(Asked)
  BY <1>1
<1>3. Listing!Asking \in Listing!TagSet
  BY <1>1, <1>2 DEF Listing!Asking
<1>4. QED
  BY <1>1, <1>3

LEMMA FirstAnsweredKeeps == ASSUME ListingInv, Listing!FirstAnswered PROVE ListingInv'
<1> DEFINE rows == hub[Listing!Asking]
<1>1. /\ listingAt = "first" /\ Len(first) = Len(given) /\ Len(given) < Len(Asked)
      /\ first' = Append(first, rows) /\ holding' = [tag |-> Listing!Asking, rows |-> rows]
      /\ hub' = hub /\ given' = given
      /\ listingAt' \in {"settled", "look", "usual"}
      /\ listingAt' = "usual" => Usual[Listing!Asking] # None
      /\ given \in Seq(Counts) /\ first \in Seq(Counts) /\ hub \in [Listing!TagSet -> Counts]
      /\ \A i \in DOMAIN given : Listing!Worth(given[i]) >= Listing!Worth(first[i])
  BY DEF ListingInv, ListingTypes, Listing!NeverWorse, Listing!FirstAnswered, Listing!manifest, Listing!result
<1>2. rows \in Counts
  BY <1>1, AskedIsATag
<1> HIDE DEF rows
<1>3. /\ first' \in Seq(Counts) /\ Len(first') = Len(given) + 1 /\ first'[Len(first')] = rows
      /\ \A i \in DOMAIN given : first'[i] = first[i]
  BY <1>1, <1>2
<1>4. Listing!Worth(rows) \in 0 .. 2
  BY <1>2, WorthRanks
<1>5. Listing!Asking' = Listing!Asking
  BY <1>1 DEF Listing!Asking
<1>6. OneUnderWay'
  BY <1>1, <1>2, <1>3, <1>4, <1>5 DEF OneUnderWay
<1>7. Listing!NeverWorse'
  BY <1>1, <1>3 DEF Listing!NeverWorse
<1>8. QED
  BY <1>1, <1>3, <1>6, <1>7 DEF ListingInv, ListingTypes

(* A step that leaves what was listed as it is.                            *)
LEMMA GivenStays ==
  ASSUME ListingInv, UNCHANGED <<hub, given, first>>, OneUnderWay', listingAt' # "first",
         listingAt' = "names" /\ Len(first) > Len(given) => first[Len(first)] = Listing!NoListing
  PROVE  ListingInv'
  BY DEF ListingInv, ListingTypes, Listing!NeverWorse

LEMMA FirstFailsKeeps == ASSUME ListingInv, Listing!FirstFails PROVE ListingInv'
<1>1. /\ listingAt' \in {"names", "failed"} /\ UNCHANGED <<hub, given, first>>
      /\ Len(first) = Len(given) /\ Len(given) \in Nat
  BY DEF ListingInv, ListingTypes, Listing!FirstFails, Listing!GivesUp, Listing!manifest, Listing!result
<1>2. QED
  BY <1>1, GivenStays DEF OneUnderWay

(* A listing that replaces the one held is worth as much.                  *)
LEMMA HoldsBetter ==
  ASSUME ListingInv, UNCHANGED <<hub, given, first>>, listingAt \in {"usual", "look"},
         listingAt' \in {"look", "settled"}, NEW tag, NEW rows \in Counts,
         holding' = [tag |-> tag, rows |-> rows],
         Listing!Worth(rows) >= Listing!Worth(holding.rows)
  PROVE  ListingInv'
<1>1. /\ Len(first) = Len(given) + 1 /\ Len(given) < Len(Asked)
      /\ Listing!Worth(holding.rows) >= Listing!Worth(first[Len(first)])
      /\ holding.rows \in Counts /\ first[Len(first)] \in Counts
  BY DEF ListingInv, ListingTypes, OneUnderWay
<1>2. /\ Listing!Worth(rows) \in 0 .. 2 /\ Listing!Worth(holding.rows) \in 0 .. 2
      /\ Listing!Worth(first[Len(first)]) \in 0 .. 2
  BY <1>1, WorthRanks
<1>3. Listing!Worth(rows) >= Listing!Worth(first[Len(first)])
  BY <1>1, <1>2
<1>4. OneUnderWay'
  BY <1>1, <1>3 DEF OneUnderWay
<1>5. QED
  BY <1>4, GivenStays

(* Nothing else is held.                                                   *)
LEMMA HoldsSame ==
  ASSUME ListingInv, UNCHANGED <<hub, given, first, holding>>, listingAt \in {"usual", "look"},
         listingAt' \in {"look", "settled"}
  PROVE  ListingInv'
<1>1. OneUnderWay'
  BY DEF ListingInv, OneUnderWay
<1>2. QED
  BY <1>1, GivenStays

LEMMA UsualAnsweredKeeps == ASSUME ListingInv, Listing!UsualAnswered PROVE ListingInv'
<1> DEFINE usual == Usual[Listing!Asking]
           retried == hub[usual]
           better == Listing!CarriesSentences(retried)
                     \/ (retried # Listing!NoListing /\ holding.rows = Listing!NoListing)
<1>1. /\ listingAt = "usual" /\ UNCHANGED <<hub, given, first>>
      /\ listingAt' \in {"settled", "look"}
      /\ holding' = IF better THEN [tag |-> usual, rows |-> retried] ELSE holding
  BY DEF Listing!UsualAnswered, Listing!manifest, Listing!result
<1>2. retried \in Counts /\ holding.rows \in Counts
  <2>1. /\ hub \in [Listing!TagSet -> Counts] /\ usual # None /\ holding.rows \in Counts
        /\ Len(given) \in Nat /\ Len(given) < Len(Asked)
    BY <1>1 DEF ListingInv, ListingTypes, OneUnderWay
  <2>2. usual \in Listing!TagSet
    BY <2>1, AskedIsATag
  <2>3. QED
    BY <2>1, <2>2
<1>3. better => Listing!Worth(retried) >= Listing!Worth(holding.rows)
  BY <1>2, WorthRanks
<1> HIDE DEF usual, retried, better
<1>4. CASE better
  BY <1>1, <1>2, <1>3, <1>4, HoldsBetter
<1>5. CASE ~ better
  BY <1>1, <1>5, HoldsSame
<1>6. QED
  BY <1>4, <1>5

LEMMA UsualFailsKeeps == ASSUME ListingInv, Listing!UsualFails PROVE ListingInv'
<1>1. listingAt = "usual" /\ UNCHANGED <<hub, given, first, holding>>
  BY DEF Listing!UsualFails, Listing!GivesUp, Listing!manifest, Listing!result
<1>2. \/ listingAt' \in {"look", "failed"}
      \/ listingAt' = "names" /\ holding.rows = Listing!NoListing
  BY DEF Listing!UsualFails, Listing!GivesUp
<1>3. CASE listingAt' = "look"
  BY <1>1, <1>3, HoldsSame
<1>4. CASE listingAt' = "failed"
  BY <1>1, <1>4, GivenStays DEF OneUnderWay
<1>5. CASE listingAt' = "names" /\ holding.rows = Listing!NoListing
  <2>1. /\ holding.rows \in Counts /\ first[Len(first)] \in Counts
        /\ Listing!Worth(holding.rows) >= Listing!Worth(first[Len(first)])
    BY <1>1 DEF ListingInv, ListingTypes, OneUnderWay
  <2>2. first[Len(first)] = Listing!NoListing
    BY <1>5, <2>1, WorthRanks
  <2>3. QED
    BY <1>1, <1>5, <2>2, GivenStays DEF OneUnderWay
<1>6. QED
  BY <1>2, <1>3, <1>4, <1>5

LEMMA WholeAskedKeeps == ASSUME ListingInv, Listing!WholeAsked PROVE ListingInv'
<1>1. listingAt = "look" /\ UNCHANGED <<hub, given, first, holding>> /\ listingAt' \in {"look", "failed"}
  BY DEF Listing!WholeAsked, Listing!manifest, Listing!result
<1>2. CASE listingAt' = "look"
  BY <1>1, <1>2, HoldsSame
<1>3. CASE listingAt' = "failed"
  BY <1>1, <1>3, GivenStays DEF OneUnderWay
<1>4. QED
  BY <1>1, <1>2, <1>3

LEMMA ImprovesKeeps == ASSUME ListingInv, Listing!Improves PROVE ListingInv'
<1> DEFINE tag == Listing!NearestHubLanguage(Listing!Asking)
           rows == Listing!ManifestRows(Language[tag])
<1>1. /\ listingAt = "look" /\ UNCHANGED <<hub, given, first>> /\ listingAt' = "settled"
      /\ holding' = IF whole = "known" /\ tag # None THEN [tag |-> tag, rows |-> rows] ELSE holding
  BY DEF Listing!Improves, Listing!manifest, Listing!result
<1>2. rows \in Counts
  <2>1. /\ rows = [names |-> rows.names, sentences |-> rows.sentences]
        /\ rows.names \in Nat /\ rows.sentences \in 0 .. MostRows /\ MostRows \in Nat
    BY RowsAreCounted
  <2> HIDE DEF rows
  <2>2. QED
    BY <2>1 DEF Counts
<1>3. tag # None => Listing!CarriesSentences(rows)
  BY NearestHasSentences
<1>4. holding.rows \in Counts
  BY <1>1 DEF ListingInv, OneUnderWay
<1> HIDE DEF tag, rows
<1>5. tag # None => Listing!Worth(rows) >= Listing!Worth(holding.rows)
  BY <1>2, <1>3, <1>4, WorthRanks
<1>6. CASE whole = "known" /\ tag # None
  BY <1>1, <1>2, <1>5, <1>6, HoldsBetter
<1>7. CASE ~ (whole = "known" /\ tag # None)
  BY <1>1, <1>7, HoldsSame
<1>8. QED
  BY <1>6, <1>7

LEMMA SettlesKeeps == ASSUME ListingInv, Listing!Settles PROVE ListingInv'
<1>1. /\ listingAt = "settled" /\ hub' = hub /\ first' = first
      /\ given' = Append(given, holding.rows)
      /\ listingAt' = IF Len(given') = Len(Asked) THEN "describe" ELSE "first"
  BY DEF Listing!Settles, Listing!manifest
<1>2. /\ given \in Seq(Counts) /\ first \in Seq(Counts) /\ hub \in [Listing!TagSet -> Counts]
      /\ Len(first) = Len(given) + 1 /\ Len(given) < Len(Asked)
      /\ holding.rows \in Counts
      /\ Listing!Worth(holding.rows) >= Listing!Worth(first[Len(first)])
      /\ \A i \in DOMAIN given : Listing!Worth(given[i]) >= Listing!Worth(first[i])
  BY <1>1 DEF ListingInv, ListingTypes, OneUnderWay, Listing!NeverWorse
<1>3. Len(Asked) \in Nat
  BY ComponentAssumptions DEF Listing!IntentListingAssumption
<1>4. /\ given' \in Seq(Counts) /\ Len(given') = Len(given) + 1
      /\ given'[Len(given) + 1] = holding.rows
      /\ \A i \in DOMAIN given : given'[i] = given[i]
      /\ DOMAIN given' = DOMAIN given \cup {Len(given) + 1}
  BY <1>1, <1>2
<1>5. \A i \in DOMAIN given' : Listing!Worth(given'[i]) >= Listing!Worth(first'[i])
  BY <1>1, <1>2, <1>4
<1>6. Listing!NeverWorse'
  BY <1>1, <1>5 DEF Listing!NeverWorse
<1>7. OneUnderWay'
  BY <1>1 DEF OneUnderWay
<1>8. QED
  BY <1>1, <1>2, <1>3, <1>4, <1>6, <1>7 DEF ListingInv, ListingTypes

(* What comes after the listings changes none of them.                     *)
LEMMA AfterwardsKeep ==
  ASSUME ListingInv, Listing!NamesAsked \/ Listing!Described \/ Listing!FallbacksAsked
  PROVE  ListingInv'
<1>1. /\ UNCHANGED <<hub, given, first>>
      /\ listingAt' \in {"names_only", "failed", "fallbacks", "fallbacks_known", "fallbacks_unknown"}
  BY DEF Listing!NamesAsked, Listing!Described, Listing!FallbacksAsked, Listing!manifest, Listing!result
<1>2. QED
  BY <1>1, GivenStays DEF OneUnderWay

LEMMA ListingStutters == ASSUME ListingInv, UNCHANGED Listing!listingVars PROVE ListingInv'
<1>1. UNCHANGED <<hub, listingAt, first, holding, given>>
  BY DEF Listing!listingVars
<1>2. Listing!Asking' = Listing!Asking
  BY <1>1 DEF Listing!Asking
<1>3. OneUnderWay'
  BY <1>1, <1>2 DEF ListingInv, OneUnderWay
<1>4. QED
  BY <1>1, <1>3 DEF ListingInv, ListingTypes, Listing!NeverWorse

(* Looking further never makes what a language is given worth less than    *)
(* its first listing (listing, inventory_with_capabilities).               *)
THEOREM NeverMadeWorse == Listing!IntentListingSpec => []Listing!NeverWorse
<1>1. ListingInv /\ [Listing!IntentListingNext]_(Listing!listingVars) => ListingInv'
  <2> SUFFICES ASSUME ListingInv, [Listing!IntentListingNext]_(Listing!listingVars) PROVE ListingInv'
    OBVIOUS
  <2>1. CASE UNCHANGED Listing!listingVars
    BY <2>1, ListingStutters
  <2>2. CASE Listing!IntentListingNext
    BY <2>2, FirstAnsweredKeeps, FirstFailsKeeps, UsualAnsweredKeeps, UsualFailsKeeps, WholeAskedKeeps,
       ImprovesKeeps, SettlesKeeps, AfterwardsKeep DEF Listing!IntentListingNext
  <2>3. QED
    BY <2>1, <2>2
<1>2. ListingInv => Listing!NeverWorse
  BY DEF ListingInv
<1>3. QED
  BY <1>1, <1>2, ListingStarts, PTL DEF Listing!IntentListingSpec

-----------------------------------------------------------------------------
(* Merging: the order the rows of an intent arrive in makes no difference. *)

LangsRead == {read[i].lang : i \in DOMAIN read}

SaysRead(l) == {read[i].says : i \in {j \in DOMAIN read : read[j].lang = l}}

(* What a language is left with, of all its rows said.                     *)
IsLeft(phrase, said) == IF said = {None} THEN phrase = None ELSE phrase \in said \ {None}

MergeInv ==
  /\ read \in Seq(Merging!Rows) /\ enabled \in BOOLEAN
  /\ phrases = [l \in DOMAIN phrases |-> phrases[l]]
  /\ DOMAIN phrases = LangsRead
  /\ \A l \in DOMAIN phrases : IsLeft(phrases[l], SaysRead(l))
  /\ enabled <=> \E i \in DOMAIN read : read[i].enabled

LEMMA MergeStarts == Merging!InventoryMergeInit => MergeInv
<1> SUFFICES ASSUME Merging!InventoryMergeInit PROVE MergeInv
  OBVIOUS
<1>1. read = <<>> /\ DOMAIN read = {} /\ enabled = FALSE
  BY DEF Merging!InventoryMergeInit
<1>2. DOMAIN phrases = {} /\ phrases = [l \in DOMAIN phrases |-> phrases[l]]
  BY DEF Merging!InventoryMergeInit
<1>3. LangsRead = {}
  BY <1>1 DEF LangsRead
<1>4. read \in Seq(Merging!Rows)
  BY <1>1
<1>5. QED
  BY <1>1, <1>2, <1>3, <1>4 DEF MergeInv

LEMMA RowIsRead ==
  ASSUME read \in Seq(Merging!Rows), NEW row \in Merging!Rows, read' = Append(read, row)
  PROVE  /\ read' \in Seq(Merging!Rows)
         /\ LangsRead' = LangsRead \cup {row.lang}
         /\ \A l : SaysRead(l)' = IF row.lang = l THEN SaysRead(l) \cup {row.says} ELSE SaysRead(l)
         /\ (\E i \in DOMAIN read' : read'[i].enabled)
               <=> (row.enabled \/ \E i \in DOMAIN read : read[i].enabled)
<1> DEFINE n == Len(read) + 1
<1>1. /\ read' \in Seq(Merging!Rows) /\ DOMAIN read' = DOMAIN read \cup {n} /\ n \notin DOMAIN read
      /\ read'[n] = row /\ \A i \in DOMAIN read : read'[i] = read[i]
  OBVIOUS
<1> HIDE DEF n
<1>2. LangsRead' = LangsRead \cup {row.lang}
  BY <1>1 DEF LangsRead
<1>3. ASSUME NEW l PROVE SaysRead(l)' = IF row.lang = l THEN SaysRead(l) \cup {row.says} ELSE SaysRead(l)
  <2>1. SaysRead(l)' = {read'[i].says : i \in {j \in DOMAIN read' : read'[j].lang = l}}
    BY DEF SaysRead
  <2>2. {j \in DOMAIN read' : read'[j].lang = l} =
           {j \in DOMAIN read : read[j].lang = l} \cup {j \in {n} : row.lang = l}
    BY <1>1
  <2>3. QED
    BY <1>1, <2>1, <2>2 DEF SaysRead
<1>4. QED
  BY <1>1, <1>2, <1>3

LEMMA MergeKeeps == ASSUME MergeInv, NEW row \in Merging!Rows, Merging!Merge(row) PROVE MergeInv'
<1>1. /\ read \in Seq(Merging!Rows) /\ read' = Append(read, row)
      /\ enabled \in BOOLEAN /\ enabled' = (enabled \/ row.enabled) /\ row.enabled \in BOOLEAN
      /\ phrases' = IF Merging!Keeps(row)
                    THEN [l \in DOMAIN phrases \cup {row.lang} |-> IF l = row.lang THEN row.says ELSE phrases[l]]
                    ELSE phrases
      /\ phrases = [l \in DOMAIN phrases |-> phrases[l]]
  BY DEF MergeInv, Merging!Merge, Merging!Rows
<1>2. /\ read' \in Seq(Merging!Rows)
      /\ LangsRead' = LangsRead \cup {row.lang}
      /\ \A l : SaysRead(l)' = IF row.lang = l THEN SaysRead(l) \cup {row.says} ELSE SaysRead(l)
      /\ (\E i \in DOMAIN read' : read'[i].enabled)
            <=> (row.enabled \/ \E i \in DOMAIN read : read[i].enabled)
  BY <1>1, RowIsRead
<1>3. /\ DOMAIN phrases' = DOMAIN phrases \cup {row.lang}
      /\ phrases' = [l \in DOMAIN phrases' |-> phrases'[l]]
      /\ \A l \in DOMAIN phrases \ {row.lang} : phrases'[l] = phrases[l]
      /\ phrases'[row.lang] = IF Merging!Keeps(row) THEN row.says ELSE phrases[row.lang]
  BY <1>1 DEF Merging!Keeps
<1>4. /\ DOMAIN phrases = LangsRead
      /\ \A l \in DOMAIN phrases : IsLeft(phrases[l], SaysRead(l))
      /\ enabled <=> \E i \in DOMAIN read : read[i].enabled
  BY DEF MergeInv
<1>5. ASSUME NEW l \in DOMAIN phrases' PROVE IsLeft(phrases'[l], SaysRead(l)')
  <2>1. CASE l # row.lang
    BY <1>2, <1>3, <1>4, <2>1
  <2>2. CASE l = row.lang /\ l \notin DOMAIN phrases
    <3>1. SaysRead(l) = {}
      BY <1>4, <2>2 DEF LangsRead, SaysRead
    <3>2. phrases'[l] = row.says /\ SaysRead(l)' = {row.says}
      BY <1>2, <1>3, <2>2, <3>1 DEF Merging!Keeps
    <3>3. QED
      BY <3>2 DEF IsLeft
  <2>3. CASE l = row.lang /\ l \in DOMAIN phrases
    <3>1. SaysRead(l)' = SaysRead(l) \cup {row.says} /\ IsLeft(phrases[l], SaysRead(l))
      BY <1>2, <1>4, <2>3
    <3>2. phrases'[l] = IF row.says # None THEN row.says ELSE phrases[l]
      BY <1>3, <2>3 DEF Merging!Keeps
    <3>3. QED
      BY <3>1, <3>2 DEF IsLeft
  <2>4. QED
    BY <2>1, <2>2, <2>3
<1>6. DOMAIN phrases' = LangsRead'
  BY <1>2, <1>3, <1>4
<1>7. enabled' \in BOOLEAN /\ (enabled' <=> \E i \in DOMAIN read' : read'[i].enabled)
  BY <1>1, <1>2, <1>4
<1>8. QED
  BY <1>2, <1>3, <1>5, <1>6, <1>7 DEF MergeInv

(* Rows in any order make the same languages, each with sentences when one *)
(* of its rows has them (inventory).                                       *)
THEOREM OrderMakesNoDifference == Merging!InventoryMergeSpec => []Merging!RowOrderFree
<1>1. MergeInv /\ [Merging!InventoryMergeNext]_(Merging!mergeVars) => MergeInv'
  <2> SUFFICES ASSUME MergeInv, [Merging!InventoryMergeNext]_(Merging!mergeVars) PROVE MergeInv'
    OBVIOUS
  <2>1. CASE UNCHANGED Merging!mergeVars
    <3>1. UNCHANGED <<read, enabled, phrases>>
      BY <2>1 DEF Merging!mergeVars
    <3>2. LangsRead' = LangsRead /\ \A l : SaysRead(l)' = SaysRead(l)
      BY <3>1 DEF LangsRead, SaysRead
    <3>3. \A l \in DOMAIN phrases' : IsLeft(phrases'[l], SaysRead(l)')
      BY <3>1, <3>2 DEF MergeInv
    <3>4. QED
      BY <3>1, <3>2, <3>3 DEF MergeInv
  <2>2. CASE Merging!InventoryMergeNext
    BY <2>2, MergeKeeps DEF Merging!InventoryMergeNext
  <2>3. QED
    BY <2>1, <2>2
<1>2. MergeInv => Merging!RowOrderFree
  BY DEF MergeInv, Merging!RowOrderFree, LangsRead, SaysRead, IsLeft
<1>3. QED
  BY <1>1, <1>2, MergeStarts, PTL DEF Merging!InventoryMergeSpec

-----------------------------------------------------------------------------
(* Conversations: the map keyed by alias is a set of conversations.        *)

Items(s) == {s[i] : i \in DOMAIN s}

OneEach(s) == \A i, j \in DOMAIN s : s[i] = s[j] => i = j

(* The loop over one group, as far as its first ids.                       *)
Joining(keys, group, m, f) ==
  f = [n \in 0 .. m |-> IF n = 0 THEN keys
                        ELSE IF group[n] \in Turns!Range(f[n - 1]) THEN f[n - 1]
                        ELSE Append(f[n - 1], group[n])]

LEMMA JoiningGoesOn ==
  ASSUME NEW keys, NEW group, NEW m \in Nat
  PROVE  \E f : Joining(keys, group, m, f)
<1> DEFINE Bad == {k \in Nat : ~ \E f : Joining(keys, group, k, f)}
<1>1. SUFFICES ASSUME Bad # {} PROVE FALSE
  OBVIOUS
<1>2. PICK k \in Bad : \A j \in Bad : k <= j
  <2> HIDE DEF Bad
  <2>1. Bad \subseteq Nat
    BY DEF Bad
  <2>2. QED
    BY <1>1, <2>1, LeastNumber
<1>3. CASE k = 0
  <2> DEFINE f == [n \in 0 .. 0 |-> keys]
  <2>1. Joining(keys, group, 0, f)
    BY DEF Joining
  <2>2. QED
    BY <1>2, <1>3, <2>1
<1>4. CASE k # 0
  <2>1. k - 1 \in Nat /\ k - 1 \notin Bad
    BY <1>2, <1>4
  <2>2. PICK f : Joining(keys, group, k - 1, f)
    BY <2>1
  <2> DEFINE next == IF group[k] \in Turns!Range(f[k - 1]) THEN f[k - 1] ELSE Append(f[k - 1], group[k])
             g == [n \in 0 .. k |-> IF n = k THEN next ELSE f[n]]
  <2>3. \A n \in 0 .. k - 1 : f[n] = IF n = 0 THEN keys
                        ELSE IF group[n] \in Turns!Range(f[n - 1]) THEN f[n - 1]
                        ELSE Append(f[n - 1], group[n])
    BY <2>2 DEF Joining
  <2>4. /\ g = [n \in 0 .. k |-> g[n]] /\ g[k] = next /\ \A n \in 0 .. k - 1 : g[n] = f[n]
        /\ k - 1 \in 0 .. k - 1 /\ \A n \in 0 .. k : n = k \/ n \in 0 .. k - 1
        /\ \A n \in 0 .. k - 1 : n # 0 => n - 1 \in 0 .. k - 1
    BY <1>2, <2>1
  <2> HIDE DEF g
  <2>5. ASSUME NEW n \in 0 .. k
        PROVE  g[n] = IF n = 0 THEN keys
                      ELSE IF group[n] \in Turns!Range(g[n - 1]) THEN g[n - 1]
                      ELSE Append(g[n - 1], group[n])
    <3>1. CASE n = k
      BY <1>4, <2>4, <3>1
    <3>2. CASE n \in 0 .. k - 1
      BY <2>3, <2>4, <3>2
    <3>3. QED
      BY <2>4, <3>1, <3>2
  <2>6. Joining(keys, group, k, g)
    BY <2>4, <2>5 DEF Joining
  <2>7. QED
    BY <1>2, <2>6
<1>5. QED
  BY <1>3, <1>4

(* What the loop leaves: every id of both, once, and the first ones first. *)
LEMMA JoinedHasAll ==
  ASSUME NEW S, NEW keys \in Seq(S), NEW group \in Seq(S), OneEach(keys)
  PROVE  /\ Turns!Joined(keys, group) \in Seq(S)
         /\ Items(Turns!Joined(keys, group)) = Items(keys) \cup Items(group)
         /\ OneEach(Turns!Joined(keys, group))
         /\ Len(keys) <= Len(Turns!Joined(keys, group))
         /\ \A i \in 1 .. Len(keys) : Turns!Joined(keys, group)[i] = keys[i]
<1> DEFINE N == Len(group)
<1>1. N \in Nat
  OBVIOUS
<1>2. \E f : Joining(keys, group, N, f)
  BY <1>1, JoiningGoesOn
<1>3. PICK f : Joining(keys, group, N, f) /\ Turns!Joined(keys, group) = f[N]
  <2> DEFINE F == CHOOSE f : Joining(keys, group, N, f)
  <2>1. Joining(keys, group, N, F)
    BY <1>2
  <2>2. Turns!Joined(keys, group) = F[N]
    BY DEF Turns!Joined, Joining
  <2>3. QED
    BY <2>1, <2>2
<1>4. /\ f[0] = keys
      /\ \A n \in 1 .. N : f[n] = IF group[n] \in Items(f[n - 1]) THEN f[n - 1]
                                  ELSE Append(f[n - 1], group[n])
  <2>1. \A n \in 0 .. N : f[n] = IF n = 0 THEN keys
                              ELSE IF group[n] \in Turns!Range(f[n - 1]) THEN f[n - 1]
                              ELSE Append(f[n - 1], group[n])
    BY <1>3, Zenon DEF Joining
  <2>2. 0 \in 0 .. N /\ \A n \in 1 .. N : n \in 0 .. N /\ n # 0
    BY <1>1
  <2>3. \A s : Turns!Range(s) = Items(s)
    BY DEF Turns!Range, Items
  <2>4. QED
    BY <2>1, <2>2, <2>3, Zenon
<1> DEFINE Good(n) == /\ f[n] \in Seq(S)
                      /\ Items(f[n]) = Items(keys) \cup {group[i] : i \in 1 .. n}
                      /\ OneEach(f[n]) /\ Len(keys) <= Len(f[n])
                      /\ \A i \in 1 .. Len(keys) : f[n][i] = keys[i]
           Bad == {n \in 0 .. N : ~ Good(n)}
<1>5. Good(0)
  BY <1>4
<1>6. ASSUME NEW n \in 1 .. N, Good(n - 1) PROVE Good(n)
  <2> DEFINE p == f[n - 1]
             g == group[n]
  <2>1. /\ p \in Seq(S) /\ g \in S /\ OneEach(p) /\ Len(keys) <= Len(p)
        /\ Items(p) = Items(keys) \cup {group[i] : i \in 1 .. n - 1}
        /\ \A i \in 1 .. Len(keys) : p[i] = keys[i]
        /\ f[n] = IF g \in Items(p) THEN p ELSE Append(p, g)
    BY <1>1, <1>4, <1>6
  <2>2. {group[i] : i \in 1 .. n} = {group[i] : i \in 1 .. n - 1} \cup {g}
    <3>1. \A i \in 1 .. n : i = n \/ i \in 1 .. n - 1
      BY <1>1
    <3>2. n \in 1 .. n /\ \A i \in 1 .. n - 1 : i \in 1 .. n
      BY <1>1
    <3>3. QED
      BY <3>1, <3>2
  <2> HIDE DEF p, g
  <2>3. CASE g \in Items(p)
    BY <2>1, <2>2, <2>3
  <2>4. CASE g \notin Items(p)
    <3>1. /\ f[n] \in Seq(S) /\ Len(f[n]) = Len(p) + 1 /\ f[n][Len(p) + 1] = g
          /\ DOMAIN f[n] = DOMAIN p \cup {Len(p) + 1} /\ Len(p) + 1 \notin DOMAIN p
          /\ \A i \in DOMAIN p : f[n][i] = p[i]
      BY <2>1, <2>4
    <3>2. Items(f[n]) = Items(p) \cup {g}
      BY <3>1 DEF Items
    <3>3. OneEach(f[n])
      BY <2>1, <2>4, <3>1 DEF OneEach, Items
    <3>4. Len(keys) <= Len(f[n]) /\ \A i \in 1 .. Len(keys) : f[n][i] = keys[i]
      BY <2>1, <3>1
    <3>5. QED
      BY <2>1, <2>2, <3>1, <3>2, <3>3, <3>4
  <2>5. QED
    BY <2>3, <2>4
<1>7. Good(N)
  <2>1. SUFFICES ASSUME Bad # {} PROVE FALSE
    <3>1. N \in 0 .. N
      BY <1>1
    <3> HIDE DEF Good
    <3>2. QED
      BY <3>1
  <2>2. PICK n \in Bad : \A j \in Bad : n <= j
    <3>1. Bad \subseteq Nat
      BY <1>1
    <3> HIDE DEF Bad
    <3>2. QED
      BY <2>1, <3>1, LeastNumber
  <2>3. n # 0 /\ n \in 0 .. N /\ ~ Good(n)
    BY <1>5, <2>2
  <2>4. n \in 1 .. N /\ n - 1 \in 0 .. N /\ ~ (n <= n - 1)
    BY <1>1, <2>3
  <2> HIDE DEF Good
  <2>5. Good(n - 1)
    BY <2>2, <2>4
  <2>6. QED
    BY <1>6, <2>3, <2>4, <2>5
<1>8. {group[i] : i \in 1 .. N} = Items(group)
  BY DEF Items
<1>9. QED
  BY <1>3, <1>7, <1>8

Class(store, a) == {i \in DOMAIN store : store[i].inserted = store[a].inserted}

Conv(store, a) == [ids |-> Class(store, a), carry |-> store[a].kept, turn |-> store[a].inserted]

(* The conversations a map is of.                                          *)
HeldBy(store) == {Conv(store, a) : a \in DOMAIN store}

(* The ids of a conversation are those of the group in each of its         *)
(* entries, which are all the same.                                        *)
EntryOK(store, a, bound) ==
  /\ store[a].inserted \in Nat /\ store[a].inserted < bound
  /\ store[a].group \in Seq(SessionIds) /\ OneEach(store[a].group)
  /\ Items(store[a].group) = Class(store, a)
  /\ store[a].kept \in Carries \ {Nothing}
  /\ \A i \in Class(store, a) : store[i] = store[a]

StoreOK(store, bound) ==
  /\ DOMAIN store \subseteq SessionIds /\ IsFiniteSet(DOMAIN store)
  /\ \A a \in DOMAIN store : EntryOK(store, a, bound)

(* What is true of a store's conversations.                                *)
LEMMA HeldApart ==
  ASSUME NEW store, NEW bound, StoreOK(store, bound)
  PROVE  /\ \A a \in DOMAIN store : a \in Class(store, a) /\ Class(store, a) \subseteq DOMAIN store
         /\ \A a \in DOMAIN store : \A i \in Class(store, a) : Conv(store, i) = Conv(store, a)
         /\ \A c \in HeldBy(store) : c.turn \in Nat /\ c.turn < bound /\ c.ids # {}
         /\ \A c \in HeldBy(store) : \A a \in c.ids : a \in DOMAIN store /\ c = Conv(store, a)
         /\ \A c, d \in HeldBy(store) : c.turn = d.turn => c = d
<1>1. \A a \in DOMAIN store : a \in Class(store, a) /\ Class(store, a) \subseteq DOMAIN store
  BY DEF Class
<1>2. ASSUME NEW a \in DOMAIN store, NEW i \in DOMAIN store, store[i].inserted = store[a].inserted
      PROVE  Conv(store, i) = Conv(store, a)
  <2>1. Class(store, i) = Class(store, a) /\ i \in Class(store, a)
    BY <1>2 DEF Class
  <2>2. store[i] = store[a]
    BY <2>1 DEF StoreOK, EntryOK
  <2>3. QED
    BY <2>1, <2>2 DEF Conv
<1>3. \A a \in DOMAIN store : \A i \in Class(store, a) : Conv(store, i) = Conv(store, a)
  BY <1>2 DEF Class
<1>4. \A c \in HeldBy(store) : c.turn \in Nat /\ c.turn < bound /\ c.ids # {}
  BY <1>1 DEF HeldBy, Conv, StoreOK, EntryOK
<1>5. \A c \in HeldBy(store) : \A a \in c.ids : a \in DOMAIN store /\ c = Conv(store, a)
  <2>1. TAKE c \in HeldBy(store)
  <2>2. TAKE a \in c.ids
  <2>3. PICK b \in DOMAIN store : c = Conv(store, b)
    BY DEF HeldBy
  <2>4. a \in Class(store, b)
    BY <2>3 DEF Conv
  <2>5. QED
    BY <1>1, <1>3, <2>3, <2>4
<1>6. \A c, d \in HeldBy(store) : c.turn = d.turn => c = d
  BY <1>2 DEF HeldBy, Conv
<1>7. QED
  BY <1>1, <1>3, <1>4, <1>5, <1>6

Untouched(store, ids) == {c \in HeldBy(store) : c.ids \cap ids = {}}

Whole(store, ids) == \A a \in DOMAIN store \cap ids : Class(store, a) \subseteq ids

(* Conversations that go whole leave the others as they were.              *)
LEMMA WithoutWhole ==
  ASSUME NEW store, NEW bound, StoreOK(store, bound), NEW ids, Whole(store, ids)
  PROVE  /\ StoreOK(Turns!Without(store, ids), bound)
         /\ DOMAIN Turns!Without(store, ids) = DOMAIN store \ ids
         /\ HeldBy(Turns!Without(store, ids)) = Untouched(store, ids)
<1> DEFINE rest == Turns!Without(store, ids)
<1>1. DOMAIN rest = DOMAIN store \ ids /\ \A a \in DOMAIN rest : rest[a] = store[a]
  BY DEF Turns!Without
<1> HIDE DEF rest
<1>2. ASSUME NEW a \in DOMAIN store \ ids PROVE Class(store, a) \cap ids = {}
  <2>1. SUFFICES ASSUME NEW i \in Class(store, a), i \in ids PROVE FALSE
    OBVIOUS
  <2>2. i \in DOMAIN store /\ a \in Class(store, i)
    BY DEF Class
  <2>3. QED
    BY <2>1, <2>2 DEF Whole
<1>3. \A a \in DOMAIN rest : Class(rest, a) = Class(store, a)
  BY <1>1, <1>2 DEF Class
<1>4. \A a \in DOMAIN rest : Conv(rest, a) = Conv(store, a)
  BY <1>1, <1>3 DEF Conv
<1>5. StoreOK(rest, bound)
  <2>1. DOMAIN rest \in SUBSET (DOMAIN store) /\ IsFiniteSet(DOMAIN store)
    BY <1>1 DEF StoreOK
  <2>2. IsFiniteSet(DOMAIN rest)
    BY <2>1, FS_Subset
  <2>3. ASSUME NEW a \in DOMAIN rest PROVE EntryOK(rest, a, bound)
    <3>1. EntryOK(store, a, bound) /\ rest[a] = store[a] /\ Class(rest, a) = Class(store, a)
      BY <1>1, <1>3 DEF StoreOK
    <3>2. \A i \in Class(rest, a) : rest[i] = store[i]
      BY <1>1 DEF Class
    <3>3. QED
      BY <3>1, <3>2 DEF EntryOK
  <2>4. QED
    BY <2>1, <2>2, <2>3 DEF StoreOK
<1>6. HeldBy(rest) = Untouched(store, ids)
  <2>1. ASSUME NEW a \in DOMAIN rest
        PROVE  Conv(rest, a) \in HeldBy(store) /\ Conv(rest, a).ids \cap ids = {}
    BY <1>1, <1>2, <1>4 DEF HeldBy, Conv
  <2>2. ASSUME NEW a \in DOMAIN store, Conv(store, a).ids \cap ids = {}
        PROVE  Conv(store, a) \in HeldBy(rest)
    <3>1. a \in Conv(store, a).ids
      BY DEF Conv, Class
    <3>2. a \in DOMAIN rest
      BY <1>1, <2>2, <3>1
    <3>3. QED
      BY <1>4, <3>2 DEF HeldBy
  <2>3. QED
    BY <2>1, <2>2 DEF HeldBy, Untouched
<1>7. QED
  BY <1>1, <1>5, <1>6 DEF rest

Adds(store, rest, group, carry, turn) ==
  /\ Items(group) # {} /\ Items(group) \cap DOMAIN rest = {}
  /\ DOMAIN store = DOMAIN rest \cup Items(group)
  /\ \A a \in DOMAIN rest : store[a] = rest[a]
  /\ \A a \in Items(group) : store[a] = [inserted |-> turn, group |-> group, kept |-> carry]

Added(group, carry, turn) == [ids |-> Items(group), carry |-> carry, turn |-> turn]

(* The conversation of the turn that has ended comes beside the others.    *)
LEMMA OneMore ==
  ASSUME NEW rest, NEW turn \in Nat, StoreOK(rest, turn), NEW carry \in Carries \ {Nothing},
         NEW group \in Seq(SessionIds), OneEach(group), NEW store, Adds(store, rest, group, carry, turn)
  PROVE  /\ StoreOK(store, turn + 1)
         /\ HeldBy(store) = HeldBy(rest) \cup {Added(group, carry, turn)}
<1> DEFINE G == Items(group)
<1>1. \A a \in DOMAIN rest : rest[a].inserted \in Nat /\ rest[a].inserted < turn
  BY DEF StoreOK, EntryOK
<1>2. \A a \in G : store[a].inserted = turn /\ store[a].group = group /\ store[a].kept = carry
  BY DEF Adds
<1>0. /\ DOMAIN store = DOMAIN rest \cup G /\ G \cap DOMAIN rest = {} /\ G # {}
      /\ \A a \in DOMAIN rest : store[a] = rest[a]
  BY DEF Adds
<1> HIDE DEF G
<1>3. /\ \A a \in G : Class(store, a) = G
      /\ \A a \in DOMAIN rest : Class(store, a) = Class(rest, a)
  <2>1. DOMAIN store = DOMAIN rest \cup G /\ G \cap DOMAIN rest = {}
    BY <1>0
  <2>2. \A a \in DOMAIN rest : store[a].inserted = rest[a].inserted /\ store[a].inserted # turn
    BY <1>0, <1>1
  <2>3. \A a \in DOMAIN rest : {i \in DOMAIN store : store[i].inserted = store[a].inserted}
                               = {i \in DOMAIN rest : rest[i].inserted = rest[a].inserted}
    BY <1>2, <2>1, <2>2
  <2>4. \A a \in G : {i \in DOMAIN store : store[i].inserted = store[a].inserted} = G
    BY <1>2, <2>1, <2>2
  <2>5. QED
    BY <2>3, <2>4 DEF Class
<1>4. \A a \in DOMAIN rest : Conv(store, a) = Conv(rest, a)
  BY <1>0, <1>3 DEF Conv
<1>5. \A a \in G : Conv(store, a) = [ids |-> G, carry |-> carry, turn |-> turn]
  BY <1>2, <1>3 DEF Conv
<1>6. DOMAIN store = DOMAIN rest \cup G /\ G # {}
  BY <1>0
<1>7. HeldBy(store) = HeldBy(rest) \cup {[ids |-> G, carry |-> carry, turn |-> turn]}
  BY <1>4, <1>5, <1>6 DEF HeldBy
<1>8. DOMAIN store \subseteq SessionIds /\ IsFiniteSet(DOMAIN store)
  <2>1. G = {group[i] : i \in 1 .. Len(group)} /\ G \subseteq SessionIds /\ Len(group) \in Nat
    BY DEF G, Items
  <2> DEFINE n == Len(group)
  <2>2. IsFiniteSet(1 .. n)
    <3>1. 1 \in Int /\ n \in Int
      BY <2>1
    <3> HIDE DEF n
    <3>2. QED
      BY <3>1, FS_Interval, Zenon
  <2>3. group \in Surjection(1 .. n, G)
    BY <2>1 DEF Surjection
  <2>4. IsFiniteSet(G)
    BY <2>2, <2>3, FS_Surjection
  <2>5. DOMAIN rest \subseteq SessionIds /\ IsFiniteSet(DOMAIN rest)
    BY DEF StoreOK
  <2>6. QED
    <3>1. IsFiniteSet(DOMAIN rest \cup G)
      BY <2>4, <2>5, FS_Union
    <3>2. QED
      BY <1>6, <2>1, <2>5, <3>1, Zenon
<1>9. ASSUME NEW a \in DOMAIN store PROVE EntryOK(store, a, turn + 1)
  <2>1. CASE a \in G
    <3>1. Items(group) = Class(store, a) /\ \A i \in Class(store, a) : store[i] = store[a]
      BY <1>3, <2>1 DEF G, Adds
    <3>2. QED
      BY <1>2, <2>1, <3>1 DEF EntryOK
  <2>2. CASE a \in DOMAIN rest
    <3>1. /\ EntryOK(rest, a, turn) /\ store[a] = rest[a] /\ Class(store, a) = Class(rest, a)
          /\ \A i \in Class(rest, a) : store[i] = rest[i]
      BY <1>0, <1>3, <2>2 DEF StoreOK, Class
    <3>2. QED
      BY <3>1 DEF EntryOK
  <2>3. QED
    BY <1>6, <2>1, <2>2
<1>10. QED
  BY <1>7, <1>8, <1>9 DEF StoreOK, G, Added

LEMMA CountsAreTheSame ==
  /\ \A S : Turns!Cardinality(S) = Cardinality(S)
  /\ \A S : Turns!Memory!Cardinality(S) = Cardinality(S)
  /\ \A s : Turns!Range(s) = Items(s)
  BY DEF Turns!Cardinality, Turns!Memory!Cardinality, Cardinality, Turns!Range, Items

LEMMA ItemsAreCounted ==
  ASSUME NEW S, NEW s \in Seq(S), OneEach(s)
  PROVE  Cardinality(Items(s)) = Len(s)
<1> DEFINE n == Len(s)
<1>1. n \in Nat
  OBVIOUS
<1>2. s \in Bijection(1 .. n, Items(s))
  <2>1. s \in [1 .. n -> Items(s)] /\ \A t \in Items(s) : \E i \in 1 .. n : s[i] = t
    BY DEF Items
  <2>2. IsInjective(s)
    BY DEF OneEach, IsInjective
  <2>3. QED
    BY <2>1, <2>2 DEF Bijection, Injection, Surjection
<1>3. ExistsBijection(1 .. n, Items(s))
  BY <1>2 DEF ExistsBijection
<1> HIDE DEF n
<1>4. Cardinality(Items(s)) = n
  BY <1>1, <1>3, FS_CountingElements
<1>5. QED
  BY <1>4 DEF n

(* The first ids, as many as a group may have.                             *)
LEMMA FirstIds ==
  ASSUME NEW S, NEW s \in Seq(S), OneEach(s), NEW m \in 0 .. Len(s)
  PROVE  /\ SubSeq(s, 1, m) \in Seq(S) /\ Cardinality(Items(SubSeq(s, 1, m))) = m
         /\ Items(SubSeq(s, 1, m)) = {s[i] : i \in 1 .. m}
         /\ Items(SubSeq(s, 1, m)) \subseteq Items(s) /\ OneEach(SubSeq(s, 1, m))
<1> DEFINE t == SubSeq(s, 1, m)
<1>1. /\ t \in Seq(S) /\ Len(t) = m /\ DOMAIN t = 1 .. m /\ DOMAIN s = 1 .. Len(s)
      /\ \A i \in 1 .. m : t[i] = s[i] /\ i \in 1 .. Len(s)
  OBVIOUS
<1> HIDE DEF t
<1>2. Items(t) = {s[i] : i \in 1 .. m} /\ Items(t) \subseteq Items(s)
  BY <1>1 DEF Items
<1>3. OneEach(t)
  BY <1>1 DEF OneEach
<1>4. Cardinality(Items(t)) = m
  BY <1>1, <1>3, ItemsAreCounted
<1>5. QED
  BY <1>1, <1>2, <1>3, <1>4 DEF t

(* The ids of the conversation that goes by one.                           *)
Reach(a) == IF a \in DOMAIN conversations THEN Class(conversations, a) ELSE {}

LEMMA ReachedHasAll ==
  ASSUME StoreOK(conversations, sequence), NEW keys \in Seq(SessionIds), OneEach(keys), NEW a
  PROVE  /\ Turns!Reached(keys, a) \in Seq(SessionIds) /\ OneEach(Turns!Reached(keys, a))
         /\ Items(Turns!Reached(keys, a)) = Items(keys) \cup Reach(a)
         /\ Len(keys) <= Len(Turns!Reached(keys, a))
         /\ \A i \in 1 .. Len(keys) : Turns!Reached(keys, a)[i] = keys[i]
<1>1. CASE a \in DOMAIN conversations
  <2> DEFINE group == conversations[a].group
  <2>1. /\ Turns!Reached(keys, a) = Turns!Joined(keys, group) /\ group \in Seq(SessionIds)
        /\ Items(group) = Reach(a)
    BY <1>1 DEF Turns!Reached, StoreOK, EntryOK, Reach
  <2> HIDE DEF group
  <2>2. QED
    BY <2>1, JoinedHasAll
<1>2. CASE a \notin DOMAIN conversations
  BY <1>2 DEF Turns!Reached, Reach
<1>3. QED
  BY <1>1, <1>2

(* A turn takes over all it reaches, its own ids first.                    *)
Used(asked, answered) == IF asked = answered THEN <<asked>> ELSE <<asked, answered>>

Keys(asked, answered) == Turns!TakenOver(Used(asked, answered))

Group(asked, answered) ==
  SubSeq(Keys(asked, answered), 1,
         IF Len(Keys(asked, answered)) > MaxAliases THEN MaxAliases ELSE Len(Keys(asked, answered)))

LEMMA AllTakenOver ==
  ASSUME StoreOK(conversations, sequence), NEW asked \in SessionIds, NEW answered \in SessionIds
  PROVE  /\ Keys(asked, answered) \in Seq(SessionIds) /\ OneEach(Keys(asked, answered))
         /\ Items(Keys(asked, answered)) = {asked, answered} \cup Reach(asked) \cup Reach(answered)
         /\ Keys(asked, answered)[1] = asked /\ Len(Keys(asked, answered)) >= 1
         /\ asked # answered => Keys(asked, answered)[2] = answered /\ Len(Keys(asked, answered)) >= 2
<1> DEFINE keys == Keys(asked, answered)
           used == Used(asked, answered)
           once == Turns!Reached(used, used[1])
<1>1. /\ used \in Seq(SessionIds) /\ OneEach(used) /\ Items(used) = {asked, answered}
      /\ used[1] = asked /\ used[Len(used)] = answered /\ Len(used) >= 1 /\ Len(used) \in Nat
      /\ asked # answered => used[2] = answered /\ Len(used) >= 2
  <2>1. CASE asked = answered
    BY <2>1 DEF Used, OneEach, Items
  <2>2. CASE asked # answered
    <3>1. used = <<asked, answered>>
      BY <2>2 DEF Used
    <3> HIDE DEF used
    <3>2. /\ used \in Seq(SessionIds) /\ Len(used) = 2 /\ used[1] = asked /\ used[2] = answered
          /\ DOMAIN used = {1, 2}
      BY <3>1
    <3>3. OneEach(used) /\ Items(used) = {asked, answered}
      BY <2>2, <3>2 DEF OneEach, Items
    <3>4. QED
      BY <2>2, <3>2, <3>3
  <2>3. QED
    BY <2>1, <2>2
<1>2. keys = Turns!Reached(once, used[Len(used)])
  BY DEF Turns!TakenOver, Keys
<1> HIDE DEF used, keys
<1>3. /\ once \in Seq(SessionIds) /\ OneEach(once) /\ Items(once) = Items(used) \cup Reach(used[1])
      /\ Len(used) <= Len(once) /\ \A i \in 1 .. Len(used) : once[i] = used[i]
  BY <1>1, ReachedHasAll
<1> HIDE DEF once
<1>4. /\ keys \in Seq(SessionIds) /\ OneEach(keys)
      /\ Items(keys) = Items(once) \cup Reach(used[Len(used)])
      /\ Len(once) <= Len(keys) /\ \A i \in 1 .. Len(once) : keys[i] = once[i]
  BY <1>2, <1>3, ReachedHasAll
<1>5. Items(keys) = {asked, answered} \cup Reach(asked) \cup Reach(answered)
  BY <1>1, <1>3, <1>4
<1>6. \A i \in 1 .. Len(used) : keys[i] = used[i] /\ i <= Len(keys)
  <2>1. TAKE i \in 1 .. Len(used)
  <2>2. i \in 1 .. Len(once) /\ Len(once) \in Nat /\ Len(keys) \in Nat
    BY <1>1, <1>3, <1>4
  <2>3. QED
    BY <1>3, <1>4, <2>2
<1>7. /\ keys[1] = asked /\ Len(keys) >= 1
      /\ asked # answered => keys[2] = answered /\ Len(keys) >= 2
  <2>1. 1 \in 1 .. Len(used) /\ Len(keys) \in Nat
    BY <1>1, <1>4
  <2>2. asked # answered => 2 \in 1 .. Len(used)
    BY <1>1
  <2>3. QED
    BY <1>1, <1>6, <2>1, <2>2
<1>8. QED
  BY <1>4, <1>5, <1>7 DEF keys

Others(held, used) == held \ {c \in held : c.ids \cap used # {}}

Known(held, used) == used \cup UNION {c.ids : c \in {c \in held : c.ids \cap used # {}}}

(* What is known by the ids of a turn is what the conversations it         *)
(* continues are known by.                                                 *)
LEMMA KnownTakenOver ==
  ASSUME StoreOK(conversations, sequence), NEW used, NEW all,
         all = used \cup UNION {Reach(a) : a \in used}
  PROVE  /\ all = Known(HeldBy(conversations), used) /\ Whole(conversations, all)
         /\ Untouched(conversations, all) = Others(HeldBy(conversations), used)
<1> DEFINE H == HeldBy(conversations)
           D == DOMAIN conversations
<1>1. /\ \A a \in D : a \in Class(conversations, a) /\ Class(conversations, a) \subseteq D
      /\ \A c \in H : \A a \in c.ids : a \in D /\ c = Conv(conversations, a)
      /\ \A a \in D : Conv(conversations, a) \in H /\ Conv(conversations, a).ids = Class(conversations, a)
      /\ \A a \in D : \A b \in Class(conversations, a) : Conv(conversations, b) = Conv(conversations, a)
  BY HeldApart DEF HeldBy, Conv
<1> HIDE DEF H, D
<1>2. \A a \in D : Reach(a) = Class(conversations, a)
  BY DEF Reach, D
<1>3. \A a : a \notin D => Reach(a) = {}
  BY DEF Reach, D
<1>4. \A a \in used : \A b \in Reach(a) :
         \E c \in H : b \in c.ids /\ c.ids \cap used # {}
  <2>1. TAKE a \in used
  <2>2. TAKE b \in Reach(a)
  <2>3. a \in D /\ b \in Class(conversations, a)
    BY <1>2, <1>3
  <2>4. /\ Conv(conversations, a) \in H /\ b \in Conv(conversations, a).ids
        /\ a \in Conv(conversations, a).ids \cap used
    BY <1>1, <2>3
  <2>5. QED
    BY <2>4
<1>5. \A c \in H : c.ids \cap used # {} => \E a \in used : c.ids = Reach(a)
  BY <1>1, <1>2
<1>6. all = Known(H, used)
  BY <1>4, <1>5 DEF Known
<1>7. \A a \in D \cap all : Class(conversations, a) \subseteq all
  <2>1. TAKE a \in D \cap all
  <2>2. PICK b \in used : b \in D /\ a \in Class(conversations, b)
    BY <1>1, <1>2, <1>3, <2>1
  <2>3. Class(conversations, a) = Class(conversations, b)
    BY <1>1, <2>1, <2>2
  <2>4. QED
    BY <1>2, <2>2, <2>3
<1>8. \A c \in H : c.ids \cap all = {} <=> c.ids \cap used = {}
  <2>1. ASSUME NEW c \in H, c.ids \cap used = {}, NEW a \in c.ids, a \in all PROVE FALSE
    <3>1. PICK b \in used : b \in D /\ a \in Class(conversations, b)
      BY <1>2, <1>3, <2>1
    <3>2. c = Conv(conversations, a) /\ Conv(conversations, a) = Conv(conversations, b)
      BY <1>1, <2>1, <3>1
    <3>3. b \in c.ids
      BY <1>1, <3>1, <3>2
    <3>4. QED
      BY <2>1, <3>1, <3>3
  <2>2. QED
    BY <2>1
<1>9. QED
  BY <1>6, <1>7, <1>8 DEF H, D, Whole, Untouched, Others

(* The store has as many conversations as turns, and when that is one too  *)
(* many the oldest goes whole.                                             *)
LEMMA OldestGoes ==
  ASSUME NEW store, NEW bound \in Nat, StoreOK(store, bound)
  PROVE  /\ Cardinality(HeldBy(store)) \in Nat
         /\ Cardinality(HeldBy(store)) <= MaxConversations => Turns!Evicted(store) = store
         /\ Cardinality(HeldBy(store)) > MaxConversations =>
               \E c \in HeldBy(store) :
                  /\ StoreOK(Turns!Evicted(store), bound)
                  /\ HeldBy(Turns!Evicted(store)) = HeldBy(store) \ {c}
                  /\ \A d \in HeldBy(store) : c.turn <= d.turn
                  /\ \E d \in HeldBy(store) : d # c
<1> DEFINE H == HeldBy(store)
           D == DOMAIN store
           T == Turns!Distinct(store)
<1>1. MaxConversations \in Nat \ {0}
  BY ComponentAssumptions DEF Turns!ConversationsAssumption
<1>2. /\ IsFiniteSet(D) /\ \A c, d \in H : c.turn = d.turn => c = d
      /\ \A c \in H : c.turn \in Nat
  BY HeldApart DEF StoreOK
<1>3. H = {Conv(store, a) : a \in D} /\ T = {store[a].inserted : a \in D}
  BY DEF HeldBy, Turns!Distinct
<1>4. \A a \in D : Conv(store, a).turn = store[a].inserted /\ Conv(store, a).ids = Class(store, a)
  BY DEF Conv
<1> HIDE DEF H, D, T
<1>5. IsFiniteSet(H)
  <2> DEFINE f == [a \in D |-> Conv(store, a)]
  <2>1. f \in Surjection(D, H)
    BY <1>3 DEF Surjection
  <2> HIDE DEF f
  <2>2. QED
    BY <1>2, <2>1, FS_Surjection
<1>6. Cardinality(T) = Cardinality(H) /\ Cardinality(H) \in Nat
  <2> DEFINE f == [c \in H |-> c.turn]
  <2>1. f \in [H -> T] /\ \A t \in T : \E c \in H : f[c] = t
    BY <1>3, <1>4
  <2>2. \A c, d \in H : f[c] = f[d] => c = d
    BY <1>2
  <2> HIDE DEF f
  <2>3. f \in Bijection(H, T)
    BY <2>1, <2>2 DEF Bijection, Injection, Surjection, IsInjective
  <2>4. ExistsBijection(H, T)
    BY <2>3 DEF ExistsBijection
  <2>5. Cardinality(T) = Cardinality(H)
    BY <1>5, <2>4, FS_Bijection
  <2>6. QED
    BY <1>5, <2>5, FS_CardinalityType
<1>7. Cardinality(H) <= MaxConversations => Turns!Evicted(store) = store
  BY <1>6, CountsAreTheSame DEF Turns!Evicted, T
<1>8. ASSUME Cardinality(H) > MaxConversations
      PROVE  \E c \in H : /\ StoreOK(Turns!Evicted(store), bound)
                          /\ HeldBy(Turns!Evicted(store)) = H \ {c}
                          /\ \A d \in H : c.turn <= d.turn
                          /\ \E d \in H : d # c
  <2>1. H # {}
    BY <1>1, <1>6, <1>8, FS_EmptySet
  <2>2. T # {} /\ T \subseteq Nat
    BY <1>2, <1>3, <1>4, <2>1
  <2>3. PICK t \in T : \A u \in T : t <= u
    BY <2>2, LeastNumber
  <2> DEFINE IsOldest(a) == \A other \in DOMAIN store : store[a].inserted <= store[other].inserted
             old == CHOOSE a \in DOMAIN store : IsOldest(a)
  <2>4. \E a \in DOMAIN store : IsOldest(a)
    BY <1>3, <2>3 DEF D
  <2>5. old \in D /\ IsOldest(old)
    BY <2>4 DEF D
  <2>6. Turns!Evicted(store) = Turns!Without(store, Turns!Range(store[old].group))
    <3>1. ~ (Turns!Cardinality(T) <= MaxConversations)
      BY <1>1, <1>6, <1>8, CountsAreTheSame
    <3>2. QED
      BY <3>1, Zenon DEF Turns!Evicted, T
  <2> HIDE DEF old
  <2>7. Turns!Range(store[old].group) = Class(store, old)
    BY <2>5, CountsAreTheSame DEF StoreOK, EntryOK, D
  <2> DEFINE C == Class(store, old)
             c == Conv(store, old)
  <2>8. Whole(store, C)
    BY DEF Class, Whole
  <2>9. /\ StoreOK(Turns!Evicted(store), bound)
        /\ HeldBy(Turns!Evicted(store)) = Untouched(store, C)
    <3> HIDE DEF C
    <3>1. /\ StoreOK(Turns!Without(store, C), bound)
          /\ HeldBy(Turns!Without(store, C)) = Untouched(store, C)
      BY <2>8, WithoutWhole
    <3>2. Turns!Evicted(store) = Turns!Without(store, C)
      BY <2>6, <2>7 DEF C
    <3>3. QED
      BY <3>1, <3>2
  <2>10. c \in H /\ c.ids = C /\ old \in C /\ \A d \in H : d.ids # {} /\ \A a \in d.ids : d = Conv(store, a)
    BY <1>3, <1>4, <2>5, HeldApart DEF H, D
  <2>11. \A d \in H : d.ids \cap C # {} => d = c
    BY <2>10
  <2>12. Untouched(store, C) = H \ {c}
    BY <2>10, <2>11 DEF Untouched, H
  <2>13. \A d \in H : c.turn <= d.turn
    BY <1>3, <1>4, <2>5 DEF D
  <2>14. \E d \in H : d # c
    <3>1. SUFFICES ASSUME H = {c} PROVE FALSE
      BY <2>10
    <3>2. Cardinality(H) = 1
      BY <3>1, FS_Singleton
    <3>3. QED
      BY <1>1, <1>8, <3>2
  <2>15. QED
    BY <2>9, <2>10, <2>12, <2>13, <2>14
<1>9. QED
  BY <1>6, <1>7, <1>8 DEF H

(* What ConversationSet says of a turn that ends and of one that is asked, *)
(* of the conversations a map is of.                                       *)
TurnLeaves(held, then, used, carry) ==
  IF carry = Nothing THEN then = Others(held, used)
  ELSE \E new \in then :
          /\ new.carry = carry /\ used \subseteq new.ids /\ new.ids \subseteq Known(held, used)
          /\ Cardinality(new.ids) = IF Cardinality(Known(held, used)) > MaxAliases THEN MaxAliases
                                    ELSE Cardinality(Known(held, used))
          /\ \A c \in held : c.turn < new.turn
          /\ then = IF Cardinality(Others(held, used) \cup {new}) > MaxConversations
                    THEN (Others(held, used) \cup {new}) \ {Turns!Memory!Oldest(Others(held, used) \cup {new})}
                    ELSE Others(held, used) \cup {new}

LEMMA LeavesAsTold ==
  ASSUME NEW used, NEW carry, TurnLeaves(HeldBy(conversations), HeldBy(conversations)', used, carry)
  PROVE  Turns!Memory!TurnEnds(used, carry)
  BY CountsAreTheSame
     DEF TurnLeaves, Others, Known, Turns!Memory!TurnEnds, HeldBy, Conv, Class

LEMMA AsksAsTold ==
  ASSUME NEW a, UNCHANGED conversations,
         carried' = IF \E c \in HeldBy(conversations) : a \in c.ids
                    THEN (CHOOSE c \in HeldBy(conversations) : a \in c.ids).carry ELSE Nothing
  PROVE  Turns!Memory!Asks(a)
  BY DEF Turns!Memory!Asks, HeldBy, Conv, Class

(* The conversation a turn leaves: its own ids first, then the inherited   *)
(* ones, as many as a group may have (remember_conversation).              *)
LEMMA GroupOfTurn ==
  ASSUME StoreOK(conversations, sequence), NEW asked \in SessionIds, NEW answered \in SessionIds
  PROVE  /\ Group(asked, answered) \in Seq(SessionIds) /\ OneEach(Group(asked, answered))
         /\ {asked, answered} \subseteq Items(Group(asked, answered))
         /\ Items(Group(asked, answered)) \subseteq Items(Keys(asked, answered))
         /\ Cardinality(Items(Group(asked, answered))) =
               IF Cardinality(Items(Keys(asked, answered))) > MaxAliases THEN MaxAliases
               ELSE Cardinality(Items(Keys(asked, answered)))
<1> DEFINE keys == Keys(asked, answered)
           group == Group(asked, answered)
           m == IF Len(keys) > MaxAliases THEN MaxAliases ELSE Len(keys)
<1>1. MaxAliases \in Nat \ {0, 1}
  BY ComponentAssumptions DEF Turns!ConversationsAssumption
<1>2. /\ keys \in Seq(SessionIds) /\ OneEach(keys) /\ Len(keys) \in Nat
      /\ keys[1] = asked /\ Len(keys) >= 1
      /\ asked # answered => keys[2] = answered /\ Len(keys) >= 2
  <2>1. /\ keys \in Seq(SessionIds) /\ OneEach(keys)
        /\ keys[1] = asked /\ Len(keys) >= 1
        /\ asked # answered => keys[2] = answered /\ Len(keys) >= 2
    BY AllTakenOver
  <2>2. QED
    BY <2>1
<1>3. Cardinality(Items(keys)) = Len(keys)
  BY <1>2, ItemsAreCounted
<1>4. m \in 0 .. Len(keys) /\ 1 \in 1 .. m /\ (asked # answered => 2 \in 1 .. m)
  BY <1>1, <1>2
<1> HIDE DEF m, keys, group
<1>5. /\ SubSeq(keys, 1, m) \in Seq(SessionIds) /\ Cardinality(Items(SubSeq(keys, 1, m))) = m
      /\ Items(SubSeq(keys, 1, m)) = {keys[i] : i \in 1 .. m}
      /\ Items(SubSeq(keys, 1, m)) \subseteq Items(keys) /\ OneEach(SubSeq(keys, 1, m))
  BY <1>2, <1>4, FirstIds
<1>6. group = SubSeq(keys, 1, m)
  BY DEF m, keys, group, Group
<1>7. {asked, answered} \subseteq Items(group)
  BY <1>2, <1>4, <1>5, <1>6
<1>8. Cardinality(Items(group)) = IF Cardinality(Items(keys)) > MaxAliases THEN MaxAliases
                                  ELSE Cardinality(Items(keys))
  BY <1>3, <1>5, <1>6 DEF m
<1>9. QED
  BY <1>5, <1>6, <1>7, <1>8 DEF keys, group

ConversationsInv == sequence \in Nat /\ StoreOK(conversations, sequence)

LEMMA RememberKeeps ==
  ASSUME ConversationsInv, NEW asked \in SessionIds, NEW answered \in SessionIds, NEW carry \in Carries,
         Turns!Remember(asked, answered, carry)
  PROVE  /\ ConversationsInv'
         /\ TurnLeaves(HeldBy(conversations), HeldBy(conversations)', {asked, answered}, carry)
<1> DEFINE used == {asked, answered}
           H == HeldBy(conversations)
           H2 == HeldBy(conversations')
           all == Items(Keys(asked, answered))
           group == Group(asked, answered)
           G == Items(group)
           rest == Turns!Without(conversations, all)
           entry == [inserted |-> sequence, group |-> group, kept |-> carry]
           store == [a \in DOMAIN rest \cup G |-> IF a \in G THEN entry ELSE rest[a]]
           others == Others(H, used)
           new == Added(group, carry, sequence)
           after == others \cup {new}
<1>1. StoreOK(conversations, sequence) /\ sequence \in Nat
  BY DEF ConversationsInv
<1>2. IF carry = Nothing THEN conversations' = rest /\ sequence' = sequence
      ELSE conversations' = Turns!Evicted(store) /\ sequence' = sequence + 1
  <2>1. \A s : Turns!Range(s) = Items(s)
    BY CountsAreTheSame
  <2>2. QED
    BY <2>1 DEF Turns!Remember, Used, Keys, Group
<1>3. all = used \cup UNION {Reach(a) : a \in used}
  <2>1. all = used \cup Reach(asked) \cup Reach(answered)
    BY <1>1, AllTakenOver
  <2> HIDE DEF all
  <2>2. QED
    BY <2>1
<1>4. /\ group \in Seq(SessionIds) /\ OneEach(group) /\ used \subseteq G /\ G \subseteq all /\ asked \in G
      /\ Cardinality(G) = IF Cardinality(all) > MaxAliases THEN MaxAliases ELSE Cardinality(all)
  BY <1>1, GroupOfTurn
<1> HIDE DEF all, group, used
<1>5. /\ all = Known(H, used) /\ Whole(conversations, all)
      /\ Untouched(conversations, all) = others
  BY <1>1, <1>3, KnownTakenOver
<1>6. /\ StoreOK(rest, sequence) /\ DOMAIN rest = DOMAIN conversations \ all
      /\ HeldBy(rest) = Untouched(conversations, all)
  BY <1>1, <1>5, WithoutWhole
<1>7. HeldBy(rest) = others
  BY <1>5, <1>6
<1>8. CASE carry = Nothing
  <2>1. conversations' = rest /\ sequence' = sequence
    BY <1>2, <1>8
  <2> HIDE DEF rest
  <2>2. HeldBy(conversations') = others
    BY <1>7, <2>1
  <2>3. TurnLeaves(H, H2, used, carry)
    BY <1>8, <2>2 DEF TurnLeaves
  <2>4. QED
    BY <1>1, <1>6, <2>1, <2>3 DEF ConversationsInv, used
<1>9. CASE carry # Nothing
  <2> HIDE DEF rest
  <2>1. Adds(store, rest, group, carry, sequence)
    <3>1. DOMAIN store = DOMAIN rest \cup G /\ G # {} /\ G \cap DOMAIN rest = {}
      BY <1>4, <1>6
    <3>2. \A a \in DOMAIN rest : store[a] = rest[a]
      BY <3>1
    <3>3. \A a \in G : store[a] = entry
      OBVIOUS
    <3> HIDE DEF store
    <3>4. QED
      BY <3>1, <3>2, <3>3 DEF Adds
  <2> HIDE DEF store
  <2>2. StoreOK(store, sequence + 1) /\ HeldBy(store) = HeldBy(rest) \cup {new}
    <3>1. carry \in Carries \ {Nothing} /\ group \in Seq(SessionIds) /\ OneEach(group) /\ sequence \in Nat
      BY <1>1, <1>4, <1>9
    <3>2. StoreOK(rest, sequence)
      BY <1>6
    <3>3. QED
      BY <2>1, <3>1, <3>2, OneMore
  <2>3. HeldBy(store) = after
    BY <1>7, <2>2
  <2>4. conversations' = Turns!Evicted(store) /\ sequence' = sequence + 1 /\ sequence + 1 \in Nat
    BY <1>1, <1>2, <1>9
  <2>5. \A c \in H : c.turn \in Nat /\ c.turn < sequence
    BY <1>1, HeldApart
  <2>6. /\ new.carry = carry /\ used \subseteq new.ids /\ new.ids \subseteq Known(H, used)
        /\ Cardinality(new.ids) = IF Cardinality(Known(H, used)) > MaxAliases THEN MaxAliases
                                  ELSE Cardinality(Known(H, used))
        /\ \A c \in H : c.turn < new.turn
    BY <1>4, <1>5, <2>5 DEF Added
  <2> DEFINE limit == sequence + 1
  <2>7. /\ StoreOK(conversations', sequence + 1) /\ new \in H2
        /\ H2 = IF Cardinality(after) > MaxConversations THEN after \ {Turns!Memory!Oldest(after)} ELSE after
    <3> HIDE DEF after, limit
    <3>0. StoreOK(store, limit) /\ limit \in Nat
      BY <2>2, <2>4 DEF limit
    <3>1. MaxConversations \in Nat /\ Cardinality(after) \in Nat
      BY <2>3, <3>0, OldestGoes, ComponentAssumptions DEF Turns!ConversationsAssumption
    <3>2. CASE Cardinality(after) <= MaxConversations
      <4>1. conversations' = store
        BY <2>3, <2>4, <3>0, <3>2, OldestGoes
      <4>2. new \in after
        BY DEF after
      <4>3. QED
        BY <2>2, <2>3, <3>1, <3>2, <4>1, <4>2
    <3>3. CASE Cardinality(after) > MaxConversations
      <4>1. PICK c \in after : /\ StoreOK(conversations', limit)
                               /\ H2 = after \ {c}
                               /\ \A d \in after : c.turn <= d.turn
                               /\ \E d \in after : d # c
        BY <2>3, <2>4, <3>0, <3>3, OldestGoes
      <4>2. \A d \in after : d.turn \in Nat /\ \A e \in after : d.turn = e.turn => d = e
        BY <2>3, <3>0, HeldApart
      <4>3. Turns!Memory!Oldest(after) = c
        <5>1. ASSUME NEW d \in after, \A e \in after : d.turn <= e.turn PROVE d = c
          <6>1. d.turn <= c.turn /\ c.turn <= d.turn /\ c.turn \in Nat /\ d.turn \in Nat
            BY <4>1, <4>2, <5>1
          <6>2. QED
            BY <4>2, <6>1
        <5>2. QED
          BY <4>1, <5>1, Zenon DEF Turns!Memory!Oldest
      <4>4. new # c
        <5>1. SUFFICES ASSUME new = c PROVE FALSE
          OBVIOUS
        <5>2. PICK d \in others : sequence <= d.turn
          BY <4>1, <5>1 DEF after, Added
        <5>3. d \in H
          BY <5>2 DEF Others
        <5>4. QED
          BY <1>1, <2>5, <5>2, <5>3
      <4>5. QED
        <5>1. new \in after
          BY DEF after
        <5>2. QED
          BY <3>1, <3>3, <4>1, <4>3, <4>4, <5>1 DEF limit
    <3>4. QED
      BY <3>1, <3>2, <3>3
  <2> HIDE DEF H, H2
  <2>8. TurnLeaves(H, H2, used, carry)
    BY <1>9, <2>6, <2>7, Zenon DEF TurnLeaves
  <2>9. QED
    BY <2>4, <2>7, <2>8 DEF ConversationsInv, H, H2, used
<1>10. QED
  BY <1>8, <1>9

LEMMA ContinueKeeps ==
  ASSUME ConversationsInv, NEW a \in SessionIds, Turns!Continue(a)
  PROVE  ConversationsInv' /\ Turns!Memory!Asks(a)
<1> DEFINE H == HeldBy(conversations)
<1>1. /\ UNCHANGED <<conversations, sequence>>
      /\ carried' = IF a \in DOMAIN conversations THEN conversations[a].kept ELSE Nothing
  BY DEF Turns!Continue
<1>2. \A c \in H : a \in c.ids => a \in DOMAIN conversations /\ c = Conv(conversations, a)
  BY HeldApart DEF ConversationsInv
<1>3. a \in DOMAIN conversations =>
         /\ Conv(conversations, a) \in H /\ a \in Conv(conversations, a).ids
         /\ Conv(conversations, a).carry = conversations[a].kept
  BY DEF HeldBy, Conv, Class
<1> HIDE DEF H
<1>4. carried' = IF \E c \in H : a \in c.ids THEN (CHOOSE c \in H : a \in c.ids).carry ELSE Nothing
  <2>1. CASE a \in DOMAIN conversations
    <3>1. (CHOOSE c \in H : a \in c.ids) = Conv(conversations, a)
      BY <1>2, <1>3, <2>1
    <3>2. QED
      BY <1>1, <1>3, <2>1, <3>1
  <2>2. CASE a \notin DOMAIN conversations
    BY <1>1, <1>2, <2>2
  <2>3. QED
    BY <2>1, <2>2
<1>5. Turns!Memory!Asks(a)
  BY <1>1, <1>4, AsksAsTold DEF H
<1>6. ConversationsInv'
  BY <1>1 DEF ConversationsInv, StoreOK, EntryOK, Class
<1>7. QED
  BY <1>5, <1>6

LEMMA ConversationsStep ==
  ConversationsInv /\ [Turns!ConversationsNext]_(Turns!conversationVars)
     => ConversationsInv' /\ [Turns!Memory!Next]_(Turns!Memory!memoryVars)
<1> SUFFICES ASSUME ConversationsInv, [Turns!ConversationsNext]_(Turns!conversationVars)
             PROVE  ConversationsInv' /\ [Turns!Memory!Next]_(Turns!Memory!memoryVars)
  OBVIOUS
<1>1. ASSUME NEW asked \in SessionIds, NEW answered \in SessionIds, NEW carry \in Carries,
             Turns!Remember(asked, answered, carry)
      PROVE  ConversationsInv' /\ Turns!Memory!Next
  <2>1. /\ ConversationsInv'
        /\ TurnLeaves(HeldBy(conversations), HeldBy(conversations)', {asked, answered}, carry)
    BY <1>1, RememberKeeps
  <2>2. Turns!Memory!TurnEnds({asked, answered}, carry)
    BY <2>1, LeavesAsTold
  <2>3. carried' = carried
    BY <1>1 DEF Turns!Remember
  <2>4. QED
    BY <2>1, <2>2, <2>3 DEF Turns!Memory!Next
<1>2. ASSUME NEW a \in SessionIds, Turns!Continue(a)
      PROVE  ConversationsInv' /\ Turns!Memory!Next
  BY <1>2, ContinueKeeps DEF Turns!Memory!Next
<1>3. CASE UNCHANGED Turns!conversationVars
  <2>1. UNCHANGED <<conversations, sequence, carried>>
    BY <1>3 DEF Turns!conversationVars
  <2>2. ConversationsInv'
    BY <2>1 DEF ConversationsInv, StoreOK, EntryOK, Class
  <2>3. UNCHANGED Turns!Memory!memoryVars
    BY <2>1 DEF Turns!Memory!memoryVars
  <2>4. QED
    BY <2>2, <2>3
<1>4. CASE Turns!ConversationsNext
  BY <1>1, <1>2, <1>4 DEF Turns!ConversationsNext
<1>5. QED
  BY <1>3, <1>4

(* The map keyed by alias is a set of conversations, each continued,       *)
(* forgotten and evicted whole (remember_conversation,                     *)
(* continue_conversation).                                                 *)
THEOREM MemoryIsOfConversations == Turns!ConversationsSpec => Turns!OneMemory
<1>1. Turns!ConversationsInit => ConversationsInv /\ Turns!Memory!Init
  <2> SUFFICES ASSUME Turns!ConversationsInit PROVE ConversationsInv /\ Turns!Memory!Init
    OBVIOUS
  <2>1. DOMAIN conversations = {} /\ sequence = 0 /\ carried = Nothing
    BY DEF Turns!ConversationsInit, Turns!NoConversations
  <2>2. ConversationsInv
    BY <2>1, FS_EmptySet DEF ConversationsInv, StoreOK
  <2>3. Turns!Memory!Init
    BY <2>1 DEF Turns!Memory!Init
  <2>4. QED
    BY <2>2, <2>3
<1>2. QED
  BY <1>1, ConversationsStep, PTL DEF Turns!ConversationsSpec, Turns!OneMemory, Turns!Memory!Spec

(* A group names the ids that hold it, each once: what take-over and       *)
(* eviction rely on to find them (remember_conversation).                  *)
THEOREM GroupsStayWhole == Turns!ConversationsSpec => []Turns!GroupsAgree
<1>1. Turns!ConversationsInit => ConversationsInv
  BY FS_EmptySet DEF Turns!ConversationsInit, Turns!NoConversations, ConversationsInv, StoreOK
<1>2. ConversationsInv => Turns!GroupsAgree
  <2> SUFFICES ASSUME ConversationsInv, NEW a \in DOMAIN conversations
               PROVE  /\ Items(conversations[a].group) = Class(conversations, a)
                      /\ Cardinality(Items(conversations[a].group)) = Len(conversations[a].group)
    BY CountsAreTheSame DEF Turns!GroupsAgree, Class
  <2>1. /\ conversations[a].group \in Seq(SessionIds) /\ OneEach(conversations[a].group)
        /\ Items(conversations[a].group) = Class(conversations, a)
    BY DEF ConversationsInv, StoreOK, EntryOK
  <2>2. QED
    BY <2>1, ItemsAreCounted
<1>3. QED
  BY <1>1, <1>2, ConversationsStep, PTL DEF Turns!ConversationsSpec

-----------------------------------------------------------------------------
(* Composition: whatever the behaviour is of, every component keeps to     *)
(* its own steps.                                                          *)

LEMMA HomeIsAComponent == ClientSpec => HomeLinkSpec
<1>1. ClientInit => HomeLinkInit
  BY DEF ClientInit
<1>2. [ClientNext]_ClientVars => [HomeLinkNext]_homeVars
  BY DEF ClientNext, ClientVars, homeVars
<1>3. QED
  BY <1>1, <1>2, PTL DEF ClientSpec, HomeLinkSpec

LEMMA AsksIsAComponent == ClientSpec => Asks!RepliesSpec
<1>1. ClientInit => Asks!RepliesInit
  BY DEF ClientInit
<1>2. [ClientNext]_ClientVars => [Asks!RepliesNext]_(Asks!replyVars)
  BY DEF ClientNext, ClientVars, asksVars, Asks!replyVars
<1>3. QED
  BY <1>1, <1>2, PTL DEF ClientSpec, Asks!RepliesSpec

LEMMA DescribingIsAComponent == ClientSpec => Describing!DescribeSpec
<1>1. ClientInit => Describing!DescribeInit
  BY DEF ClientInit
<1>2. [ClientNext]_ClientVars => [Describing!DescribeNext]_(Describing!describeVars)
  BY DEF ClientNext, ClientVars, describingVars, Describing!describeVars
<1>3. QED
  BY <1>1, <1>2, PTL DEF ClientSpec, Describing!DescribeSpec

LEMMA ListingIsAComponent == ClientSpec => Listing!IntentListingSpec
<1>1. ClientInit => Listing!IntentListingInit
  BY DEF ClientInit
<1>2. [ClientNext]_ClientVars => [Listing!IntentListingNext]_(Listing!listingVars)
  BY DEF ClientNext, ClientVars, listingVars, Listing!listingVars
<1>3. QED
  BY <1>1, <1>2, PTL DEF ClientSpec, Listing!IntentListingSpec

LEMMA MergingIsAComponent == ClientSpec => Merging!InventoryMergeSpec
<1>1. ClientInit => Merging!InventoryMergeInit
  BY DEF ClientInit
<1>2. [ClientNext]_ClientVars => [Merging!InventoryMergeNext]_(Merging!mergeVars)
  BY DEF ClientNext, ClientVars, mergingVars, Merging!mergeVars
<1>3. QED
  BY <1>1, <1>2, PTL DEF ClientSpec, Merging!InventoryMergeSpec

LEMMA TurnsAreAComponent == ClientSpec => Turns!ConversationsSpec
<1>1. ClientInit => Turns!ConversationsInit
  BY DEF ClientInit
<1>2. [ClientNext]_ClientVars => [Turns!ConversationsNext]_(Turns!conversationVars)
  BY DEF ClientNext, ClientVars, turnsVars, Turns!conversationVars
<1>3. QED
  BY <1>1, <1>2, PTL DEF ClientSpec, Turns!ConversationsSpec

(* A request of the hub is answered at most once, in the contract          *)
(* (answer_home_request_within).                                           *)
THEOREM AnsweredOnce == ClientSpec => []OneAnswerInContract
  BY OneAnswerEach, HomeIsAComponent, PTL

(* And no reply takes the send path once the hub has given up on it        *)
(* (HOME_REQUEST_TIMEOUT).                                                 *)
THEOREM AnsweredInTime == ClientSpec => NothingStartedLate
  BY NoneStartedLate, HomeIsAComponent, PTL

(* What an ask or a query returns was said to it, and in time              *)
(* (collect_ask_reply, collect_query_reply).                               *)
THEOREM AnswersStayTrue == ClientSpec => []AnswersAreTrue
  BY RepliesAreOwn, AsksIsAComponent, PTL DEF AnswersAreTrue

(* A refusal ends only an operation it can have refused                    *)
(* (refusal_belongs_to_ask).                                               *)
THEOREM RefusalsStayOwn == ClientSpec => RefusalNotStolen
  BY RepliesAreOwn, AsksIsAComponent, PTL DEF RefusalNotStolen

(* A registration is described by its own answer, and a partial answer is  *)
(* an answer (describe_many, await_reply).                                 *)
THEOREM DescribedTruly == ClientSpec => []DescribedByOwn
<1>1. Describing!DescribeSpec => [](Describing!DescribedByOwn /\ Describing!PartialSurvives)
  BY DescribesTruly, ComponentAssumptions
<1>2. QED
  BY <1>1, DescribingIsAComponent, PTL DEF DescribedByOwn

(* A listing is never worse for having been looked for further, and an     *)
(* intent is the same whatever the order of its rows (listing, inventory). *)
THEOREM ListedSteadily == ClientSpec => []ListingIsSteady
  BY NeverMadeWorse, OrderMakesNoDifference, ListingIsAComponent, MergingIsAComponent, PTL
     DEF ListingIsSteady

(* A conversation is one, whichever of its ids a turn goes by              *)
(* (remember_conversation, continue_conversation).                         *)
THEOREM RememberedAsOne == ClientSpec => OneMemory
  BY MemoryIsOfConversations, TurnsAreAComponent, PTL DEF OneMemory

=============================================================================
