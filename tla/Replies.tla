------------------------------- MODULE Replies -------------------------------
(***************************************************************************)
(* One client's asks, queries and fire-and-forget utterances, sharing one   *)
(* transport (client.rs, refusal.rs).  Replies come back on two broadcast   *)
(* rings, bus events and hive messages; an ask reads the first and knows    *)
(* its own by the request id, a query reads the second by the query id.  A  *)
(* refusal carries no id.                                                   *)
(*                                                                          *)
(* Time is a counter that does not move while a collector has something to  *)
(* do: a task that is woken runs long before the next second.               *)
(***************************************************************************)
EXTENDS Naturals, Sequences, FiniteSets

CONSTANTS
    Ops,         \* the operations the caller may start
    Ids,         \* correlation ids, the caller's or new_request_id()
    None,        \* no operation, no time
    Timeout,     \* the deadline of an ask or a query
    EmptyWait,   \* AskOptions::empty_reply_wait
    Settle,      \* AskOptions::reply_settle
    Grace,       \* UNTRACKED_UTTERANCE_GRACE
    Ring,        \* the capacity of a broadcast ring
    MaxStart,    \* bound on when an operation starts
    MaxTime,     \* bound on the clock
    MaxEvents    \* bound on the events of both rings

Kinds == {"ask", "query", "send"}

\* How an operation ends.
Results == {"answered", "unanswered", "silent", "refused", "overflow",
            "failed", "timeout", "duplicate", "cancelled", "sent"}

RepliesAssumption ==
    /\ Timeout \in Nat /\ EmptyWait \in Nat /\ Settle \in Nat /\ Grace \in Nat
    /\ Ring \in Nat /\ MaxStart \in Nat /\ MaxTime \in Nat /\ MaxEvents \in Nat
    /\ None \notin Ops \cup Ids \cup Kinds \cup Results \cup Nat

VARIABLES
    now,         \* Instant::now()
    pc,          \* how far each operation is
    kind,        \* what each operation is
    id,          \* its correlation id
    deadline,    \* when it is due to end
    seen,        \* the receiver's place in its ring
    heard,       \* has a fragment been pushed?
    soft,        \* has a soft failure been kept?
    emptyAt,     \* empty_deadline
    settleAt,    \* settle_deadline
    write,       \* the transport's write: "none", "out", "done" or "failed"
    sentAt,      \* untracked_sends: when each utterance was recorded
    log,         \* what each ring was ever sent
    result,      \* what the operation returned
    refusedBy    \* history: whose refusal ended it

replyVars == <<now, pc, kind, id, deadline, seen, heard, soft, emptyAt,
               settleAt, write, sentAt, log, result, refusedBy>>

RepliesInit ==
    /\ now = 0
    /\ pc = [o \in Ops |-> "idle"]
    /\ kind = [o \in Ops |-> None]
    /\ id = [o \in Ops |-> None]
    /\ deadline = [o \in Ops |-> None]
    /\ seen = [o \in Ops |-> 0]
    /\ heard = [o \in Ops |-> FALSE]
    /\ soft = [o \in Ops |-> FALSE]
    /\ emptyAt = [o \in Ops |-> None]
    /\ settleAt = [o \in Ops |-> None]
    /\ write = [o \in Ops |-> "none"]
    /\ sentAt = [o \in Ops |-> None]
    /\ log = [ring \in {"bus", "hive"} |-> <<>>]
    /\ result = [o \in Ops |-> None]
    /\ refusedBy = [o \in Ops |-> None]

-----------------------------------------------------------------------------
(* What the client knows of itself.                                         *)

\* active_replies: the reservations, each dropped with its operation.
Waiting(k) == {o \in Ops : kind[o] = k /\ pc[o] \in {"connect", "collect"}}

\* untracked_sends after prune_untracked_sends.
Untracked == {o \in Ops : sentAt[o] # None /\ now - sentAt[o] <= Grace}

RefusalBelongs_AsksOnly(o) == Waiting("ask") = {o} /\ Untracked = {}

RefusalBelongs(o) ==
    /\ Waiting("ask") = {o}
    /\ Waiting("query") = {}
    /\ Untracked = {}

Earlier(t, u) == IF t < u THEN t ELSE u

\* The instant a collector stops at: the settle window once there is speech,
\* the empty window once the hub said it is through, never past the deadline.
WakeAt(o) ==
    CASE settleAt[o] # None -> Earlier(settleAt[o], deadline[o])
      [] settleAt[o] = None /\ emptyAt[o] # None -> Earlier(emptyAt[o], deadline[o])
      [] OTHER -> deadline[o]

RingOf(o) == IF kind[o] = "query" THEN "hive" ELSE "bus"
Unread(o) == Len(log[RingOf(o)]) - seen[o]
Due(o) == /\ pc[o] \in {"connect", "collect"} /\ kind[o] # "send"
          /\ now >= WakeAt(o)

\* A collector that has an event to read or a window to close.
Busy(o) == pc[o] = "collect" /\ (Due(o) \/ Unread(o) > 0)

-----------------------------------------------------------------------------
(* The caller.                                                              *)

End(o, r) ==
    /\ pc' = [pc EXCEPT ![o] = "done"]
    /\ result' = [result EXCEPT ![o] = r]

Reserved(k, i) == k # "send" /\ \E p \in Waiting(k) : id[p] = i

\* ask_with_hints and query_inner reserve the id for as long as they run; an id
\* is the caller's to choose, and is not chosen again once it was answered.
Begin(o, k, i) ==
    /\ pc[o] = "idle" /\ now <= MaxStart
    /\ \A p \in Ops : id[p] = i => pc[p] # "done" /\ "send" \notin {k, kind[p]}
    /\ kind' = [kind EXCEPT ![o] = k]
    /\ id' = [id EXCEPT ![o] = i]
    /\ IF Reserved(k, i)
       THEN End(o, "duplicate") /\ UNCHANGED deadline
       ELSE /\ pc' = [pc EXCEPT ![o] = "connect"]
            /\ deadline' = [deadline EXCEPT ![o] = now + Timeout]
            /\ UNCHANGED result
    /\ UNCHANGED <<now, seen, heard, soft, emptyAt, settleAt, write, sentAt,
                   log, refusedBy>>

\* record_untracked_send.
Records(o) == sentAt' = [sentAt EXCEPT ![o] = now]

\* connect() returned in time: the write begins.
Publish(o) ==
    /\ pc[o] = "connect" /\ (kind[o] # "send" => ~Due(o))
    /\ pc' = [pc EXCEPT ![o] = IF kind[o] = "send" THEN "sending" ELSE "collect"]
    /\ write' = [write EXCEPT ![o] = "out"]
    /\ UNCHANGED <<now, kind, id, deadline, heard, soft, emptyAt, settleAt,
                   log, result, refusedBy>>

\* A reader subscribes to its ring before anything is written.
Subscribe(o) ==
    /\ seen' = [seen EXCEPT ![o] = Len(log[RingOf(o)])]
    /\ UNCHANGED sentAt

AskPublishes(o) == kind[o] = "ask" /\ Publish(o) /\ Subscribe(o)
QueryPublishes(o) == kind[o] = "query" /\ Publish(o) /\ Subscribe(o)

\* An utterance nobody waits for reads nothing; it is recorded before the write.
SendPublishes(o) ==
    kind[o] = "send" /\ Publish(o) /\ Records(o) /\ UNCHANGED seen

ConnectFails(o) ==
    /\ pc[o] = "connect"
    /\ End(o, "failed")
    /\ UNCHANGED <<now, kind, id, deadline, seen, heard, soft, emptyAt, settleAt,
                   write, sentAt, log, refusedBy>>

ConnectTimesOut(o) ==
    /\ pc[o] = "connect" /\ Due(o)
    /\ End(o, "timeout")
    /\ UNCHANGED <<now, kind, id, deadline, seen, heard, soft, emptyAt, settleAt,
                   write, sentAt, log, refusedBy>>

WriteDone_Subscribes(o) ==
    /\ write[o] = "out" /\ pc[o] # "done"
    /\ write' = [write EXCEPT ![o] = "done"]
    /\ seen' = [seen EXCEPT ![o] = Len(log[RingOf(o)])]
    /\ IF pc[o] = "sending" THEN End(o, "sent") ELSE UNCHANGED <<pc, result>>
    /\ UNCHANGED <<now, kind, id, deadline, heard, soft, emptyAt, settleAt,
                   sentAt, log, refusedBy>>

\* send_and_collect goes on collecting after a write that went out; a send is over.
WriteDone(o) ==
    /\ write[o] = "out" /\ pc[o] # "done"
    /\ write' = [write EXCEPT ![o] = "done"]
    /\ IF pc[o] = "sending" THEN End(o, "sent") ELSE UNCHANGED <<pc, result>>
    /\ UNCHANGED <<now, kind, id, deadline, seen, heard, soft, emptyAt, settleAt,
                   sentAt, log, refusedBy>>

\* The collector is polled first: a failed write ends an operation only when
\* there is nothing left to read.  An untracked record is kept: over HTTP the
\* hub may hold the frame of a publish that failed.
WriteFails(o) ==
    /\ write[o] = "out" /\ pc[o] # "done" /\ ~Busy(o)
    /\ write' = [write EXCEPT ![o] = "failed"]
    /\ End(o, "failed")
    /\ UNCHANGED <<now, kind, id, deadline, seen, heard, soft, emptyAt, settleAt,
                   sentAt, log, refusedBy>>

\* The caller drops the future; the transport keeps a frame already queued.
Drop(o) ==
    /\ pc[o] \in {"connect", "collect", "sending"}
    /\ End(o, "cancelled")
    /\ UNCHANGED <<now, kind, id, deadline, seen, heard, soft, emptyAt, settleAt,
                   write, sentAt, log, refusedBy>>

-----------------------------------------------------------------------------
(* The collectors.                                                          *)

Overflows(o) ==
    /\ pc[o] = "collect" /\ Unread(o) > Ring
    /\ End(o, "overflow")
    /\ UNCHANGED <<now, kind, id, deadline, seen, heard, soft, emptyAt, settleAt,
                   write, sentAt, log, refusedBy>>

SetOnce(t, wait) == IF t = None THEN now + wait ELSE t

\* collect_ask_reply on the next event of the ring.  An event of another id is
\* skipped; a refusal has no id, and is this ask's if nothing else is out.
AskReads(o) ==
    /\ pc[o] = "collect" /\ kind[o] = "ask" /\ Unread(o) \in 1..Ring /\ ~Due(o)
    /\ seen' = [seen EXCEPT ![o] = @ + 1]
    /\ LET e == log["bus"][seen[o] + 1]
           own == e.what # "denied" /\ e.id = id[o]
           taken == e.what = "denied" /\ RefusalBelongs(o)
           expired == own /\ e.what = "expired"
       IN /\ heard' = [heard EXCEPT ![o] = @ \/ (own /\ e.what = "speak")]
          /\ soft' = [soft EXCEPT ![o] = @ \/ (own /\ e.what = "missed")]
          /\ settleAt' = [settleAt EXCEPT ![o] =
                            IF own /\ e.what = "speak" THEN SetOnce(@, Settle) ELSE @]
          /\ emptyAt' = [emptyAt EXCEPT ![o] =
                            IF own /\ e.what \in {"missed", "handled"}
                            THEN SetOnce(@, EmptyWait) ELSE @]
          /\ IF taken \/ expired
             THEN End(o, IF heard[o] THEN "answered"
                         ELSE IF taken THEN "refused" ELSE "failed")
             ELSE UNCHANGED <<pc, result>>
          /\ refusedBy' = IF taken THEN [refusedBy EXCEPT ![o] = e.op] ELSE refusedBy
    /\ UNCHANGED <<now, kind, id, deadline, write, sentAt, log>>

\* collect_query_reply: the query id, until the hub says it is complete, or that
\* it took too long.
QueryReads(o) ==
    /\ pc[o] = "collect" /\ kind[o] = "query" /\ Unread(o) \in 1..Ring
    /\ seen' = [seen EXCEPT ![o] = @ + 1]
    /\ LET e == log["hive"][seen[o] + 1]
           own == e.id = id[o]
           spoken == heard[o] \/ (own /\ e.what = "speak")
       IN /\ heard' = [heard EXCEPT ![o] = spoken]
          /\ soft' = [soft EXCEPT ![o] = @ \/ (own /\ e.what = "missed")]
          /\ IF own /\ e.what \in {"complete", "expired"}
             THEN End(o, IF spoken THEN "answered"
                         ELSE IF e.what = "expired" THEN "failed"
                         ELSE IF soft[o] THEN "unanswered" ELSE "silent")
             ELSE UNCHANGED <<pc, result>>
    /\ UNCHANGED <<now, kind, id, deadline, emptyAt, settleAt, write, sentAt,
                   log, refusedBy>>

\* An ask returns what it has by its window or its deadline; a query whose
\* deadline passes returns nothing.
Wakes(o) ==
    /\ pc[o] = "collect" /\ Due(o)
    /\ IF kind[o] = "query" THEN End(o, "timeout")
       ELSE End(o, IF heard[o] THEN "answered"
                   ELSE IF soft[o] THEN "unanswered" ELSE "silent")
    /\ UNCHANGED <<now, kind, id, deadline, seen, heard, soft, emptyAt, settleAt,
                   write, sentAt, log, refusedBy>>

-----------------------------------------------------------------------------
(* The hub and the clock.                                                   *)

Answers(k) ==
    {"speak", "missed", "expired"} \cup
        (IF k = "query" THEN {"complete"} ELSE {"handled"})

DenialOf(o) == \E n \in DOMAIN log["bus"] :
                  log["bus"][n].op = o /\ log["bus"][n].what = "denied"

\* The hub may have a frame while its write is out, after it failed, and after
\* the operation was dropped.  It refuses an utterance at once or answers it,
\* never both.
HubSends(o) ==
    /\ write[o] # "none" /\ ~DenialOf(o)
    /\ Len(log["bus"]) + Len(log["hive"]) < MaxEvents
    /\ \/ \E what \in Answers(kind[o]) :
             log' = [log EXCEPT ![RingOf(o)] =
                       Append(@, [op |-> o, id |-> id[o], what |-> what, at |-> now])]
       \/ /\ \A n \in DOMAIN log[RingOf(o)] : log[RingOf(o)][n].op # o
          /\ log' = [log EXCEPT !["bus"] =
                       Append(@, [op |-> o, id |-> None, what |-> "denied", at |-> now])]
    /\ UNCHANGED <<now, pc, kind, id, deadline, seen, heard, soft, emptyAt,
                   settleAt, write, sentAt, result, refusedBy>>

Tick ==
    /\ now < MaxTime
    /\ \A o \in Ops : ~Busy(o) /\ ~(pc[o] = "connect" /\ Due(o))
    /\ now' = now + 1
    /\ UNCHANGED <<pc, kind, id, deadline, seen, heard, soft, emptyAt, settleAt,
                   write, sentAt, log, result, refusedBy>>

RepliesNext ==
    \/ \E o \in Ops :
          \/ \E k \in Kinds, i \in Ids : Begin(o, k, i)
          \/ AskPublishes(o) \/ QueryPublishes(o) \/ SendPublishes(o)
          \/ ConnectFails(o) \/ ConnectTimesOut(o)
          \/ WriteDone(o) \/ WriteFails(o) \/ Drop(o)
          \/ Overflows(o) \/ AskReads(o) \/ QueryReads(o) \/ Wakes(o)
          \/ HubSends(o)
    \/ Tick

RepliesSpec == RepliesInit /\ [][RepliesNext]_replyVars

-----------------------------------------------------------------------------
(* Properties.                                                              *)

SaidTo(o, what) ==
    {n \in DOMAIN log[RingOf(o)] : /\ log[RingOf(o)][n].op = o
                                   /\ log[RingOf(o)][n].what \in what}

FirstAt(o, what) ==
    LET times == {log[RingOf(o)][n].at : n \in SaidTo(o, what)}
    IN CHOOSE t \in times : \A u \in times : t <= u

\* A refusal that names no request ends an ask only when it refused that ask,
\* or an operation the client was no longer waiting for: never a query or an
\* ask still out, and never an utterance sent within the grace window.
RefusalNotStolen ==
    [][\A o \in Ops : refusedBy'[o] # refusedBy[o] =>
          LET p == refusedBy'[o] IN
          \/ p = o
          \/ kind[p] # "send" /\ pc[p] = "done"
          \/ kind[p] = "send" /\ now - sentAt[p] > Grace]_replyVars

\* A refusal ends only the ask it refused (the documentation's claim: a
\* wrong guess ends a question the hub never refused).
RefusalIsOwn == \A o \in Ops : refusedBy[o] \in {None, o}

\* An ask that came back with nothing was told nothing: whatever the hub said
\* to it before its last instant was in the ring it was reading, however early
\* the hub answered and however slow the write was.
NothingMissed ==
    \A o \in Ops :
       /\ kind[o] = "ask" /\ result[o] \in {"silent", "unanswered"}
       => \A n \in SaidTo(o, {"speak"}) : log["bus"][n].at >= WakeAt(o)

\* What an operation returns as its answer was said to it, not to another
\* that uses the same id on the same transport.
AnswerIsOwn ==
    \A o \in Ops : result[o] = "answered" => SaidTo(o, {"speak"}) # {}

\* An ask ends in time, whatever arrives: a second "handled" or a second
\* fragment opens no new window.
WindowsRunOnce ==
    \A o \in Ops : kind[o] = "ask" /\ pc[o] = "collect" /\ ~Busy(o) =>
       /\ now < deadline[o]
       /\ SaidTo(o, {"speak"}) # {} => now < FirstAt(o, {"speak"}) + Settle
       /\ SaidTo(o, {"missed", "handled"}) # {} /\ SaidTo(o, {"speak"}) = {}
             => now < FirstAt(o, {"missed", "handled"}) + EmptyWait

=============================================================================
