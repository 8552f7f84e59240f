------------------------------ MODULE Describe ------------------------------
(***************************************************************************)
(* `describe_many`, `describe_one_batch` and `await_reply` of intents.rs:  *)
(* many registrations described over one hub link, a window at a time, all *)
(* under one deadline.  The hub answers each request never, once or twice, *)
(* with or without the request's id, in any order; other programs' answers *)
(* and denials arrive in between; and the link's buffer may overflow.      *)
(***************************************************************************)
EXTENDS Naturals, Sequences, FiniteSets

CONSTANTS
    Wanted,         \* a sequence of registrations, none twice
    Batch,          \* DESCRIBE_BATCH
    None,
    Deadline,
    Capacity,       \* of the link's event channel
    MaxCopies       \* bound: answers the hub sends to one request

Keys == {Wanted[i] : i \in 1..Len(Wanted)}

\* The id of another program's request is not one of ours.
Foreign == "foreign"

DescribeAssumption ==
    /\ Wanted \in Seq(Keys)
    /\ \A i, j \in 1..Len(Wanted) : Wanted[i] = Wanted[j] => i = j
    /\ None \notin Keys \cup {"usable", "empty"} /\ Foreign \notin Keys \cup {None}
    /\ Batch \in Nat /\ Deadline \in Nat /\ Capacity \in Nat \ {0}
    /\ MaxCopies \in Nat

VARIABLES
    now,
    sent,           \* how many registrations have been asked for
    at,             \* "sending", "waiting", or how the call ended
    window,         \* the index of the first registration of this window
    found,          \* this window: what each registration was described as
    kept,           \* the windows that are over
    queue,          \* the receiver's buffer
    copies,         \* the hub: answers sent to each request
    lastSend        \* when the last request was sent

describeVars == <<now, sent, at, window, found, kept, queue, copies, lastSend>>

\* "usable" stands for definitions, "empty" for an answer that has none.
DescribeInit ==
    /\ now = 0 /\ sent = 0 /\ at = "sending" /\ window = 1
    /\ found = [k \in Keys |-> None] /\ kept = [k \in Keys |-> None]
    /\ queue = <<>> /\ copies = [k \in Keys |-> 0] /\ lastSend = 0

Earlier(a, b) == IF a < b THEN a ELSE b

\* 0 sends every registration in one window.
WindowEnd == IF Batch = 0 THEN Len(Wanted) ELSE Earlier(window + Batch - 1, Len(Wanted))

InWindow == {Wanted[i] : i \in window..WindowEnd}

Usable(described) == \E k \in Keys : described[k] = "usable"

Merged == [k \in Keys |-> IF found[k] = None THEN kept[k] ELSE found[k]]

-----------------------------------------------------------------------------
(* The link.  A receiver that falls behind loses the oldest events.        *)

Arrives(event) ==
    queue' = LET whole == Append(queue, event)
             IN  IF Len(whole) > Capacity THEN Tail(whole) ELSE whole

\* An answer to k, or one that carries no id and is known by its content; an
\* empty answer without an id says nothing of whose it is.
HubAnswers(k) ==
    /\ at \in {"sending", "waiting"} /\ k \in {Wanted[i] : i \in 1..sent}
    /\ copies[k] < MaxCopies /\ copies' = [copies EXCEPT ![k] = @ + 1]
    /\ \E id \in {k, None}, d \in {"usable", "empty"} :
          Arrives([name |-> "described", id |-> id, of |-> k, says |-> d])
    /\ UNCHANGED <<now, sent, at, window, found, kept, lastSend>>

HubDenies(k) ==
    /\ at \in {"sending", "waiting"} /\ k \in {Wanted[i] : i \in 1..sent}
    /\ copies[k] < MaxCopies /\ copies' = [copies EXCEPT ![k] = @ + 1]
    /\ \E id \in {k, None} :
          Arrives([name |-> "denied", id |-> id, of |-> k, says |-> "empty"])
    /\ UNCHANGED <<now, sent, at, window, found, kept, lastSend>>

\* Another program's, whatever it describes.
OthersAnswer(k) ==
    /\ at \in {"sending", "waiting"}
    /\ \E n \in {"described", "denied"} :
          Arrives([name |-> n, id |-> Foreign, of |-> k, says |-> "usable"])
    /\ UNCHANGED <<now, sent, at, window, found, kept, copies, lastSend>>

-----------------------------------------------------------------------------
(* One window: every request out, then the replies.                        *)

Begin(i) ==
    /\ window' = i /\ at' = "sending" /\ queue' = <<>>
    /\ found' = [k \in Keys |-> None]

Ends(how) == at' = how /\ UNCHANGED <<window, queue, found>>

\* A window is over: with the answers it has, or with a timeout, which only
\* fails the call while no window has described anything.  No later window is
\* begun past the deadline.
WindowOver(timedOut, described) ==
    /\ kept' = [k \in Keys |-> IF described[k] = None THEN kept[k] ELSE described[k]]
    /\ IF timedOut /\ ~Usable(kept) THEN Ends("timeout")
       ELSE IF WindowEnd = Len(Wanted) \/ now >= Deadline THEN Ends("ok")
       ELSE Begin(WindowEnd + 1)

Send ==
    /\ at = "sending" /\ sent < WindowEnd /\ now < Deadline
    /\ sent' = sent + 1 /\ lastSend' = now
    /\ UNCHANGED <<now, at, window, found, kept, queue, copies>>

\* A send the link cannot finish by the deadline; what the window has already
\* been answered is not read.
SendTimesOut ==
    /\ at = "sending" /\ sent < WindowEnd /\ now >= Deadline
    /\ WindowOver(TRUE, [k \in Keys |-> None])
    /\ sent' = WindowEnd
    /\ UNCHANGED <<now, copies, lastSend>>

AllSent ==
    /\ at = "sending" /\ sent = WindowEnd
    /\ at' = "waiting"
    /\ UNCHANGED <<now, sent, window, found, kept, queue, copies, lastSend>>

SendFails ==
    /\ at = "sending" /\ Ends("failed")
    /\ UNCHANGED <<now, sent, kept, copies, lastSend>>

KeyOf_ByContent(event) ==
    IF event.id \in InWindow THEN event.id
    ELSE IF event.says = "usable" /\ event.of \in InWindow THEN event.of ELSE None

\* The registration an answer describes: by its id, or, when it has none, by
\* the content of its first definition.
KeyOf(event) ==
    IF event.id \in InWindow THEN event.id
    ELSE IF event.id = None /\ event.says = "usable" /\ event.of \in InWindow
    THEN event.of ELSE None

\* A denial with no id is taken for this window's.
DeniesUs(event) == event.name = "denied" /\ event.id \in InWindow \cup {None}

\* The first copy of an answer counts; the last one missing ends the window.
Read ==
    /\ at = "waiting" /\ queue # <<>>
    /\ LET event == Head(queue)
           key == KeyOf(event)
           described == IF event.name = "described" /\ key # None /\ found[key] = None
                        THEN [found EXCEPT ![key] = event.says] ELSE found
       IN  IF DeniesUs(event) THEN Ends("denied") /\ UNCHANGED kept
           ELSE IF \A k \in InWindow : described[k] # None
           THEN WindowOver(FALSE, described)
           ELSE /\ found' = described /\ queue' = Tail(queue)
                /\ UNCHANGED <<at, window, kept>>
    /\ UNCHANGED <<now, sent, copies, lastSend>>

\* The deadline passes with registrations unanswered: what the window has is
\* an answer when it describes anything.
WaitTimesOut ==
    /\ at = "waiting" /\ now >= Deadline /\ queue = <<>>
    /\ WindowOver(~Usable(found), IF Usable(found) THEN found ELSE [k \in Keys |-> None])
    /\ UNCHANGED <<now, sent, copies, lastSend>>

Tick ==
    /\ now < Deadline /\ at \in {"sending", "waiting"} /\ now' = now + 1
    /\ UNCHANGED <<sent, at, window, found, kept, queue, copies, lastSend>>

DescribeNext ==
    \/ \E k \in Keys : HubAnswers(k) \/ HubDenies(k) \/ OthersAnswer(k)
    \/ Send \/ SendTimesOut \/ AllSent \/ SendFails \/ Read \/ WaitTimesOut \/ Tick

DescribeSpec == DescribeInit /\ [][DescribeNext]_describeVars

-----------------------------------------------------------------------------
\* A partial answer is an answer, across windows as within one: the call is a
\* timeout only when no registration of any window was described, so one
\* skill that stops answering costs only its own sentences.
PartialSurvives == at = "timeout" => ~Usable(kept) /\ ~Usable(found)

\* A registration is described only by an answer the hub gave to it: not by
\* another program's answer for the same intent, not by a repeat for another
\* registration or another window, and never by one asked for after the
\* deadline.
DescribedByOwn ==
    /\ \A k \in Keys : Merged[k] # None => copies[k] > 0
    /\ at \in {"sending", "waiting"} /\ window > 1 => lastSend <= Deadline
=============================================================================
