----------------------------- MODULE EventStream -----------------------------
(***************************************************************************)
(* A correlated event subscription (stream.rs): listen() subscribes, then   *)
(* connects; recv() hands over the events that match, until the limit, the  *)
(* deadline, an overflow of the ring or the end of the link.                *)
(***************************************************************************)
EXTENDS Naturals, Sequences

CONSTANTS
    Capacity,       \* of the broadcast ring
    MaxEvents,      \* bound on the events the hub sends
    Limits,         \* ListenOptions::max_events, 0 for none
    MaxLinks        \* bound on the links

VARIABLES
    link,        \* "down", "shaking" or "up": only the last is authenticated
    links,       \* how many links there were
    events,      \* what the ring was ever sent: does each match the stream?
    position,    \* the receiver's place; None before listen()
    stream,      \* "none", "connecting", "open", or why it closed
    limit,       \* max_events
    expired,     \* has the stream's deadline passed?
    receiving,   \* a recv() is pending
    received,    \* the events handed over
    from         \* history: where the ring was when listen() was called

streamVars == <<link, links, events, position, stream, limit, expired,
                receiving, received, from>>

EventStreamInit ==
    /\ link = "down" /\ links = 0
    /\ events = <<>>
    /\ position = 0
    /\ stream = "none"
    /\ limit \in Limits
    /\ expired = FALSE
    /\ receiving = FALSE
    /\ received = <<>>
    /\ from = 0

-----------------------------------------------------------------------------
(* The transport, which others use too.                                     *)

LinkOpens ==
    /\ link = "down" /\ links < MaxLinks
    /\ link' = "shaking"
    /\ links' = links + 1
    /\ UNCHANGED <<events, position, stream, limit, expired, receiving, received, from>>

LinkAuthenticates ==
    /\ link = "shaking"
    /\ link' = "up"
    /\ UNCHANGED <<links, events, position, stream, limit, expired, receiving, received, from>>

LinkDrops ==
    /\ link # "down"
    /\ link' = "down"
    /\ UNCHANGED <<links, events, position, stream, limit, expired, receiving, received, from>>

\* An event matches by its request id when both sides have one, else by its
\* session, and by the predicate (event_matches_context, EventPredicate).
HubSends(matches) ==
    /\ link = "up" /\ Len(events) < MaxEvents
    /\ events' = Append(events, matches)
    /\ UNCHANGED <<link, links, position, stream, limit, expired, receiving, received, from>>

-----------------------------------------------------------------------------
(* The stream.                                                              *)

Close(why) == stream' = why /\ receiving' = FALSE

\* listen(): the subscription comes before the connection.
Listen ==
    /\ stream = "none"
    /\ stream' = "connecting"
    /\ position' = Len(events)
    /\ from' = Len(events)
    /\ UNCHANGED <<link, links, events, limit, expired, receiving, received>>

Connected ==
    /\ stream = "connecting" /\ link = "up"
    /\ stream' = "open"
    /\ UNCHANGED <<link, links, events, position, limit, expired, receiving, received, from>>

ConnectFails ==
    /\ stream = "connecting"
    /\ Close("failed")
    /\ UNCHANGED <<link, links, events, position, limit, expired, received, from>>

DeadlinePasses ==
    /\ stream \in {"connecting", "open"} /\ ~expired
    /\ expired' = TRUE
    /\ UNCHANGED <<link, links, events, position, stream, limit, receiving, received, from>>

\* The application calls recv(), and may drop its future at any time.
Receive ==
    /\ stream = "open" /\ ~receiving
    /\ receiving' = TRUE
    /\ UNCHANGED <<link, links, events, position, stream, limit, expired, received, from>>

Drop ==
    /\ receiving
    /\ receiving' = FALSE
    /\ UNCHANGED <<link, links, events, position, stream, limit, expired, received, from>>

\* The deadline is looked at before and after every wait.
Expires ==
    /\ receiving /\ expired
    /\ Close("timeout")
    /\ UNCHANGED <<link, links, events, position, limit, expired, received, from>>

Takes ==
    /\ receiving /\ ~expired
    /\ Len(events) - position \in 1..Capacity
    /\ position' = position + 1
    /\ IF events[position + 1]
       THEN /\ received' = Append(received, position + 1)
            /\ stream' = IF Len(received') = limit THEN "done" ELSE stream
            /\ receiving' = FALSE
       ELSE UNCHANGED <<received, stream, receiving>>
    /\ UNCHANGED <<link, links, events, limit, expired, from>>

Overflows ==
    /\ receiving /\ ~expired
    /\ Len(events) - position > Capacity
    /\ Close("overflow")
    /\ UNCHANGED <<link, links, events, position, limit, expired, received, from>>

Probe_AnyLink ==
    /\ receiving /\ ~expired /\ position = Len(events)
    /\ link = "down" /\ links = 0
    /\ Close("closed")
    /\ UNCHANGED <<link, links, events, position, limit, expired, received, from>>

\* With nothing in the ring for 100 ms the link's health is asked for.  A probe
\* that gets no answer in another 100 ms is made again.
Probe ==
    /\ receiving /\ ~expired /\ position = Len(events)
    /\ link # "up"
    /\ Close("closed")
    /\ UNCHANGED <<link, links, events, position, limit, expired, received, from>>

CloseStream ==
    /\ stream = "open" /\ ~receiving
    /\ Close("dropped")
    /\ UNCHANGED <<link, links, events, position, limit, expired, received, from>>

EventStreamNext ==
    \/ LinkOpens \/ LinkAuthenticates \/ LinkDrops
    \/ \E matches \in BOOLEAN : HubSends(matches)
    \/ Listen \/ Connected \/ ConnectFails \/ DeadlinePasses
    \/ Receive \/ Drop \/ Expires \/ Takes \/ Overflows \/ Probe \/ CloseStream

\* A pending recv() is polled, and its probe is answered in the end.
EventStreamFairness ==
    /\ WF_streamVars(Takes) /\ WF_streamVars(Overflows)
    /\ WF_streamVars(Expires) /\ WF_streamVars(Probe)

EventStreamSpec == EventStreamInit /\ [][EventStreamNext]_streamVars /\ EventStreamFairness

-----------------------------------------------------------------------------
(* Properties.                                                              *)

\* What has been handed over is every matching event since listen() was
\* called, in order and once: an event of the moments between the authentication
\* and the return of listen() is among them, and an overflow is never skipped.
NothingSkipped ==
    stream \notin {"none", "failed"} =>
       /\ {received[i] : i \in DOMAIN received} = {n \in from + 1 .. position : events[n]}
       /\ \A i, j \in DOMAIN received : i < j => received[i] < received[j]

\* A recv() on a link that is gone for good comes back.
DeadLinkIsTold == (receiving /\ link = "down") ~> (~receiving \/ link # "down")
=============================================================================
