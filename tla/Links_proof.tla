---------------------------- MODULE Links_proof -----------------------------
(***************************************************************************)
(* The links of the transports, and the stream of events above one, as the *)
(* components of MCTransport: each is an instance under its own name, and  *)
(* every step of the whole is a step of one of them.                       *)
(***************************************************************************)
EXTENDS MCTransport, Integers, Sequences, TLAPS

-----------------------------------------------------------------------------
(* HttpLink: no registration forgotten, no event lost in silence.          *)

Messages == {"offer", "answer"} \cup Nat

HttpTypes ==
  /\ httpGate \in {None, "connect", "poll", "cleanup"}
  /\ httpDial \in {"idle", "stop", "reset", "clear", "open", "shake", "ready"}
  /\ httpAdmitted \in BOOLEAN /\ stranded \in BOOLEAN /\ httpConnected \in BOOLEAN
  /\ httpChannel \in {"none", "opened", "answered", "ready"}
  /\ poll \in [Http!PollTasks -> {"none", "asleep", "polls", "failed", "done"}]
  /\ pollTask \in {0} \cup Http!PollTasks
  /\ httpSession \in Nat /\ peer \in Nat /\ sessions \in Nat /\ httpSent \in Nat /\ httpGot \in Nat
  /\ queue \in Seq(Messages)

(* The gate keeps connects and polls apart, and one poll from another.     *)
GateInv ==
  /\ httpDial # "idle" <=> httpGate = "connect"
  /\ \A n \in Http!PollTasks : poll[n] = "polls" => httpGate = "poll"
  /\ \A n, m \in Http!PollTasks : poll[n] = "polls" /\ poll[m] = "polls" => n = m

(* A connect asks for a session only where no admitted one is left, so that *)
(* a registration the hub has sent events over is one the client has to     *)
(* end.                                                                     *)
PeerInv ==
  /\ peer # 0 /\ ~ stranded => httpAdmitted
  /\ peer # 0 /\ httpSent > 0 => httpAdmitted
  /\ httpChannel = "ready" /\ peer = httpSession => httpAdmitted
  /\ httpDial \in {"clear", "open"} => ~ httpAdmitted
  /\ httpDial \in {"shake", "ready"} => httpAdmitted
  /\ httpDial = "open" => httpChannel = "opened"
  /\ httpDial = "shake" => httpChannel \in {"opened", "answered"}

(* The sessions are told apart, and what waits at the hub is of this one.  *)
QueueInv ==
  /\ peer <= sessions /\ httpSession <= sessions
  /\ httpChannel \in {"answered", "ready"} => httpSession # 0
  /\ httpDial = "shake" /\ peer # 0 => httpSent = 0
  /\ httpDial = "shake" /\ httpChannel = "answered" /\ peer = httpSession
       => queue \in {<<>>, <<"answer">>}
  /\ httpChannel = "ready" /\ peer = httpSession => httpGot + Len(queue) = httpSent

HubTypes ==
  /\ peer \in Nat /\ sessions \in Nat /\ httpSent \in Nat
  /\ queue \in Seq(Messages) /\ stranded \in BOOLEAN

HttpInv == HttpTypes /\ GateInv /\ PeerInv /\ QueueInv

LEMMA Queues ==
  /\ <<>> \in Seq(Messages) /\ <<"offer">> \in Seq(Messages) /\ <<"answer">> \in Seq(Messages)
  /\ \A q \in Seq(Messages), n \in Nat : Append(q, n) \in Seq(Messages)
  /\ \A q \in Seq(Messages) : q # <<>> => Tail(q) \in Seq(Messages)
  /\ \A q \in Seq(Messages) : Len(q) \in Nat
<1>1. <<>> \in Seq(Messages)
  OBVIOUS
<1>2. \A m \in Messages : <<m>> \in Seq(Messages)
  OBVIOUS
<1>3. "offer" \in Messages /\ "answer" \in Messages /\ \A n \in Nat : n \in Messages
  BY DEF Messages
<1>4. \A q \in Seq(Messages) : \A m \in Messages : Append(q, m) \in Seq(Messages)
  OBVIOUS
<1>5. \A q \in Seq(Messages) : q # <<>> => Tail(q) \in Seq(Messages)
  OBVIOUS
<1>6. \A q \in Seq(Messages) : Len(q) \in Nat
  OBVIOUS
<1>7. QED
  BY <1>1, <1>2, <1>3, <1>4, <1>5, <1>6

LEMMA Requests ==
  ASSUME HttpTypes, NEW fate
  PROVE  /\ Http!HubConnects(fate) => HubTypes'
         /\ Http!HubDisconnects(fate) => HubTypes'
         /\ Http!Fetches(fate) => queue' \in Seq(Messages)
<1> USE DEF Http!hubVars
<1>1. ASSUME Http!HubConnects(fate) PROVE HubTypes'
  <2>1. queue' \in Seq(Messages)
    BY <1>1, Queues DEF Http!HubConnects, HttpTypes
  <2>2. peer' \in Nat /\ sessions' \in Nat /\ httpSent' \in Nat
    BY <1>1 DEF Http!HubConnects, HttpTypes
  <2>3. stranded' \in BOOLEAN
    BY <1>1 DEF Http!HubConnects, HttpTypes
  <2>4. QED
    BY <2>1, <2>2, <2>3 DEF HubTypes
<1>2. ASSUME Http!HubDisconnects(fate) PROVE HubTypes'
  <2>1. queue' \in Seq(Messages)
    BY <1>2, Queues DEF Http!HubDisconnects, HttpTypes
  <2>2. peer' \in Nat /\ sessions' \in Nat /\ httpSent' \in Nat
    BY <1>2 DEF Http!HubDisconnects, HttpTypes
  <2>3. stranded' \in BOOLEAN
    BY <1>2 DEF Http!HubDisconnects, HttpTypes
  <2>4. QED
    BY <2>1, <2>2, <2>3 DEF HubTypes
<1>3. ASSUME Http!Fetches(fate) PROVE queue' \in Seq(Messages)
  BY <1>3, Queues DEF Http!Fetches, HttpTypes
<1>4. QED
  BY <1>1, <1>2, <1>3

LEMMA HttpStarts == ASSUME Http!HttpAssumption, Http!Init PROVE HttpInv
<1>1. HttpTypes
  BY Queues DEF Http!HttpAssumption, Http!Init, HttpTypes
<1>2. GateInv /\ PeerInv /\ QueueInv
  BY DEF Http!HttpAssumption, Http!Init, GateInv, PeerInv, QueueInv
<1>3. QED
  BY <1>1, <1>2 DEF HttpInv

LEMMA HttpTypesKeep ==
  ASSUME Http!HttpAssumption, HttpInv, Http!Next
  PROVE  HttpTypes'
<1> USE DEF Http!HttpAssumption, Http!dialVars, Http!healthVars, Http!verdicts, Http!linkVars,
            Http!pollVars, Http!hubVars, Http!MarkError, Http!StopPolling, Http!AttemptFails,
            Http!ActedOn, Http!Fates, Http!Answered
<1>1. CASE Http!HubSends
  <2>1. httpSent' \in Nat
    BY <1>1 DEF Http!HubSends, HttpInv, HttpTypes
  <2>2. queue' = Append(queue, httpSent')
    BY <1>1 DEF Http!HubSends
  <2>3. queue' \in Seq(Messages)
    BY <2>1, <2>2, Queues DEF HttpInv, HttpTypes
  <2>4. QED
    BY <1>1, <2>1, <2>3 DEF Http!HubSends, HttpInv, HttpTypes
<1>2. CASE Http!HubForgets
  BY <1>2, Queues DEF Http!HubForgets, HttpInv, HttpTypes
<1>3. CASE Http!Begin
  BY <1>3, Queues DEF Http!Begin, HttpInv, HttpTypes
<1>4. CASE Http!StopsPolling
  BY <1>4, Queues DEF Http!StopsPolling, HttpInv, HttpTypes
<1>5. CASE Http!Reset
  <2>1. HubTypes'
    BY <1>5, Requests DEF Http!Reset, HttpInv, HttpTypes, HubTypes
  <2>2. httpGate' \in {None, "connect", "poll", "cleanup"} /\ httpAdmitted' \in BOOLEAN /\ httpConnected' \in BOOLEAN
    BY <1>5 DEF Http!Reset, HttpInv, HttpTypes
  <2>3. httpDial' \in {"idle", "stop", "reset", "clear", "open", "shake", "ready"}
    BY <1>5 DEF Http!Reset, HttpInv, HttpTypes
  <2>4. httpChannel' \in {"none", "opened", "answered", "ready"} /\ httpSession' \in Nat
    BY <1>5 DEF Http!Reset, HttpInv, HttpTypes
  <2>5. poll' = poll /\ pollTask' = pollTask /\ httpGot' = httpGot
    BY <1>5 DEF Http!Reset
  <2>6. QED
    BY <2>1, <2>2, <2>3, <2>4, <2>5 DEF HttpInv, HttpTypes, HubTypes
<1>6. CASE Http!Clear
  BY <1>6, Queues DEF Http!Clear, HttpInv, HttpTypes
<1>7. CASE Http!Open
  <2>1. HubTypes'
    BY <1>7, Requests DEF Http!Open, HttpInv, HttpTypes, HubTypes
  <2>2. httpGate' \in {None, "connect", "poll", "cleanup"} /\ httpAdmitted' \in BOOLEAN /\ httpConnected' \in BOOLEAN
    BY <1>7 DEF Http!Open, HttpInv, HttpTypes
  <2>3. httpDial' \in {"idle", "stop", "reset", "clear", "open", "shake", "ready"}
    BY <1>7 DEF Http!Open, HttpInv, HttpTypes
  <2>4. httpChannel' \in {"none", "opened", "answered", "ready"} /\ httpSession' \in Nat
    BY <1>7 DEF Http!Open, HttpInv, HttpTypes
  <2>5. poll' = poll /\ pollTask' = pollTask /\ httpGot' = httpGot
    BY <1>7 DEF Http!Open
  <2>6. QED
    BY <2>1, <2>2, <2>3, <2>4, <2>5 DEF HttpInv, HttpTypes, HubTypes
<1>8. CASE Http!GivesUp
  BY <1>8, Queues DEF Http!GivesUp, HttpInv, HttpTypes
<1>9. CASE Http!Ready
  BY <1>9, Queues DEF Http!Ready, HttpInv, HttpTypes
<1>10. CASE Http!Abandon
  <2>1. HubTypes'
    BY <1>10, Requests, Queues DEF Http!Abandon, HttpInv, HttpTypes, HubTypes, Http!hubVars
  <2>2. QED
    BY <1>10, <2>1 DEF Http!Abandon, HttpInv, HttpTypes, HubTypes
<1>11. CASE Http!Disconnect
  BY <1>11, Queues DEF Http!Disconnect, HttpInv, HttpTypes
<1>12. CASE Http!CleanupBegins
  BY <1>12, Queues DEF Http!CleanupBegins, HttpInv, HttpTypes
<1>13. CASE Http!CleanupAsks
  <2>1. HubTypes'
    BY <1>13, Requests DEF Http!CleanupAsks, HttpInv, HttpTypes, HubTypes
  <2>2. QED
    BY <1>13, <2>1 DEF Http!CleanupAsks, HttpInv, HttpTypes, HubTypes
<1>14. CASE Http!SendFails
  BY <1>14, Queues DEF Http!SendFails, HttpInv, HttpTypes
<1>15. CASE Http!Shake
  <2>1. queue' \in Seq(Messages)
    <3>1. \/ queue' = queue \/ queue' = <<>> \/ queue' = <<"answer">>
          \/ queue' = Tail(queue) /\ queue # <<>>
      BY <1>15, ZenonT(60) DEF Http!Shake, Http!Fetches
    <3>2. QED
      BY <3>1, Queues DEF HttpInv, HttpTypes
  <2>2. httpChannel' \in {"none", "opened", "answered", "ready"} /\ httpSession' \in Nat /\ httpGot' \in Nat
    BY <1>15 DEF Http!Shake, HttpInv, HttpTypes
  <2>3. httpConnected' \in BOOLEAN
    <3>1. httpConnected' = httpConnected \/ httpConnected' = FALSE
      BY <1>15, ZenonT(60) DEF Http!Shake, Http!MarkError, Http!linkVars
    <3>2. QED
      BY <3>1 DEF HttpInv, HttpTypes
  <2>4. httpGate' \in {None, "connect", "poll", "cleanup"} /\ httpDial' \in {"idle", "stop", "reset", "clear", "open", "shake", "ready"}
    BY <1>15 DEF Http!Shake, HttpInv, HttpTypes
  <2>5. QED
    BY <1>15, <2>1, <2>2, <2>3, <2>4 DEF Http!Shake, HttpInv, HttpTypes
<1>16. ASSUME NEW n \in Http!PollTasks, Http!PollWakes(n) PROVE HttpTypes'
  BY <1>16, Queues DEF Http!PollWakes, HttpInv, HttpTypes
<1>17. ASSUME NEW n \in Http!PollTasks, Http!Polls(n) PROVE HttpTypes'
  <2>1. queue' \in Seq(Messages)
    BY <1>17, Requests DEF Http!Polls, HttpInv, HttpTypes
  <2>2. httpGot' \in Nat
    BY <1>17, Queues DEF Http!Polls, HttpInv, HttpTypes
  <2>3. poll' \in [Http!PollTasks -> {"none", "asleep", "polls", "failed", "done"}]
    BY <1>17 DEF Http!Polls, HttpInv, HttpTypes
  <2>4. httpChannel' \in {"none", "opened", "answered", "ready"} /\ httpSession' \in Nat /\ httpConnected' \in BOOLEAN
    <3>1. \/ UNCHANGED <<httpChannel, httpSession, httpConnected>>
          \/ httpChannel' = "none" /\ httpSession' = 0 /\ httpConnected' = FALSE
      <4>1. CASE ~ httpConnected
        BY <1>17, <4>1 DEF Http!Polls
      <4>2. CASE httpConnected
        <5>1. PICK fate \in Http!Fates :
                 \/ Http!Answered(fate) /\ UNCHANGED Http!linkVars
                 \/ ~ Http!Answered(fate) /\ Http!MarkError
          BY <1>17, <4>2 DEF Http!Polls
        <5>2. QED
          BY <5>1
      <4>3. QED
        BY <4>1, <4>2
    <3>2. httpChannel \in {"none", "opened", "answered", "ready"} /\ httpSession \in Nat /\ httpConnected \in BOOLEAN
      BY DEF HttpInv, HttpTypes
    <3>3. CASE UNCHANGED <<httpChannel, httpSession, httpConnected>>
      BY <3>2, <3>3
    <3>4. CASE httpChannel' = "none" /\ httpSession' = 0 /\ httpConnected' = FALSE
      BY <3>4
    <3>5. QED
      BY <3>1, <3>3, <3>4
  <2>5. UNCHANGED <<httpDial, httpAdmitted, pollTask, peer, sessions, httpSent, stranded>> /\ httpGate' = None
    BY <1>17 DEF Http!Polls
  <2>6. QED
    BY <2>1, <2>2, <2>3, <2>4, <2>5 DEF HttpInv, HttpTypes
<1>18. ASSUME NEW n \in Http!PollTasks, Http!PollEnds(n) PROVE HttpTypes'
  BY <1>18, Queues DEF Http!PollEnds, HttpInv, HttpTypes
<1>19. QED
  BY <1>1, <1>2, <1>3, <1>4, <1>5, <1>6, <1>7, <1>8, <1>9, <1>10, <1>11, <1>12, <1>13, <1>14, <1>15, <1>16, <1>17, <1>18 DEF Http!Next

LEMMA GateKeeps ==
  ASSUME Http!HttpAssumption, HttpInv, Http!Next
  PROVE  GateInv'
<1> USE DEF Http!HttpAssumption, Http!dialVars, Http!healthVars, Http!verdicts, Http!linkVars,
            Http!pollVars, Http!hubVars, Http!MarkError, Http!StopPolling, Http!AttemptFails,
            Http!HubConnects, Http!HubDisconnects, Http!ActedOn, Http!Fates, Http!Fetches, Http!Answered
<1>1. CASE Http!HubSends
  BY <1>1 DEF Http!HubSends, HttpInv, HttpTypes, GateInv
<1>2. CASE Http!HubForgets
  BY <1>2 DEF Http!HubForgets, HttpInv, HttpTypes, GateInv
<1>3. CASE Http!Begin
  BY <1>3 DEF Http!Begin, HttpInv, HttpTypes, GateInv
<1>4. CASE Http!StopsPolling
  BY <1>4 DEF Http!StopsPolling, HttpInv, HttpTypes, GateInv
<1>5. CASE Http!Reset
  BY <1>5 DEF Http!Reset, HttpInv, HttpTypes, GateInv
<1>6. CASE Http!Clear
  BY <1>6 DEF Http!Clear, HttpInv, HttpTypes, GateInv
<1>7. CASE Http!Open
  BY <1>7 DEF Http!Open, HttpInv, HttpTypes, GateInv
<1>8. CASE Http!GivesUp
  BY <1>8 DEF Http!GivesUp, HttpInv, HttpTypes, GateInv
<1>9. CASE Http!Ready
  BY <1>9 DEF Http!Ready, HttpInv, HttpTypes, GateInv
<1>10. CASE Http!Abandon
  BY <1>10 DEF Http!Abandon, HttpInv, HttpTypes, GateInv
<1>11. CASE Http!Disconnect
  BY <1>11 DEF Http!Disconnect, HttpInv, HttpTypes, GateInv
<1>12. CASE Http!CleanupBegins
  BY <1>12 DEF Http!CleanupBegins, HttpInv, HttpTypes, GateInv
<1>13. CASE Http!CleanupAsks
  BY <1>13 DEF Http!CleanupAsks, HttpInv, HttpTypes, GateInv
<1>14. CASE Http!SendFails
  BY <1>14 DEF Http!SendFails, HttpInv, HttpTypes, GateInv
<1>15. CASE Http!Shake
  BY <1>15 DEF Http!Shake, HttpInv, HttpTypes, GateInv
<1>16. ASSUME NEW n \in Http!PollTasks, Http!PollWakes(n) PROVE GateInv'
  BY <1>16 DEF Http!PollWakes, HttpInv, HttpTypes, GateInv
<1>17. ASSUME NEW n \in Http!PollTasks, Http!Polls(n) PROVE GateInv'
  BY <1>17 DEF Http!Polls, HttpInv, HttpTypes, GateInv
<1>18. ASSUME NEW n \in Http!PollTasks, Http!PollEnds(n) PROVE GateInv'
  BY <1>18 DEF Http!PollEnds, HttpInv, HttpTypes, GateInv
<1>19. QED
  BY <1>1, <1>2, <1>3, <1>4, <1>5, <1>6, <1>7, <1>8, <1>9, <1>10, <1>11, <1>12, <1>13, <1>14, <1>15, <1>16, <1>17, <1>18 DEF Http!Next

LEMMA PeerKeeps ==
  ASSUME Http!HttpAssumption, HttpInv, Http!Next
  PROVE  PeerInv'
<1> USE DEF Http!HttpAssumption, Http!dialVars, Http!healthVars, Http!verdicts, Http!linkVars,
            Http!pollVars, Http!hubVars, Http!MarkError, Http!StopPolling, Http!AttemptFails,
            Http!HubConnects, Http!HubDisconnects, Http!ActedOn, Http!Fates, Http!Fetches, Http!Answered
<1>1. CASE Http!HubSends
  BY <1>1 DEF Http!HubSends, HttpInv, HttpTypes, GateInv, PeerInv, QueueInv
<1>2. CASE Http!HubForgets
  BY <1>2 DEF Http!HubForgets, HttpInv, HttpTypes, GateInv, PeerInv, QueueInv
<1>3. CASE Http!Begin
  BY <1>3 DEF Http!Begin, HttpInv, HttpTypes, GateInv, PeerInv, QueueInv
<1>4. CASE Http!StopsPolling
  BY <1>4 DEF Http!StopsPolling, HttpInv, HttpTypes, GateInv, PeerInv, QueueInv
<1>5. CASE Http!Reset
  BY <1>5 DEF Http!Reset, HttpInv, HttpTypes, GateInv, PeerInv, QueueInv
<1>6. CASE Http!Clear
  BY <1>6 DEF Http!Clear, HttpInv, HttpTypes, GateInv, PeerInv, QueueInv
<1>7. CASE Http!Open
  <2>1. PICK fate \in Http!Fates :
           /\ Http!HubConnects(fate)
           /\ IF fate = "answered"
              THEN httpAdmitted' = TRUE /\ httpDial' = "shake" /\ httpChannel' = httpChannel
              ELSE httpAdmitted' = httpAdmitted /\ httpChannel' = "none" /\ httpDial' = "idle"
    BY <1>7 DEF Http!Open
  <2>2. CASE fate = "answered"
    BY <1>7, <2>1, <2>2 DEF Http!Open, HttpInv, HttpTypes, PeerInv
  <2>3. CASE fate = "unanswered"
    <3>1. stranded'
      BY <2>1, <2>3
    <3>2. (peer' = peer /\ httpSent' = httpSent) \/ httpSent' = 0
      BY <2>1, <2>3
    <3>3. QED
      BY <2>1, <2>3, <3>1, <3>2 DEF HttpInv, HttpTypes, PeerInv
  <2>4. CASE fate \in {"lost", "refused"}
    BY <2>1, <2>4 DEF HttpInv, HttpTypes, PeerInv
  <2>5. QED
    BY <2>1, <2>2, <2>3, <2>4
<1>8. CASE Http!GivesUp
  BY <1>8 DEF Http!GivesUp, HttpInv, HttpTypes, GateInv, PeerInv, QueueInv
<1>9. CASE Http!Ready
  BY <1>9 DEF Http!Ready, HttpInv, HttpTypes, GateInv, PeerInv, QueueInv
<1>10. CASE Http!Abandon
  <2>0. httpDial' = "idle" /\ httpAdmitted' = httpAdmitted /\ httpChannel' = httpChannel /\ httpSession' = httpSession
    BY <1>10 DEF Http!Abandon
  <2>1. CASE httpDial = "open"
    <3>1. PICK fate \in {"unanswered", "lost"} : Http!HubConnects(fate)
      BY <1>10, <2>1 DEF Http!Abandon
    <3>2. CASE fate = "unanswered"
      <4>1. stranded'
        BY <3>1, <3>2
      <4>2. (peer' = peer /\ httpSent' = httpSent) \/ httpSent' = 0
        BY <3>1, <3>2
      <4>3. QED
        BY <2>0, <2>1, <4>1, <4>2 DEF HttpInv, HttpTypes, PeerInv
    <3>3. CASE fate = "lost"
      BY <2>0, <2>1, <3>1, <3>3 DEF HttpInv, HttpTypes, PeerInv
    <3>4. QED
      BY <3>1, <3>2, <3>3
  <2>2. CASE httpDial = "reset"
    <3>1. PICK fate \in {"unanswered", "lost"} : Http!HubDisconnects(fate)
      BY <1>10, <2>2 DEF Http!Abandon
    <3>2. CASE fate = "unanswered"
      BY <2>0, <2>2, <3>1, <3>2 DEF HttpInv, HttpTypes, PeerInv, QueueInv
    <3>3. CASE fate = "lost"
      BY <2>0, <2>2, <3>1, <3>3 DEF HttpInv, HttpTypes, PeerInv
    <3>4. QED
      BY <3>1, <3>2, <3>3
  <2>3. CASE httpDial \notin {"open", "reset"}
    <3>1. UNCHANGED <<peer, sessions, httpSent, stranded>>
      BY <1>10, <2>3 DEF Http!Abandon
    <3>2. QED
      BY <2>0, <2>3, <3>1 DEF HttpInv, HttpTypes, PeerInv
  <2>4. QED
    BY <2>1, <2>2, <2>3
<1>11. CASE Http!Disconnect
  BY <1>11 DEF Http!Disconnect, HttpInv, HttpTypes, GateInv, PeerInv, QueueInv
<1>12. CASE Http!CleanupBegins
  BY <1>12 DEF Http!CleanupBegins, HttpInv, HttpTypes, GateInv, PeerInv, QueueInv
<1>13. CASE Http!CleanupAsks
  BY <1>13 DEF Http!CleanupAsks, HttpInv, HttpTypes, GateInv, PeerInv, QueueInv
<1>14. CASE Http!SendFails
  BY <1>14 DEF Http!SendFails, HttpInv, HttpTypes, GateInv, PeerInv, QueueInv
<1>15. CASE Http!Shake
  BY <1>15 DEF Http!Shake, HttpInv, HttpTypes, GateInv, PeerInv, QueueInv
<1>16. ASSUME NEW n \in Http!PollTasks, Http!PollWakes(n) PROVE PeerInv'
  BY <1>16 DEF Http!PollWakes, HttpInv, HttpTypes, GateInv, PeerInv, QueueInv
<1>17. ASSUME NEW n \in Http!PollTasks, Http!Polls(n) PROVE PeerInv'
  BY <1>17 DEF Http!Polls, HttpInv, HttpTypes, GateInv, PeerInv, QueueInv
<1>18. ASSUME NEW n \in Http!PollTasks, Http!PollEnds(n) PROVE PeerInv'
  BY <1>18 DEF Http!PollEnds, HttpInv, HttpTypes, GateInv, PeerInv, QueueInv
<1>19. QED
  BY <1>1, <1>2, <1>3, <1>4, <1>5, <1>6, <1>7, <1>8, <1>9, <1>10, <1>11, <1>12, <1>13, <1>14, <1>15, <1>16, <1>17, <1>18 DEF Http!Next

LEMMA QueueKeeps ==
  ASSUME Http!HttpAssumption, HttpInv, Http!Next
  PROVE  QueueInv'
<1> USE DEF Http!HttpAssumption, Http!dialVars, Http!healthVars, Http!verdicts, Http!linkVars,
            Http!pollVars, Http!hubVars, Http!MarkError, Http!StopPolling, Http!AttemptFails,
            Http!HubConnects, Http!HubDisconnects, Http!ActedOn, Http!Fates, Http!Fetches, Http!Answered
<1>1. CASE Http!HubSends
  BY <1>1 DEF Http!HubSends, HttpInv, HttpTypes, GateInv, PeerInv, QueueInv
<1>2. CASE Http!HubForgets
  BY <1>2 DEF Http!HubForgets, HttpInv, HttpTypes, GateInv, PeerInv, QueueInv
<1>3. CASE Http!Begin
  BY <1>3 DEF Http!Begin, HttpInv, HttpTypes, GateInv, PeerInv, QueueInv
<1>4. CASE Http!StopsPolling
  BY <1>4 DEF Http!StopsPolling, HttpInv, HttpTypes, GateInv, PeerInv, QueueInv
<1>5. CASE Http!Reset
  BY <1>5 DEF Http!Reset, HttpInv, HttpTypes, GateInv, PeerInv, QueueInv
<1>6. CASE Http!Clear
  BY <1>6 DEF Http!Clear, HttpInv, HttpTypes, GateInv, PeerInv, QueueInv
<1>7. CASE Http!Open
  BY <1>7 DEF Http!Open, HttpInv, HttpTypes, GateInv, PeerInv, QueueInv
<1>8. CASE Http!GivesUp
  BY <1>8 DEF Http!GivesUp, HttpInv, HttpTypes, GateInv, PeerInv, QueueInv
<1>9. CASE Http!Ready
  BY <1>9 DEF Http!Ready, HttpInv, HttpTypes, GateInv, PeerInv, QueueInv
<1>10. CASE Http!Abandon
  BY <1>10 DEF Http!Abandon, HttpInv, HttpTypes, GateInv, PeerInv, QueueInv
<1>11. CASE Http!Disconnect
  BY <1>11 DEF Http!Disconnect, HttpInv, HttpTypes, GateInv, PeerInv, QueueInv
<1>12. CASE Http!CleanupBegins
  BY <1>12 DEF Http!CleanupBegins, HttpInv, HttpTypes, GateInv, PeerInv, QueueInv
<1>13. CASE Http!CleanupAsks
  BY <1>13 DEF Http!CleanupAsks, HttpInv, HttpTypes, GateInv, PeerInv, QueueInv
<1>14. CASE Http!SendFails
  BY <1>14 DEF Http!SendFails, HttpInv, HttpTypes, GateInv, PeerInv, QueueInv
<1>15. CASE Http!Shake
  BY <1>15 DEF Http!Shake, HttpInv, HttpTypes, GateInv, PeerInv, QueueInv
<1>16. ASSUME NEW n \in Http!PollTasks, Http!PollWakes(n) PROVE QueueInv'
  BY <1>16 DEF Http!PollWakes, HttpInv, HttpTypes, GateInv, PeerInv, QueueInv
<1>17. ASSUME NEW n \in Http!PollTasks, Http!Polls(n) PROVE QueueInv'
  BY <1>17 DEF Http!Polls, HttpInv, HttpTypes, GateInv, PeerInv, QueueInv
<1>18. ASSUME NEW n \in Http!PollTasks, Http!PollEnds(n) PROVE QueueInv'
  BY <1>18 DEF Http!PollEnds, HttpInv, HttpTypes, GateInv, PeerInv, QueueInv
<1>19. QED
  BY <1>1, <1>2, <1>3, <1>4, <1>5, <1>6, <1>7, <1>8, <1>9, <1>10, <1>11, <1>12, <1>13, <1>14, <1>15, <1>16, <1>17, <1>18 DEF Http!Next

LEMMA HttpStays ==
  ASSUME HttpInv, UNCHANGED Http!httpVars
  PROVE  HttpInv'
<1>1. /\ UNCHANGED <<httpGate, httpDial, httpOwed, httpCancelled, httpAdmitted, httpChannel, httpSession, httpConnected, httpComplete>>
      /\ UNCHANGED <<poll, pollTask, peer, sessions, queue, httpSent, stranded, httpGot>>
  BY DEF Http!httpVars, Http!dialVars, Http!linkVars, Http!healthVars, Http!pollVars, Http!hubVars
<1>2. HttpTypes' /\ GateInv' /\ PeerInv' /\ QueueInv'
  BY <1>1 DEF HttpInv, HttpTypes, GateInv, PeerInv, QueueInv
<1>3. QED
  BY <1>2 DEF HttpInv

LEMMA HttpStep ==
  ASSUME Http!HttpAssumption, HttpInv, [Http!Next]_(Http!httpVars)
  PROVE  HttpInv'
<1>1. CASE Http!Next
  <2>1. HttpTypes' /\ GateInv' /\ PeerInv' /\ QueueInv'
    BY <1>1, HttpTypesKeep, GateKeeps, PeerKeeps, QueueKeeps
  <2>2. QED
    BY <2>1 DEF HttpInv
<1>2. CASE UNCHANGED Http!httpVars
  BY <1>2, HttpStays
<1>3. QED
  BY <1>1, <1>2

(* The hub holds no registration for this client that the client does not  *)
(* know it has to end, but for a /connect that went unanswered: `admitted' *)
(* of HttpTransportState is set before a handshake starts and falls only   *)
(* with an answer of /disconnect, or a goodbye that was heard.             *)
THEOREM NoOrphanLeft ==
  ASSUME Http!HttpAssumption
  PROVE  Http!Spec => []Http!NoOrphanPeer
<1>1. Http!Init => HttpInv
  BY HttpStarts
<1>2. HttpInv /\ [Http!Next]_(Http!httpVars) => HttpInv'
  BY HttpStep
<1>3. HttpInv => Http!NoOrphanPeer
  BY DEF HttpInv, PeerInv, Http!NoOrphanPeer
<1>4. QED
  BY <1>1, <1>2, <1>3, PTL DEF Http!Spec

(* While the link is told to be up, every event of the session that was    *)
(* sent was dispatched or still waits at the hub: a poll that hands a      *)
(* batch over and is not heard takes the channel down (poll_once).         *)
THEOREM NoGapOnALink ==
  ASSUME Http!HttpAssumption
  PROVE  Http!Spec => []Http!NoSilentGap
<1>1. Http!Init => HttpInv
  BY HttpStarts
<1>2. HttpInv /\ [Http!Next]_(Http!httpVars) => HttpInv'
  BY HttpStep
<1>3. HttpInv => Http!NoSilentGap
  BY DEF HttpInv, QueueInv, Http!NoSilentGap
<1>4. QED
  BY <1>1, <1>2, <1>3, PTL DEF Http!Spec

-----------------------------------------------------------------------------
(* EventStream: what a listener is handed is every match since it asked.   *)

StreamTypes ==
  /\ events \in Seq(BOOLEAN) /\ streamReceived \in Seq(Nat)
  /\ position \in Nat /\ from \in Nat
  /\ from <= position /\ position <= Len(events)

(* A recv() is pending only on a stream that was asked for.                *)
StreamAsked ==
  /\ stream = "none" => streamReceived = <<>>
  /\ receiving => stream # "none"

Handed == {streamReceived[i] : i \in DOMAIN streamReceived}
Matching == {n \in from + 1 .. position : events[n]}

StreamInv ==
  /\ StreamTypes /\ StreamAsked
  /\ Handed = Matching
  /\ \A i, j \in DOMAIN streamReceived : i < j => streamReceived[i] < streamReceived[j]

LEMMA StreamStarts == ASSUME Stream!EventStreamInit PROVE StreamInv
  BY DEF Stream!EventStreamInit, StreamInv, StreamTypes, StreamAsked, Handed, Matching

(* What is handed over last is greater than all that was before.           *)
Rises(r) == \A i, j \in DOMAIN r : i < j => r[i] < r[j]
Entries(r) == {r[i] : i \in DOMAIN r}

LEMMA TakesOne ==
  ASSUME NEW r \in Seq(Nat), NEW b \in Nat, NEW n, NEW q,
         \A i \in DOMAIN r : r[i] \in 1 .. b, n = b + 1, q = Append(r, n), Rises(r)
  PROVE  q \in Seq(Nat) /\ Entries(q) = Entries(r) \cup {n} /\ Rises(q)
<1> USE DEF Rises, Entries
<1>1. /\ q \in Seq(Nat) /\ DOMAIN r = 1 .. Len(r) /\ DOMAIN q = 1 .. Len(r) + 1
      /\ Len(r) \in Nat /\ \A i \in 1 .. Len(r) : q[i] = r[i]
      /\ q[Len(r) + 1] = n
  OBVIOUS
<1>2. \A i \in DOMAIN r : r[i] < n /\ r[i] \in Nat
  <2>1. TAKE i \in DOMAIN r
  <2>2. r[i] \in 1 .. b
    OBVIOUS
  <2>3. QED
    BY <2>2
<1>3. {q[i] : i \in DOMAIN q} = {r[i] : i \in DOMAIN r} \cup {n}
  BY <1>1
<1>4. ASSUME NEW i \in DOMAIN q, NEW j \in DOMAIN q, i < j PROVE q[i] < q[j]
  <2>1. i \in DOMAIN r /\ q[i] = r[i]
    BY <1>1, <1>4
  <2>2. CASE j = Len(r) + 1
    BY <1>1, <1>2, <2>1, <2>2
  <2>3. CASE j # Len(r) + 1
    <3>1. j \in DOMAIN r /\ q[j] = r[j]
      BY <1>1, <1>4, <2>3
    <3>2. QED
      BY <1>4, <2>1, <3>1
  <2>4. QED
    BY <2>2, <2>3
<1>5. QED
  BY <1>1, <1>3, <1>4

LEMMA StreamTakes == ASSUME StreamInv, Stream!Takes PROVE StreamInv'
<1>1. /\ events' = events /\ from' = from /\ position' = position + 1
      /\ position + 1 <= Len(events)
  BY DEF Stream!Takes, StreamInv, StreamTypes
<1>2. position + 1 \in DOMAIN events /\ events[position + 1] \in BOOLEAN
  BY <1>1 DEF StreamInv, StreamTypes
<1>3. CASE events[position + 1]
  <2>1. streamReceived' = Append(streamReceived, position + 1) /\ stream' # "none" /\ receiving' = FALSE
    BY <1>3 DEF Stream!Takes, StreamInv, StreamAsked
  <2>2. Matching \subseteq 1 .. position
    BY DEF StreamInv, StreamTypes, Matching
  <2>3. Matching' = Matching \cup {position + 1}
    BY <1>1, <1>3 DEF StreamInv, StreamTypes, Matching
  <2>4. /\ streamReceived' \in Seq(Nat)
        /\ {streamReceived'[i] : i \in DOMAIN streamReceived'} = Matching \cup {position + 1}
        /\ \A i, j \in DOMAIN streamReceived' : i < j => streamReceived'[i] < streamReceived'[j]
    <3>1. streamReceived \in Seq(Nat) /\ position \in Nat /\ {streamReceived[i] : i \in DOMAIN streamReceived} = Matching
      BY DEF StreamInv, StreamTypes, Handed
    <3>6. \A i \in DOMAIN streamReceived : streamReceived[i] \in 1 .. position
      BY <2>2, <3>1
    <3>2. \A i, j \in DOMAIN streamReceived : i < j => streamReceived[i] < streamReceived[j]
      BY DEF StreamInv
    <3>3. PICK q : q = streamReceived'
      OBVIOUS
    <3>4. /\ q \in Seq(Nat)
          /\ {q[i] : i \in DOMAIN q} = {streamReceived[i] : i \in DOMAIN streamReceived} \cup {position + 1}
          /\ \A i, j \in DOMAIN q : i < j => q[i] < q[j]
      <4>1. q = Append(streamReceived, position + 1)
        BY <2>1, <3>3
      <4>2. PICK r \in Seq(Nat), b \in Nat : r = streamReceived /\ b = position
        BY <3>1
      <4>3. PICK n : n = b + 1
        OBVIOUS
      <4>4. (\A i \in DOMAIN r : r[i] \in 1 .. b) /\ q = Append(r, n) /\ Rises(r)
        BY <3>2, <3>6, <4>1, <4>2, <4>3 DEF Rises
      <4>5. q \in Seq(Nat) /\ Entries(q) = Entries(r) \cup {n} /\ Rises(q)
        BY <4>3, <4>4, TakesOne
      <4>6. QED
        BY <4>2, <4>3, <4>5 DEF Rises, Entries
    <3>5. QED
      BY <3>1, <3>3, <3>4
  <2>5. Handed' = Matching'
    BY <2>3, <2>4 DEF Handed
  <2>6. StreamTypes' /\ StreamAsked'
    BY <1>1, <2>1, <2>4 DEF StreamInv, StreamTypes, StreamAsked
  <2>7. QED
    BY <2>4, <2>5, <2>6 DEF StreamInv
<1>4. CASE ~ events[position + 1]
  <2>1. streamReceived' = streamReceived /\ stream' = stream /\ receiving' = receiving
    BY <1>4 DEF Stream!Takes
  <2>2. Matching' = Matching
    BY <1>1, <1>4 DEF StreamInv, StreamTypes, Matching
  <2>3. Handed' = Handed
    BY <2>1 DEF Handed
  <2>4. QED
    BY <1>1, <2>1, <2>2, <2>3 DEF StreamInv, StreamTypes, StreamAsked
<1>5. QED
  BY <1>2, <1>3, <1>4

LEMMA StreamHears ==
  ASSUME StreamInv, NEW matches \in BOOLEAN, Stream!HubSends(matches)
  PROVE  StreamInv'
<1>1. events' = Append(events, matches) /\ UNCHANGED <<position, stream, receiving, streamReceived, from>>
  BY DEF Stream!HubSends
<1>2. /\ events' \in Seq(BOOLEAN) /\ Len(events') = Len(events) + 1
      /\ \A n \in 1 .. Len(events) : events'[n] = events[n]
  BY <1>1 DEF StreamInv, StreamTypes
<1>3. Len(events) \in Nat /\ from + 1 .. position \subseteq 1 .. Len(events)
  BY DEF StreamInv, StreamTypes
<1>4. Matching' = Matching
  BY <1>1, <1>2, <1>3 DEF Matching
<1>5. Handed' = Handed
  BY <1>1 DEF Handed
<1>6. StreamTypes' /\ StreamAsked'
  BY <1>1, <1>2, <1>3 DEF StreamInv, StreamTypes, StreamAsked
<1>7. QED
  BY <1>1, <1>4, <1>5, <1>6 DEF StreamInv

(* listen() subscribes at the end of the ring, before it connects.         *)
LEMMA StreamListens == ASSUME StreamInv, Stream!Listen PROVE StreamInv'
<1>1. /\ position' = Len(events) /\ from' = Len(events) /\ events' = events
      /\ streamReceived' = <<>> /\ stream' = "connecting"
  BY DEF Stream!Listen, StreamInv, StreamAsked
<1>2. Len(events) \in Nat
  BY DEF StreamInv, StreamTypes
<1>3. Matching' = {}
  BY <1>1, <1>2 DEF Matching
<1>4. Handed' = {} /\ \A i, j \in DOMAIN streamReceived' : i < j => streamReceived'[i] < streamReceived'[j]
  BY <1>1 DEF Handed
<1>5. StreamTypes' /\ StreamAsked'
  BY <1>1, <1>2 DEF StreamInv, StreamTypes, StreamAsked
<1>6. QED
  BY <1>3, <1>4, <1>5 DEF StreamInv

LEMMA StreamStep ==
  ASSUME StreamInv, [Stream!EventStreamNext]_(Stream!streamVars)
  PROVE  StreamInv'
<1>1. ASSUME UNCHANGED <<events, position, streamReceived, from>>, StreamAsked'
      PROVE  StreamInv'
  <2>1. Handed' = Handed /\ Matching' = Matching
    BY <1>1 DEF Handed, Matching
  <2>2. QED
    BY <1>1, <2>1 DEF StreamInv, StreamTypes
<1> USE DEF StreamInv, StreamAsked
<1>2. CASE Stream!LinkOpens \/ Stream!LinkAuthenticates \/ Stream!LinkDrops
  BY <1>1, <1>2 DEF Stream!LinkOpens, Stream!LinkAuthenticates, Stream!LinkDrops
<1>3. CASE Stream!Connected \/ Stream!ConnectFails \/ Stream!DeadlinePasses
  BY <1>1, <1>3 DEF Stream!Connected, Stream!ConnectFails, Stream!DeadlinePasses, Stream!Close
<1>4. CASE Stream!Receive \/ Stream!Drop \/ Stream!CloseStream
  BY <1>1, <1>4 DEF Stream!Receive, Stream!Drop, Stream!CloseStream, Stream!Close
<1>5. CASE Stream!Expires \/ Stream!Overflows \/ Stream!Probe
  BY <1>1, <1>5 DEF Stream!Expires, Stream!Overflows, Stream!Probe, Stream!Close
<1>6. CASE UNCHANGED Stream!streamVars
  BY <1>1, <1>6 DEF Stream!streamVars
<1>7. QED
  BY <1>2, <1>3, <1>4, <1>5, <1>6, StreamTakes, StreamHears, StreamListens DEF Stream!EventStreamNext

(* What recv() handed over is every matching event since listen() was      *)
(* called, in order and once: the subscription of stream.rs comes before   *)
(* the connect, and a receiver that lagged behind the ring ends.           *)
THEOREM StreamSkipsNothing ==
  Stream!EventStreamInit /\ [][Stream!EventStreamNext]_(Stream!streamVars)
    => []Stream!NothingSkipped
<1>1. Stream!EventStreamInit => StreamInv
  BY StreamStarts
<1>2. StreamInv /\ [Stream!EventStreamNext]_(Stream!streamVars) => StreamInv'
  BY StreamStep
<1>3. StreamInv => Stream!NothingSkipped
  BY DEF StreamInv, Handed, Matching, Stream!NothingSkipped
<1>4. QED
  BY <1>1, <1>2, <1>3, PTL

-----------------------------------------------------------------------------
(* MqttLink: a link that is told to be up is served, and skips no event.   *)

MqttTypes ==
  /\ mqttReceived \in Seq(Int) /\ frame \in Int
  /\ mqttSent \in Nat /\ mqttGot \in Nat

(* The Noise channel is held by who writes to it.                          *)
LockInv ==
  /\ worker = "writes" => lock = "worker" /\ mqttChannel = "opened"
  /\ send = "writes" => lock = "send"

(* A connect clears what a disconnect() left, so that a cleanup works on a *)
(* cancelled transport; a channel gets ready with its handshake.           *)
ServedInv ==
  /\ mqttOwed \/ mqttGate = "cleanup" => mqttCancelled
  /\ mqttChannel = "ready" => mqttComplete
  /\ Mqtt!UpIsServed

Held == IF worker = "has" THEN 1 ELSE 0

(* What is on its way to the application: the frames the incoming task has *)
(* and those queued for it.  Either one of them ends the link, or they are *)
(* the events the hub sent and the application has not got, in their order.*)
TransitInv ==
  mqttChannel = "ready" /\ loop = "runs" /\ worker \in {"waits", "has"} =>
    \/ worker = "has" /\ frame <= 0
    \/ \E i \in DOMAIN mqttReceived : mqttReceived[i] <= 0
    \/ /\ \A i \in DOMAIN mqttReceived : mqttReceived[i] = mqttGot + Held + i
       /\ worker = "has" => frame = mqttGot + 1
       /\ mqttGot + Held + Len(mqttReceived) = mqttSent

(* Until the handshake is done the hub sends no events.                    *)
OpenedInv ==
  mqttChannel = "opened" =>
    /\ mqttSent = 0 /\ mqttGot = 0
    /\ \A i \in DOMAIN mqttReceived : mqttReceived[i] <= 0

MqttInv == MqttTypes /\ LockInv /\ ServedInv /\ TransitInv /\ OpenedInv

LEMMA MqttStarts == ASSUME Mqtt!MqttAssumption, Mqtt!Init PROVE MqttInv
<1>1. MqttTypes
  BY DEF Mqtt!Init, MqttTypes
<1>2. LockInv /\ TransitInv /\ OpenedInv
  BY DEF Mqtt!Init, LockInv, TransitInv, OpenedInv
<1>3. ServedInv
  BY DEF Mqtt!MqttAssumption, Mqtt!Init, ServedInv, Mqtt!UpIsServed, Mqtt!Up
<1>4. QED
  BY <1>1, <1>2, <1>3 DEF MqttInv

LEMMA MqttTypesKeep ==
  ASSUME Mqtt!MqttAssumption, MqttInv, Mqtt!Next
  PROVE  MqttTypes'
<1> USE DEF Mqtt!MqttAssumption, Mqtt!dialVars, Mqtt!taskVars, Mqtt!linkVars, Mqtt!sendVars, Mqtt!hubVars,
            Mqtt!Greet, Mqtt!Publish, Mqtt!CannotPublish, Mqtt!Listens, Mqtt!MarkDown, Mqtt!Up
<1>1. CASE Mqtt!LoopPublishes
  BY <1>1 DEF Mqtt!LoopPublishes, MqttInv, MqttTypes
<1>2. CASE Mqtt!LoopReceives
  <2>1. mqttSent' \in Nat /\ mqttGot' = mqttGot /\ frame' = frame
    BY <1>2 DEF Mqtt!LoopReceives, MqttInv, MqttTypes
  <2>2. PICK f \in Int : mqttReceived' = mqttReceived \/ mqttReceived' = Append(mqttReceived, f)
    BY <1>2, <2>1 DEF Mqtt!LoopReceives, MqttInv, MqttTypes
  <2>3. mqttReceived' \in Seq(Int)
    BY <2>2 DEF MqttInv, MqttTypes
  <2>4. QED
    BY <2>1, <2>3 DEF MqttInv, MqttTypes
<1>3. CASE Mqtt!LoopFails
  BY <1>3 DEF Mqtt!LoopFails, MqttInv, MqttTypes
<1>4. CASE Mqtt!LoopDrops
  BY <1>4 DEF Mqtt!LoopDrops, MqttInv, MqttTypes
<1>5. CASE Mqtt!LoopTells
  BY <1>5 DEF Mqtt!LoopTells, MqttInv, MqttTypes
<1>6. CASE Mqtt!WorkerTakes
  BY <1>6 DEF Mqtt!WorkerTakes, MqttInv, MqttTypes
<1>7. CASE Mqtt!WorkerEnds
  BY <1>7 DEF Mqtt!WorkerEnds, MqttInv, MqttTypes
<1>8. CASE Mqtt!WorkerReads
  BY <1>8 DEF Mqtt!WorkerReads, MqttInv, MqttTypes
<1>9. CASE Mqtt!WorkerWrites
  BY <1>9 DEF Mqtt!WorkerWrites, MqttInv, MqttTypes
<1>10. CASE Mqtt!WorkerFails
  BY <1>10 DEF Mqtt!WorkerFails, MqttInv, MqttTypes
<1>11. CASE Mqtt!WorkerTells
  BY <1>11 DEF Mqtt!WorkerTells, MqttInv, MqttTypes
<1>12. CASE Mqtt!SendBegins
  BY <1>12 DEF Mqtt!SendBegins, MqttInv, MqttTypes
<1>13. CASE Mqtt!SendEncodes
  BY <1>13 DEF Mqtt!SendEncodes, MqttInv, MqttTypes
<1>14. CASE Mqtt!SendPublishes
  BY <1>14 DEF Mqtt!SendPublishes, MqttInv, MqttTypes
<1>15. CASE Mqtt!SendEnds
  BY <1>15 DEF Mqtt!SendEnds, MqttInv, MqttTypes
<1>16. CASE Mqtt!SendBreaks
  BY <1>16 DEF Mqtt!SendBreaks, MqttInv, MqttTypes
<1>17. CASE Mqtt!SendFails
  BY <1>17 DEF Mqtt!SendFails, MqttInv, MqttTypes
<1>18. CASE Mqtt!SaysOffline
  BY <1>18 DEF Mqtt!SaysOffline, MqttInv, MqttTypes
<1>19. CASE Mqtt!EndsLoop
  BY <1>19 DEF Mqtt!EndsLoop, MqttInv, MqttTypes
<1>20. CASE Mqtt!EndsWorker
  BY <1>20 DEF Mqtt!EndsWorker, MqttInv, MqttTypes
<1>21. CASE Mqtt!MarksEnd
  BY <1>21 DEF Mqtt!MarksEnd, MqttInv, MqttTypes
<1>22. CASE Mqtt!Begin
  BY <1>22 DEF Mqtt!Begin, MqttInv, MqttTypes
<1>23. CASE Mqtt!Opens
  BY <1>23 DEF Mqtt!Opens, MqttInv, MqttTypes
<1>24. CASE Mqtt!Subscribe
  BY <1>24 DEF Mqtt!Subscribe, MqttInv, MqttTypes
<1>25. CASE Mqtt!SayOnline
  BY <1>25 DEF Mqtt!SayOnline, MqttInv, MqttTypes
<1>26. CASE Mqtt!SayHello
  BY <1>26 DEF Mqtt!SayHello, MqttInv, MqttTypes
<1>27. CASE Mqtt!Looks
  BY <1>27 DEF Mqtt!Looks, MqttInv, MqttTypes
<1>28. CASE Mqtt!Wakes
  BY <1>28 DEF Mqtt!Wakes, MqttInv, MqttTypes
<1>29. CASE Mqtt!Ready
  BY <1>29 DEF Mqtt!Ready, MqttInv, MqttTypes
<1>30. CASE Mqtt!Abandon
  BY <1>30 DEF Mqtt!Abandon, MqttInv, MqttTypes
<1>31. CASE Mqtt!Disconnect
  BY <1>31 DEF Mqtt!Disconnect, MqttInv, MqttTypes
<1>32. CASE Mqtt!CleanupBegins
  BY <1>32 DEF Mqtt!CleanupBegins, MqttInv, MqttTypes
<1>33. QED
  BY <1>1, <1>2, <1>3, <1>4, <1>5, <1>6, <1>7, <1>8, <1>9, <1>10, <1>11, <1>12, <1>13, <1>14, <1>15, <1>16, <1>17, <1>18, <1>19, <1>20, <1>21, <1>22, <1>23, <1>24, <1>25, <1>26, <1>27, <1>28, <1>29, <1>30, <1>31, <1>32 DEF Mqtt!Next

LEMMA LockKeeps ==
  ASSUME Mqtt!MqttAssumption, MqttInv, Mqtt!Next
  PROVE  LockInv'
<1> USE DEF Mqtt!MqttAssumption, Mqtt!dialVars, Mqtt!taskVars, Mqtt!linkVars, Mqtt!sendVars, Mqtt!hubVars,
            Mqtt!Greet, Mqtt!Publish, Mqtt!CannotPublish, Mqtt!Listens, Mqtt!MarkDown, Mqtt!Up
<1>1. CASE Mqtt!LoopPublishes
  BY <1>1 DEF Mqtt!LoopPublishes, MqttInv, LockInv
<1>2. CASE Mqtt!LoopReceives
  BY <1>2 DEF Mqtt!LoopReceives, MqttInv, LockInv
<1>3. CASE Mqtt!LoopFails
  BY <1>3 DEF Mqtt!LoopFails, MqttInv, LockInv
<1>4. CASE Mqtt!LoopDrops
  BY <1>4 DEF Mqtt!LoopDrops, MqttInv, LockInv
<1>5. CASE Mqtt!LoopTells
  BY <1>5 DEF Mqtt!LoopTells, MqttInv, LockInv
<1>6. CASE Mqtt!WorkerTakes
  BY <1>6 DEF Mqtt!WorkerTakes, MqttInv, LockInv
<1>7. CASE Mqtt!WorkerEnds
  BY <1>7 DEF Mqtt!WorkerEnds, MqttInv, LockInv
<1>8. CASE Mqtt!WorkerReads
  BY <1>8 DEF Mqtt!WorkerReads, MqttInv, LockInv
<1>9. CASE Mqtt!WorkerWrites
  BY <1>9 DEF Mqtt!WorkerWrites, MqttInv, LockInv
<1>10. CASE Mqtt!WorkerFails
  BY <1>10 DEF Mqtt!WorkerFails, MqttInv, LockInv
<1>11. CASE Mqtt!WorkerTells
  BY <1>11 DEF Mqtt!WorkerTells, MqttInv, LockInv
<1>12. CASE Mqtt!SendBegins
  BY <1>12 DEF Mqtt!SendBegins, MqttInv, LockInv
<1>13. CASE Mqtt!SendEncodes
  BY <1>13 DEF Mqtt!SendEncodes, MqttInv, LockInv
<1>14. CASE Mqtt!SendPublishes
  BY <1>14 DEF Mqtt!SendPublishes, MqttInv, LockInv
<1>15. CASE Mqtt!SendEnds
  BY <1>15 DEF Mqtt!SendEnds, MqttInv, LockInv
<1>16. CASE Mqtt!SendBreaks
  BY <1>16 DEF Mqtt!SendBreaks, MqttInv, LockInv
<1>17. CASE Mqtt!SendFails
  BY <1>17 DEF Mqtt!SendFails, MqttInv, LockInv
<1>18. CASE Mqtt!SaysOffline
  BY <1>18 DEF Mqtt!SaysOffline, MqttInv, LockInv
<1>19. CASE Mqtt!EndsLoop
  BY <1>19 DEF Mqtt!EndsLoop, MqttInv, LockInv
<1>20. CASE Mqtt!EndsWorker
  BY <1>20 DEF Mqtt!EndsWorker, MqttInv, LockInv
<1>21. CASE Mqtt!MarksEnd
  BY <1>21 DEF Mqtt!MarksEnd, MqttInv, LockInv
<1>22. CASE Mqtt!Begin
  BY <1>22 DEF Mqtt!Begin, MqttInv, LockInv
<1>23. CASE Mqtt!Opens
  BY <1>23 DEF Mqtt!Opens, MqttInv, LockInv
<1>24. CASE Mqtt!Subscribe
  BY <1>24 DEF Mqtt!Subscribe, MqttInv, LockInv
<1>25. CASE Mqtt!SayOnline
  BY <1>25 DEF Mqtt!SayOnline, MqttInv, LockInv
<1>26. CASE Mqtt!SayHello
  BY <1>26 DEF Mqtt!SayHello, MqttInv, LockInv
<1>27. CASE Mqtt!Looks
  BY <1>27 DEF Mqtt!Looks, MqttInv, LockInv
<1>28. CASE Mqtt!Wakes
  BY <1>28 DEF Mqtt!Wakes, MqttInv, LockInv
<1>29. CASE Mqtt!Ready
  BY <1>29 DEF Mqtt!Ready, MqttInv, LockInv
<1>30. CASE Mqtt!Abandon
  BY <1>30 DEF Mqtt!Abandon, MqttInv, LockInv
<1>31. CASE Mqtt!Disconnect
  BY <1>31 DEF Mqtt!Disconnect, MqttInv, LockInv
<1>32. CASE Mqtt!CleanupBegins
  BY <1>32 DEF Mqtt!CleanupBegins, MqttInv, LockInv
<1>33. QED
  BY <1>1, <1>2, <1>3, <1>4, <1>5, <1>6, <1>7, <1>8, <1>9, <1>10, <1>11, <1>12, <1>13, <1>14, <1>15, <1>16, <1>17, <1>18, <1>19, <1>20, <1>21, <1>22, <1>23, <1>24, <1>25, <1>26, <1>27, <1>28, <1>29, <1>30, <1>31, <1>32 DEF Mqtt!Next

LEMMA ServedKeeps ==
  ASSUME Mqtt!MqttAssumption, MqttInv, Mqtt!Next
  PROVE  ServedInv'
<1> USE DEF Mqtt!MqttAssumption, Mqtt!dialVars, Mqtt!taskVars, Mqtt!linkVars, Mqtt!sendVars, Mqtt!hubVars,
            Mqtt!Greet, Mqtt!Publish, Mqtt!CannotPublish, Mqtt!Listens, Mqtt!MarkDown, Mqtt!Up
<1>1. CASE Mqtt!LoopPublishes
  BY <1>1 DEF Mqtt!LoopPublishes, MqttInv, LockInv, ServedInv, Mqtt!UpIsServed
<1>2. CASE Mqtt!LoopReceives
  BY <1>2 DEF Mqtt!LoopReceives, MqttInv, LockInv, ServedInv, Mqtt!UpIsServed
<1>3. CASE Mqtt!LoopFails
  BY <1>3 DEF Mqtt!LoopFails, MqttInv, LockInv, ServedInv, Mqtt!UpIsServed
<1>4. CASE Mqtt!LoopDrops
  BY <1>4 DEF Mqtt!LoopDrops, MqttInv, LockInv, ServedInv, Mqtt!UpIsServed
<1>5. CASE Mqtt!LoopTells
  BY <1>5 DEF Mqtt!LoopTells, MqttInv, LockInv, ServedInv, Mqtt!UpIsServed
<1>6. CASE Mqtt!WorkerTakes
  BY <1>6 DEF Mqtt!WorkerTakes, MqttInv, LockInv, ServedInv, Mqtt!UpIsServed
<1>7. CASE Mqtt!WorkerEnds
  BY <1>7 DEF Mqtt!WorkerEnds, MqttInv, LockInv, ServedInv, Mqtt!UpIsServed
<1>8. CASE Mqtt!WorkerReads
  BY <1>8 DEF Mqtt!WorkerReads, MqttInv, LockInv, ServedInv, Mqtt!UpIsServed
<1>9. CASE Mqtt!WorkerWrites
  BY <1>9 DEF Mqtt!WorkerWrites, MqttInv, LockInv, ServedInv, Mqtt!UpIsServed
<1>10. CASE Mqtt!WorkerFails
  BY <1>10 DEF Mqtt!WorkerFails, MqttInv, LockInv, ServedInv, Mqtt!UpIsServed
<1>11. CASE Mqtt!WorkerTells
  BY <1>11 DEF Mqtt!WorkerTells, MqttInv, LockInv, ServedInv, Mqtt!UpIsServed
<1>12. CASE Mqtt!SendBegins
  BY <1>12 DEF Mqtt!SendBegins, MqttInv, LockInv, ServedInv, Mqtt!UpIsServed
<1>13. CASE Mqtt!SendEncodes
  BY <1>13 DEF Mqtt!SendEncodes, MqttInv, LockInv, ServedInv, Mqtt!UpIsServed
<1>14. CASE Mqtt!SendPublishes
  BY <1>14 DEF Mqtt!SendPublishes, MqttInv, LockInv, ServedInv, Mqtt!UpIsServed
<1>15. CASE Mqtt!SendEnds
  BY <1>15 DEF Mqtt!SendEnds, MqttInv, LockInv, ServedInv, Mqtt!UpIsServed
<1>16. CASE Mqtt!SendBreaks
  BY <1>16 DEF Mqtt!SendBreaks, MqttInv, LockInv, ServedInv, Mqtt!UpIsServed
<1>17. CASE Mqtt!SendFails
  BY <1>17 DEF Mqtt!SendFails, MqttInv, LockInv, ServedInv, Mqtt!UpIsServed
<1>18. CASE Mqtt!SaysOffline
  BY <1>18 DEF Mqtt!SaysOffline, MqttInv, LockInv, ServedInv, Mqtt!UpIsServed
<1>19. CASE Mqtt!EndsLoop
  BY <1>19 DEF Mqtt!EndsLoop, MqttInv, LockInv, ServedInv, Mqtt!UpIsServed
<1>20. CASE Mqtt!EndsWorker
  BY <1>20 DEF Mqtt!EndsWorker, MqttInv, LockInv, ServedInv, Mqtt!UpIsServed
<1>21. CASE Mqtt!MarksEnd
  BY <1>21 DEF Mqtt!MarksEnd, MqttInv, LockInv, ServedInv, Mqtt!UpIsServed
<1>22. CASE Mqtt!Begin
  BY <1>22 DEF Mqtt!Begin, MqttInv, LockInv, ServedInv, Mqtt!UpIsServed
<1>23. CASE Mqtt!Opens
  BY <1>23 DEF Mqtt!Opens, MqttInv, LockInv, ServedInv, Mqtt!UpIsServed
<1>24. CASE Mqtt!Subscribe
  BY <1>24 DEF Mqtt!Subscribe, MqttInv, LockInv, ServedInv, Mqtt!UpIsServed
<1>25. CASE Mqtt!SayOnline
  BY <1>25 DEF Mqtt!SayOnline, MqttInv, LockInv, ServedInv, Mqtt!UpIsServed
<1>26. CASE Mqtt!SayHello
  BY <1>26 DEF Mqtt!SayHello, MqttInv, LockInv, ServedInv, Mqtt!UpIsServed
<1>27. CASE Mqtt!Looks
  BY <1>27 DEF Mqtt!Looks, MqttInv, LockInv, ServedInv, Mqtt!UpIsServed
<1>28. CASE Mqtt!Wakes
  BY <1>28 DEF Mqtt!Wakes, MqttInv, LockInv, ServedInv, Mqtt!UpIsServed
<1>29. CASE Mqtt!Ready
  BY <1>29 DEF Mqtt!Ready, MqttInv, LockInv, ServedInv, Mqtt!UpIsServed
<1>30. CASE Mqtt!Abandon
  BY <1>30 DEF Mqtt!Abandon, MqttInv, LockInv, ServedInv, Mqtt!UpIsServed
<1>31. CASE Mqtt!Disconnect
  BY <1>31 DEF Mqtt!Disconnect, MqttInv, LockInv, ServedInv, Mqtt!UpIsServed
<1>32. CASE Mqtt!CleanupBegins
  BY <1>32 DEF Mqtt!CleanupBegins, MqttInv, LockInv, ServedInv, Mqtt!UpIsServed
<1>33. QED
  BY <1>1, <1>2, <1>3, <1>4, <1>5, <1>6, <1>7, <1>8, <1>9, <1>10, <1>11, <1>12, <1>13, <1>14, <1>15, <1>16, <1>17, <1>18, <1>19, <1>20, <1>21, <1>22, <1>23, <1>24, <1>25, <1>26, <1>27, <1>28, <1>29, <1>30, <1>31, <1>32 DEF Mqtt!Next

LEMMA OpenedKeeps ==
  ASSUME Mqtt!MqttAssumption, MqttInv, Mqtt!Next
  PROVE  OpenedInv'
<1> USE DEF Mqtt!MqttAssumption, Mqtt!dialVars, Mqtt!taskVars, Mqtt!linkVars, Mqtt!sendVars, Mqtt!hubVars,
            Mqtt!Greet, Mqtt!Publish, Mqtt!CannotPublish, Mqtt!Listens, Mqtt!MarkDown, Mqtt!Up
<1>1. CASE Mqtt!LoopPublishes
  BY <1>1 DEF Mqtt!LoopPublishes, MqttInv, MqttTypes, LockInv, OpenedInv
<1>2. CASE Mqtt!LoopReceives
  <2>1. UNCHANGED <<mqttChannel, mqttGot>> /\ (mqttChannel = "opened" => UNCHANGED mqttSent)
    BY <1>2 DEF Mqtt!LoopReceives
  <2>2. mqttReceived' = mqttReceived
        \/ \E f : mqttReceived' = Append(mqttReceived, f) /\ (mqttChannel = "opened" => f \in {0, -1})
    BY <1>2 DEF Mqtt!LoopReceives
  <2>3. mqttReceived \in Seq(Int)
    BY DEF MqttInv, MqttTypes
  <2>4. QED
    BY <2>1, <2>2, <2>3 DEF MqttInv, OpenedInv
<1>3. CASE Mqtt!LoopFails
  BY <1>3 DEF Mqtt!LoopFails, MqttInv, MqttTypes, LockInv, OpenedInv
<1>4. CASE Mqtt!LoopDrops
  BY <1>4 DEF Mqtt!LoopDrops, MqttInv, MqttTypes, LockInv, OpenedInv
<1>5. CASE Mqtt!LoopTells
  BY <1>5 DEF Mqtt!LoopTells, MqttInv, MqttTypes, LockInv, OpenedInv
<1>6. CASE Mqtt!WorkerTakes
  BY <1>6 DEF Mqtt!WorkerTakes, MqttInv, MqttTypes, LockInv, OpenedInv
<1>7. CASE Mqtt!WorkerEnds
  BY <1>7 DEF Mqtt!WorkerEnds, MqttInv, MqttTypes, LockInv, OpenedInv
<1>8. CASE Mqtt!WorkerReads
  BY <1>8 DEF Mqtt!WorkerReads, MqttInv, MqttTypes, LockInv, OpenedInv
<1>9. CASE Mqtt!WorkerWrites
  BY <1>9 DEF Mqtt!WorkerWrites, MqttInv, MqttTypes, LockInv, OpenedInv
<1>10. CASE Mqtt!WorkerFails
  BY <1>10 DEF Mqtt!WorkerFails, MqttInv, MqttTypes, LockInv, OpenedInv
<1>11. CASE Mqtt!WorkerTells
  BY <1>11 DEF Mqtt!WorkerTells, MqttInv, MqttTypes, LockInv, OpenedInv
<1>12. CASE Mqtt!SendBegins
  BY <1>12 DEF Mqtt!SendBegins, MqttInv, MqttTypes, LockInv, OpenedInv
<1>13. CASE Mqtt!SendEncodes
  BY <1>13 DEF Mqtt!SendEncodes, MqttInv, MqttTypes, LockInv, OpenedInv
<1>14. CASE Mqtt!SendPublishes
  BY <1>14 DEF Mqtt!SendPublishes, MqttInv, MqttTypes, LockInv, OpenedInv
<1>15. CASE Mqtt!SendEnds
  BY <1>15 DEF Mqtt!SendEnds, MqttInv, MqttTypes, LockInv, OpenedInv
<1>16. CASE Mqtt!SendBreaks
  BY <1>16 DEF Mqtt!SendBreaks, MqttInv, MqttTypes, LockInv, OpenedInv
<1>17. CASE Mqtt!SendFails
  BY <1>17 DEF Mqtt!SendFails, MqttInv, MqttTypes, LockInv, OpenedInv
<1>18. CASE Mqtt!SaysOffline
  BY <1>18 DEF Mqtt!SaysOffline, MqttInv, MqttTypes, LockInv, OpenedInv
<1>19. CASE Mqtt!EndsLoop
  BY <1>19 DEF Mqtt!EndsLoop, MqttInv, MqttTypes, LockInv, OpenedInv
<1>20. CASE Mqtt!EndsWorker
  BY <1>20 DEF Mqtt!EndsWorker, MqttInv, MqttTypes, LockInv, OpenedInv
<1>21. CASE Mqtt!MarksEnd
  BY <1>21 DEF Mqtt!MarksEnd, MqttInv, MqttTypes, LockInv, OpenedInv
<1>22. CASE Mqtt!Begin
  BY <1>22 DEF Mqtt!Begin, MqttInv, MqttTypes, LockInv, OpenedInv
<1>23. CASE Mqtt!Opens
  BY <1>23 DEF Mqtt!Opens, MqttInv, MqttTypes, LockInv, OpenedInv
<1>24. CASE Mqtt!Subscribe
  BY <1>24 DEF Mqtt!Subscribe, MqttInv, MqttTypes, LockInv, OpenedInv
<1>25. CASE Mqtt!SayOnline
  BY <1>25 DEF Mqtt!SayOnline, MqttInv, MqttTypes, LockInv, OpenedInv
<1>26. CASE Mqtt!SayHello
  BY <1>26 DEF Mqtt!SayHello, MqttInv, MqttTypes, LockInv, OpenedInv
<1>27. CASE Mqtt!Looks
  BY <1>27 DEF Mqtt!Looks, MqttInv, MqttTypes, LockInv, OpenedInv
<1>28. CASE Mqtt!Wakes
  BY <1>28 DEF Mqtt!Wakes, MqttInv, MqttTypes, LockInv, OpenedInv
<1>29. CASE Mqtt!Ready
  BY <1>29 DEF Mqtt!Ready, MqttInv, MqttTypes, LockInv, OpenedInv
<1>30. CASE Mqtt!Abandon
  BY <1>30 DEF Mqtt!Abandon, MqttInv, MqttTypes, LockInv, OpenedInv
<1>31. CASE Mqtt!Disconnect
  BY <1>31 DEF Mqtt!Disconnect, MqttInv, MqttTypes, LockInv, OpenedInv
<1>32. CASE Mqtt!CleanupBegins
  BY <1>32 DEF Mqtt!CleanupBegins, MqttInv, MqttTypes, LockInv, OpenedInv
<1>33. QED
  BY <1>1, <1>2, <1>3, <1>4, <1>5, <1>6, <1>7, <1>8, <1>9, <1>10, <1>11, <1>12, <1>13, <1>14, <1>15, <1>16, <1>17, <1>18, <1>19, <1>20, <1>21, <1>22, <1>23, <1>24, <1>25, <1>26, <1>27, <1>28, <1>29, <1>30, <1>31, <1>32 DEF Mqtt!Next

LEMMA TransitKeeps ==
  ASSUME Mqtt!MqttAssumption, MqttInv, Mqtt!Next
  PROVE  TransitInv'
<1> USE DEF Mqtt!MqttAssumption, Mqtt!dialVars, Mqtt!taskVars, Mqtt!linkVars, Mqtt!sendVars, Mqtt!hubVars,
            Mqtt!Greet, Mqtt!Publish, Mqtt!CannotPublish, Mqtt!Listens, Mqtt!MarkDown, Mqtt!Up
<1>1. CASE Mqtt!LoopPublishes
  BY <1>1 DEF Mqtt!LoopPublishes, MqttInv, MqttTypes, LockInv, TransitInv, Held, OpenedInv
<1>2. CASE Mqtt!LoopReceives
  <2> SUFFICES ASSUME mqttChannel = "ready", loop' = "runs", worker \in {"waits", "has"}
               PROVE  TransitInv'
    BY <1>2 DEF Mqtt!LoopReceives, TransitInv
  <2>1. loop = "runs" /\ UNCHANGED <<worker, frame, mqttGot, mqttChannel>>
    BY <1>2 DEF Mqtt!LoopReceives
  <2>2. PICK f \in Int : /\ mqttReceived' = Append(mqttReceived, f)
                         /\ f > 0 => f = mqttSent + 1 /\ mqttSent' = f
    <3>1. /\ mqttSent' \in {mqttSent, mqttSent + 1}
          /\ \E f \in {-1} \cup {n \in {mqttSent'} : n > mqttSent} : mqttReceived' = Append(mqttReceived, f)
      BY <1>2 DEF Mqtt!LoopReceives
    <3>2. QED
      BY <3>1 DEF MqttInv, MqttTypes
  <2>3. /\ Len(mqttReceived') = Len(mqttReceived) + 1 /\ Len(mqttReceived) \in Nat
        /\ DOMAIN mqttReceived = 1 .. Len(mqttReceived) /\ DOMAIN mqttReceived' = 1 .. Len(mqttReceived) + 1
        /\ \A i \in 1 .. Len(mqttReceived) : mqttReceived'[i] = mqttReceived[i]
        /\ mqttReceived'[Len(mqttReceived) + 1] = f
    BY <2>2 DEF MqttInv, MqttTypes
  <2>4. CASE worker = "has" /\ frame <= 0
    BY <2>1, <2>4 DEF TransitInv
  <2>5. CASE \E i \in DOMAIN mqttReceived : mqttReceived[i] <= 0
    <3>1. \E i \in DOMAIN mqttReceived' : mqttReceived'[i] <= 0
      BY <2>3, <2>5
    <3>2. QED
      BY <3>1 DEF TransitInv
  <2>6. CASE f <= 0
    <3>1. \E i \in DOMAIN mqttReceived' : mqttReceived'[i] <= 0
      BY <2>3, <2>6
    <3>2. QED
      BY <3>1 DEF TransitInv
  <2>7. CASE /\ \A i \in DOMAIN mqttReceived : mqttReceived[i] = mqttGot + Held + i
             /\ worker = "has" => frame = mqttGot + 1
             /\ mqttGot + Held + Len(mqttReceived) = mqttSent
             /\ f > 0
    <3>1. Held' = Held /\ Held \in {0, 1}
      BY <2>1 DEF Held
    <3>2. mqttSent' = mqttSent + 1 /\ f = mqttSent + 1
      BY <2>2, <2>7
    <3>3. mqttSent \in Nat /\ mqttGot \in Nat
      BY DEF MqttInv, MqttTypes
    <3>4. mqttGot' + Held' + Len(mqttReceived') = mqttSent'
      BY <2>1, <2>3, <2>7, <3>1, <3>2, <3>3
    <3>5. ASSUME NEW i \in DOMAIN mqttReceived' PROVE mqttReceived'[i] = mqttGot' + Held' + i
      BY <2>1, <2>3, <2>7, <3>1, <3>2, <3>3
    <3>6. QED
      BY <2>1, <2>7, <3>4, <3>5 DEF TransitInv
  <2>8. QED
    BY <2>1, <2>2, <2>4, <2>5, <2>6, <2>7 DEF MqttInv, TransitInv
<1>3. CASE Mqtt!LoopFails
  BY <1>3 DEF Mqtt!LoopFails, MqttInv, MqttTypes, LockInv, TransitInv, Held, OpenedInv
<1>4. CASE Mqtt!LoopDrops
  BY <1>4 DEF Mqtt!LoopDrops, MqttInv, MqttTypes, LockInv, TransitInv, Held, OpenedInv
<1>5. CASE Mqtt!LoopTells
  BY <1>5 DEF Mqtt!LoopTells, MqttInv, MqttTypes, LockInv, TransitInv, Held, OpenedInv
<1>6. CASE Mqtt!WorkerTakes
  <2>1. /\ worker = "waits" /\ worker' = "has" /\ mqttReceived # <<>>
        /\ frame' = Head(mqttReceived) /\ mqttReceived' = Tail(mqttReceived)
        /\ UNCHANGED <<loop, mqttChannel, mqttGot, mqttSent>>
    BY <1>6 DEF Mqtt!WorkerTakes
  <2> SUFFICES ASSUME mqttChannel = "ready", loop = "runs"
               PROVE  TransitInv'
    BY <2>1 DEF TransitInv
  <2>2. /\ mqttReceived \in Seq(Int) /\ mqttSent \in Nat /\ mqttGot \in Nat
    BY DEF MqttInv, MqttTypes
  <2>3. /\ Len(mqttReceived) \in Nat \ {0} /\ Len(mqttReceived') = Len(mqttReceived) - 1
        /\ DOMAIN mqttReceived = 1 .. Len(mqttReceived) /\ DOMAIN mqttReceived' = 1 .. Len(mqttReceived) - 1
        /\ \A i \in 1 .. Len(mqttReceived) - 1 : mqttReceived'[i] = mqttReceived[i + 1]
        /\ frame' = mqttReceived[1]
    BY <2>1, <2>2
  <2>4. Held = 0 /\ Held' = 1
    BY <2>1 DEF Held
  <2>5. CASE \E i \in DOMAIN mqttReceived : mqttReceived[i] <= 0
    <3>1. PICK i \in DOMAIN mqttReceived : mqttReceived[i] <= 0
      BY <2>5
    <3>2. CASE i = 1
      BY <2>1, <2>3, <3>1, <3>2 DEF TransitInv
    <3>3. CASE i # 1
      <4>1. i - 1 \in DOMAIN mqttReceived' /\ mqttReceived'[i - 1] <= 0
        BY <2>3, <3>1, <3>3
      <4>2. QED
        BY <4>1 DEF TransitInv
    <3>4. QED
      BY <3>2, <3>3
  <2>6. CASE /\ \A i \in DOMAIN mqttReceived : mqttReceived[i] = mqttGot + Held + i
             /\ mqttGot + Held + Len(mqttReceived) = mqttSent
    <3> DEFINE l == Len(mqttReceived)
    <3>1. l \in Nat \ {0} /\ mqttGot \in Nat
      BY <2>2, <2>3
    <3>2. ASSUME NEW i \in 1 .. l PROVE mqttReceived[i] = mqttGot + i
      <4>1. mqttReceived[i] = mqttGot + 0 + i
        BY <2>3, <2>4, <2>6
      <4> HIDE DEF l
      <4>2. QED
        BY <3>1, <4>1
    <3>3. mqttGot + l = mqttSent
      <4>1. mqttGot + 0 + l = mqttSent
        BY <2>4, <2>6
      <4> HIDE DEF l
      <4>2. QED
        BY <3>1, <4>1
    <3>4. mqttGot' = mqttGot /\ mqttSent' = mqttSent
      BY <2>1
    <3>5. ASSUME NEW i \in DOMAIN mqttReceived' PROVE mqttReceived'[i] = mqttGot' + Held' + i
      <4>1. i \in 1 .. Len(mqttReceived) - 1 /\ i + 1 \in 1 .. Len(mqttReceived)
        BY <2>3
      <4>2. mqttReceived'[i] = mqttGot + (i + 1)
        BY <2>3, <3>2, <4>1
      <4>3. QED
        BY <2>2, <2>4, <3>4, <4>1, <4>2
    <3>6. frame' = mqttGot' + 1
      BY <2>3, <3>2, <3>4
    <3>7. mqttGot' + Held' + Len(mqttReceived') = mqttSent'
      <4>1. mqttGot' + Held' + Len(mqttReceived') = mqttGot + 1 + (l - 1)
        BY <2>3, <2>4, <3>4
      <4> HIDE DEF l
      <4>2. mqttGot + 1 + (l - 1) = mqttGot + l
        BY <3>1
      <4>3. QED
        BY <3>3, <3>4, <4>1, <4>2
    <3>8. QED
      BY <3>5, <3>6, <3>7 DEF TransitInv
  <2>7. QED
    BY <2>1, <2>5, <2>6 DEF MqttInv, TransitInv
<1>7. CASE Mqtt!WorkerEnds
  BY <1>7 DEF Mqtt!WorkerEnds, MqttInv, MqttTypes, LockInv, TransitInv, Held, OpenedInv
<1>8. CASE Mqtt!WorkerReads
  <2>1. worker = "has" /\ UNCHANGED <<loop, mqttChannel, mqttReceived, mqttSent>>
    BY <1>8 DEF Mqtt!WorkerReads
  <2> SUFFICES ASSUME mqttChannel = "ready", loop = "runs", worker' \in {"waits", "has"}
               PROVE  TransitInv'
    BY <2>1 DEF TransitInv
  <2>2. worker' = "waits" /\ frame = mqttGot + 1 /\ mqttGot' = frame
    BY <1>8, <2>1 DEF Mqtt!WorkerReads
  <2>3. mqttReceived \in Seq(Int) /\ mqttGot \in Nat
    BY DEF MqttInv, MqttTypes
  <2>4. Held = 1 /\ Held' = 0
    BY <2>1, <2>2 DEF Held
  <2>5. CASE \E i \in DOMAIN mqttReceived : mqttReceived[i] <= 0
    BY <2>1, <2>5 DEF TransitInv
  <2>6. CASE /\ \A i \in DOMAIN mqttReceived : mqttReceived[i] = mqttGot + Held + i
             /\ mqttGot + Held + Len(mqttReceived) = mqttSent
    <3>1. \A i \in DOMAIN mqttReceived' : mqttReceived'[i] = mqttGot' + Held' + i
      BY <2>1, <2>2, <2>3, <2>4, <2>6
    <3>2. mqttGot' + Held' + Len(mqttReceived') = mqttSent'
      BY <2>1, <2>2, <2>3, <2>4, <2>6
    <3>3. QED
      BY <2>2, <3>1, <3>2 DEF TransitInv
  <2>7. ~(frame <= 0)
    BY <2>2, <2>3
  <2>8. QED
    BY <2>1, <2>5, <2>6, <2>7 DEF MqttInv, TransitInv
<1>9. CASE Mqtt!WorkerWrites
  BY <1>9 DEF Mqtt!WorkerWrites, MqttInv, MqttTypes, LockInv, TransitInv, Held, OpenedInv
<1>10. CASE Mqtt!WorkerFails
  BY <1>10 DEF Mqtt!WorkerFails, MqttInv, MqttTypes, LockInv, TransitInv, Held, OpenedInv
<1>11. CASE Mqtt!WorkerTells
  BY <1>11 DEF Mqtt!WorkerTells, MqttInv, MqttTypes, LockInv, TransitInv, Held, OpenedInv
<1>12. CASE Mqtt!SendBegins
  BY <1>12 DEF Mqtt!SendBegins, MqttInv, MqttTypes, LockInv, TransitInv, Held, OpenedInv
<1>13. CASE Mqtt!SendEncodes
  BY <1>13 DEF Mqtt!SendEncodes, MqttInv, MqttTypes, LockInv, TransitInv, Held, OpenedInv
<1>14. CASE Mqtt!SendPublishes
  BY <1>14 DEF Mqtt!SendPublishes, MqttInv, MqttTypes, LockInv, TransitInv, Held, OpenedInv
<1>15. CASE Mqtt!SendEnds
  BY <1>15 DEF Mqtt!SendEnds, MqttInv, MqttTypes, LockInv, TransitInv, Held, OpenedInv
<1>16. CASE Mqtt!SendBreaks
  BY <1>16 DEF Mqtt!SendBreaks, MqttInv, MqttTypes, LockInv, TransitInv, Held, OpenedInv
<1>17. CASE Mqtt!SendFails
  BY <1>17 DEF Mqtt!SendFails, MqttInv, MqttTypes, LockInv, TransitInv, Held, OpenedInv
<1>18. CASE Mqtt!SaysOffline
  BY <1>18 DEF Mqtt!SaysOffline, MqttInv, MqttTypes, LockInv, TransitInv, Held, OpenedInv
<1>19. CASE Mqtt!EndsLoop
  BY <1>19 DEF Mqtt!EndsLoop, MqttInv, MqttTypes, LockInv, TransitInv, Held, OpenedInv
<1>20. CASE Mqtt!EndsWorker
  BY <1>20 DEF Mqtt!EndsWorker, MqttInv, MqttTypes, LockInv, TransitInv, Held, OpenedInv
<1>21. CASE Mqtt!MarksEnd
  BY <1>21 DEF Mqtt!MarksEnd, MqttInv, MqttTypes, LockInv, TransitInv, Held, OpenedInv
<1>22. CASE Mqtt!Begin
  BY <1>22 DEF Mqtt!Begin, MqttInv, MqttTypes, LockInv, TransitInv, Held, OpenedInv
<1>23. CASE Mqtt!Opens
  BY <1>23 DEF Mqtt!Opens, MqttInv, MqttTypes, LockInv, TransitInv, Held, OpenedInv
<1>24. CASE Mqtt!Subscribe
  BY <1>24 DEF Mqtt!Subscribe, MqttInv, MqttTypes, LockInv, TransitInv, Held, OpenedInv
<1>25. CASE Mqtt!SayOnline
  BY <1>25 DEF Mqtt!SayOnline, MqttInv, MqttTypes, LockInv, TransitInv, Held, OpenedInv
<1>26. CASE Mqtt!SayHello
  BY <1>26 DEF Mqtt!SayHello, MqttInv, MqttTypes, LockInv, TransitInv, Held, OpenedInv
<1>27. CASE Mqtt!Looks
  BY <1>27 DEF Mqtt!Looks, MqttInv, MqttTypes, LockInv, TransitInv, Held, OpenedInv
<1>28. CASE Mqtt!Wakes
  BY <1>28 DEF Mqtt!Wakes, MqttInv, MqttTypes, LockInv, TransitInv, Held, OpenedInv
<1>29. CASE Mqtt!Ready
  BY <1>29 DEF Mqtt!Ready, MqttInv, MqttTypes, LockInv, TransitInv, Held, OpenedInv
<1>30. CASE Mqtt!Abandon
  BY <1>30 DEF Mqtt!Abandon, MqttInv, MqttTypes, LockInv, TransitInv, Held, OpenedInv
<1>31. CASE Mqtt!Disconnect
  BY <1>31 DEF Mqtt!Disconnect, MqttInv, MqttTypes, LockInv, TransitInv, Held, OpenedInv
<1>32. CASE Mqtt!CleanupBegins
  BY <1>32 DEF Mqtt!CleanupBegins, MqttInv, MqttTypes, LockInv, TransitInv, Held, OpenedInv
<1>33. QED
  BY <1>1, <1>2, <1>3, <1>4, <1>5, <1>6, <1>7, <1>8, <1>9, <1>10, <1>11, <1>12, <1>13, <1>14, <1>15, <1>16, <1>17, <1>18, <1>19, <1>20, <1>21, <1>22, <1>23, <1>24, <1>25, <1>26, <1>27, <1>28, <1>29, <1>30, <1>31, <1>32 DEF Mqtt!Next

LEMMA MqttStep ==
  ASSUME Mqtt!MqttAssumption, MqttInv, [Mqtt!Next]_(Mqtt!mqttVars)
  PROVE  MqttInv'
<1>1. CASE Mqtt!Next
  <2>1. MqttTypes' /\ LockInv' /\ ServedInv' /\ TransitInv' /\ OpenedInv'
    BY <1>1, MqttTypesKeep, LockKeeps, ServedKeeps, TransitKeeps, OpenedKeeps
  <2>2. QED
    BY <2>1 DEF MqttInv
<1>2. CASE UNCHANGED Mqtt!mqttVars
  <2> USE <1>2 DEF Mqtt!mqttVars, Mqtt!dialVars, Mqtt!taskVars, Mqtt!linkVars, Mqtt!sendVars, Mqtt!hubVars
  <2>1. MqttTypes' /\ LockInv' /\ OpenedInv'
    BY DEF MqttInv, MqttTypes, LockInv, OpenedInv
  <2>2. ServedInv'
    BY DEF MqttInv, ServedInv, Mqtt!UpIsServed, Mqtt!Up
  <2>3. TransitInv'
    BY DEF MqttInv, TransitInv, Held
  <2>4. QED
    BY <2>1, <2>2, <2>3 DEF MqttInv
<1>3. QED
  BY <1>1, <1>2

(* A link that is told to be up is driven by its event loop, or a task is  *)
(* on its way to tell that it is not, or who holds the gate is ending it   *)
(* (the ends of MqttTransport's two tasks, and disconnect_inner); and      *)
(* nothing the hub sent over it is skipped: a full queue of received       *)
(* frames ends the link, and so does a frame that does not follow.         *)
THEOREM MqttSkipsNothing ==
  ASSUME Mqtt!MqttAssumption
  PROVE  Mqtt!Init /\ [][Mqtt!Next]_(Mqtt!mqttVars)
         => [](Mqtt!NothingSkipped /\ Mqtt!UpIsServed)
<1>1. Mqtt!Init => MqttInv
  BY MqttStarts
<1>2. MqttInv /\ [Mqtt!Next]_(Mqtt!mqttVars) => MqttInv'
  BY MqttStep
<1>3. MqttInv => Mqtt!NothingSkipped
  BY DEF MqttInv, MqttTypes, TransitInv, Held, Mqtt!Up, Mqtt!NothingSkipped
<1>4. MqttInv => Mqtt!UpIsServed
  BY DEF MqttInv, ServedInv
<1>5. QED
  BY <1>1, <1>2, <1>3, <1>4, PTL

-----------------------------------------------------------------------------
(* WssLink: the pin is kept, and a connect tells why it failed.            *)

WssTypes ==
  /\ pin \in {"none", "same", "other"} /\ cache \in {"none", "good", "bad"}
  /\ known \in BOOLEAN /\ wssAdmitted \in BOOLEAN
  /\ forceXX \in BOOLEAN /\ kkFailed \in BOOLEAN /\ completedXX \in BOOLEAN
  /\ keyRejected \in BOOLEAN /\ closedRefused \in BOOLEAN
  /\ done \in BOOLEAN /\ wssValid \in BOOLEAN /\ wssShaken \in BOOLEAN
  /\ wssChannel \in {"none", "new", "newXX", "failed", "kk", "xx", "kkDone", "xxDone"}

(* A reader that may still take a message is the reader of the link there  *)
(* is: a connect starts only when the last one was told of, and hangs up   *)
(* before it gives its reason.                                             *)
ReaderInv ==
  /\ wssPc \in {"idle", "reset", "clean"} => wssReader = 0 \/ wssReading \in {"closed", "end"}
  /\ wssPc \in {"dial", "type", "failed", "report"} => wssReader = 0
  /\ wssPc \in {"count", "settle", "up"} /\ wssReader # 0 /\ wssReading \notin {"closed", "end"}
       => wssValid /\ (wssPc # "count" => wssPhase = "ready")

NothingSaid == verdict = Wss!NoVerdict /\ ~ keyRejected /\ ~ kkFailed

(* Before its end is heard of, a link has left no verdict.                 *)
UnsaidInv ==
  /\ wssPc = "reset" => ~ kkFailed
  /\ wssPc \in {"clean", "dial"} => NothingSaid
  /\ wssPc = "dial" => ~ closedRefused /\ ~ done /\ wssChannel = IF forceXX THEN "newXX" ELSE "new"
  /\ wssReader # 0 /\ wssReading \in {"next", "tell"} => NothingSaid /\ ~ closedRefused

(* The steps of a handshake, and the PSK it was made with.                 *)
ChannelInv ==
  /\ wssReader # 0 /\ wssReading = "next" =>
       /\ wssChannel \notin {"none", "failed"}
       /\ done <=> wssChannel \in Wss!Established
       /\ done => (completedXX <=> wssChannel = "xxDone")
  /\ wssReader # 0 /\ wssReading = "tell" =>
       wssChannel \in Wss!Established /\ (completedXX <=> wssChannel = "xxDone")
  /\ wssReader # 0 /\ wssReading \in {"next", "tell"} /\ forceXX => wssChannel \in {"newXX", "xx", "xxDone"}
  /\ wssChannel \in Wss!Pending => psk \in {"good", "bad"}
  /\ wssChannel \in Wss!Established => psk = "good"
  /\ wssShaken => done
  /\ wssPc \in {"count", "settle", "up"} => done

(* Only a KK that has not completed fails as one, and XX follows it.       *)
KkInv ==
  /\ forceXX => ~ kkFailed
  /\ kkFailed => ~ done
  /\ wssPc = "report" => ~ kkFailed

RefusedFor == psk = "bad" \/ ~ wssAdmitted \/ kkFailed

(* What the link, its verdict and the error say is the case.               *)
ReasonInv ==
  /\ keyRejected => ~ known /\ psk = "good"
  /\ wssPc \notin {"idle", "reset"} =>
       /\ verdict.kind = "keyChanged" => pin = "other" /\ psk = "good"
       /\ verdict.kind = "refused" => RefusedFor
       /\ verdict.kind \in {"none", "keyChanged", "refused"}
  /\ wssPc \notin {"idle", "reset", "clean"} /\ closedRefused /\ ~ keyRejected => RefusedFor
  /\ wssPc \in {"failed", "report"} =>
       /\ error = "keyChanged" => pin = "other" /\ psk = "good"
       /\ error = "keyRejected" => ~ known /\ psk = "good"
       /\ error = "refused" => RefusedFor

PatientInv == ReaderInv /\ UnsaidInv /\ ChannelInv /\ KkInv /\ ReasonInv

WssInv == WssTypes /\ (patient => PatientInv)

LEMMA WssStarts == ASSUME Wss!Init PROVE WssInv
<1>1. WssTypes
  BY DEF Wss!Init, WssTypes
<1>2. PatientInv
  BY DEF Wss!Init, PatientInv, ReaderInv, UnsaidInv, ChannelInv, KkInv, ReasonInv, RefusedFor, Wss!NoVerdict,
         Wss!Pending, Wss!Established
<1>3. QED
  BY <1>1, <1>2 DEF WssInv

LEMMA WssTypesKeep ==
  ASSUME WssInv, Wss!Next
  PROVE  WssTypes'
<1> USE DEF Wss!worldVars, Wss!trustVars, Wss!connectVars, Wss!kkVars, Wss!flagVars, Wss!healthVars, Wss!channelVars,
            Wss!readVars, Wss!Step, Wss!Mark, Wss!Forget, Wss!Reads, Wss!Goes, Wss!Pending, Wss!Established
<1>1. CASE Wss!Connect
  <2>1. UNCHANGED <<pin, cache, known, wssAdmitted, wssChannel, done, wssShaken>>
    BY <1>1 DEF Wss!Connect
  <2>2. forceXX' \in BOOLEAN /\ kkFailed' \in BOOLEAN /\ completedXX' \in BOOLEAN
    BY <1>1 DEF Wss!Connect, Wss!SeenDown, WssInv, WssTypes
  <2>3. keyRejected' \in BOOLEAN
    BY <1>1 DEF Wss!Connect, Wss!SeenDown, WssInv, WssTypes
  <2>4. closedRefused' \in BOOLEAN /\ wssValid' \in BOOLEAN
    BY <1>1 DEF Wss!Connect, Wss!SeenDown, WssInv, WssTypes
  <2>5. QED
    BY <2>1, <2>2, <2>3, <2>4 DEF WssInv, WssTypes
<1>2. CASE Wss!Reset
  <2>1. UNCHANGED <<pin, cache, known, wssAdmitted, wssChannel, done, wssShaken>>
    BY <1>2 DEF Wss!Reset
  <2>2. forceXX' \in BOOLEAN /\ kkFailed' \in BOOLEAN /\ completedXX' \in BOOLEAN
    BY <1>2 DEF Wss!Reset, WssInv, WssTypes
  <2>3. keyRejected' \in BOOLEAN
    BY <1>2 DEF Wss!Reset, WssInv, WssTypes
  <2>4. closedRefused' \in BOOLEAN /\ wssValid' \in BOOLEAN
    BY <1>2 DEF Wss!Reset, WssInv, WssTypes
  <2>5. QED
    BY <2>1, <2>2, <2>3, <2>4 DEF WssInv, WssTypes
<1>3. CASE Wss!Clean
  BY <1>3 DEF Wss!Clean, WssInv, WssTypes
<1>4. CASE Wss!Woken
  BY <1>4 DEF Wss!Woken, WssInv, WssTypes
<1>5. CASE Wss!Check
  BY <1>5 DEF Wss!Check, WssInv, WssTypes
<1>6. CASE Wss!Count
  BY <1>6 DEF Wss!Count, WssInv, WssTypes
<1>7. CASE Wss!ReadCause
  BY <1>7 DEF Wss!ReadCause, WssInv, WssTypes
<1>8. CASE Wss!HangUp
  BY <1>8 DEF Wss!HangUp, WssInv, WssTypes
<1>9. CASE Wss!Type
  BY <1>9 DEF Wss!Type, Wss!Fails, Wss!Typed, WssInv, WssTypes
<1>10. CASE Wss!Fail
  <2>1. UNCHANGED <<pin, cache, known, wssAdmitted, wssChannel, done, wssShaken>>
    BY <1>10 DEF Wss!Fail
  <2>2. forceXX' \in BOOLEAN /\ kkFailed' \in BOOLEAN /\ completedXX' \in BOOLEAN
    BY <1>10 DEF Wss!Fail, WssInv, WssTypes
  <2>3. keyRejected' \in BOOLEAN
    BY <1>10 DEF Wss!Fail, WssInv, WssTypes
  <2>4. closedRefused' \in BOOLEAN /\ wssValid' \in BOOLEAN
    BY <1>10 DEF Wss!Fail, WssInv, WssTypes
  <2>5. QED
    BY <2>1, <2>2, <2>3, <2>4 DEF WssInv, WssTypes
<1>11. CASE Wss!Report
  BY <1>11 DEF Wss!Report, WssInv, WssTypes
<1>12. CASE Wss!UpgradeRefused
  BY <1>12 DEF Wss!UpgradeRefused, WssInv, WssTypes
<1>13. CASE Wss!DialFails
  BY <1>13 DEF Wss!DialFails, WssInv, WssTypes
<1>14. CASE Wss!Opens
  BY <1>14 DEF Wss!Opens, WssInv, WssTypes
<1>15. CASE Wss!TimesOut
  BY <1>15 DEF Wss!TimesOut, WssInv, WssTypes
<1>16. CASE Wss!SettleStops
  BY <1>16 DEF Wss!SettleStops, Wss!SeenDown, WssInv, WssTypes
<1>17. CASE Wss!SettleEnds
  BY <1>17 DEF Wss!SettleEnds, WssInv, WssTypes
<1>18. CASE Wss!CutOff
  <2>1. UNCHANGED <<pin, cache, known, wssAdmitted, wssChannel, done, wssShaken>>
    BY <1>18 DEF Wss!CutOff
  <2>2. forceXX' \in BOOLEAN /\ kkFailed' \in BOOLEAN /\ completedXX' \in BOOLEAN
    BY <1>18 DEF Wss!CutOff, WssInv, WssTypes
  <2>3. keyRejected' \in BOOLEAN
    BY <1>18 DEF Wss!CutOff, WssInv, WssTypes
  <2>4. closedRefused' \in BOOLEAN /\ wssValid' \in BOOLEAN
    BY <1>18 DEF Wss!CutOff, WssInv, WssTypes
  <2>5. QED
    BY <2>1, <2>2, <2>3, <2>4 DEF WssInv, WssTypes
<1>19. CASE Wss!CleansUp
  BY <1>19 DEF Wss!CleansUp, WssInv, WssTypes
<1>20. CASE Wss!ReadOffer
  BY <1>20 DEF Wss!ReadOffer, WssInv, WssTypes
<1>21. CASE Wss!ReadAnswer
  BY <1>21 DEF Wss!ReadAnswer, Wss!Authentic, WssInv, WssTypes
<1>22. CASE Wss!ReadChangedKey
  BY <1>22 DEF Wss!ReadChangedKey, Wss!NoteFailure, Wss!Authentic, WssInv, WssTypes
<1>23. CASE Wss!ReadBadAnswer
  BY <1>23 DEF Wss!ReadBadAnswer, Wss!NoteFailure, Wss!Authentic, WssInv, WssTypes
<1>24. CASE Wss!ReadFrame
  BY <1>24 DEF Wss!ReadFrame, WssInv, WssTypes
<1>25. CASE Wss!ReadFails
  BY <1>25 DEF Wss!ReadFails, WssInv, WssTypes
<1>26. ASSUME NEW soon \in BOOLEAN, Wss!ReadClose(soon) PROVE WssTypes'
  <2>1. UNCHANGED <<pin, cache, known, wssAdmitted, wssChannel, done, wssShaken>>
    BY <1>26 DEF Wss!ReadClose
  <2>2. forceXX' \in BOOLEAN /\ kkFailed' \in BOOLEAN /\ completedXX' \in BOOLEAN
    BY <1>26 DEF Wss!ReadClose, Wss!CloseRefuses, Wss!NoteRefusalClose, Wss!HubRefuses, Wss!Authentic, WssInv, WssTypes
  <2>3. keyRejected' \in BOOLEAN
    BY <1>26 DEF Wss!ReadClose, Wss!CloseRefuses, Wss!NoteRefusalClose, Wss!HubRefuses, Wss!Authentic, WssInv, WssTypes
  <2>4. closedRefused' \in BOOLEAN /\ wssValid' \in BOOLEAN
    BY <1>26 DEF Wss!ReadClose, Wss!CloseRefuses, Wss!NoteRefusalClose, Wss!HubRefuses, Wss!Authentic, WssInv, WssTypes
  <2>5. QED
    BY <2>1, <2>2, <2>3, <2>4 DEF WssInv, WssTypes
<1>27. CASE Wss!ReaderTells
  BY <1>27 DEF Wss!ReaderTells, WssInv, WssTypes
<1>28. CASE Wss!ReaderFails
  BY <1>28 DEF Wss!ReaderFails, WssInv, WssTypes
<1>29. CASE Wss!CloseMarks
  BY <1>29 DEF Wss!CloseMarks, WssInv, WssTypes
<1>30. CASE Wss!CloseTells
  BY <1>30 DEF Wss!CloseTells, WssInv, WssTypes
<1>31. CASE Wss!ReaderEnds
  BY <1>31 DEF Wss!ReaderEnds, WssInv, WssTypes
<1>32. QED
  BY <1>1, <1>2, <1>3, <1>4, <1>5, <1>6, <1>7, <1>8, <1>9, <1>10, <1>11, <1>12, <1>13, <1>14, <1>15, <1>16, <1>17, <1>18, <1>19, <1>20, <1>21, <1>22, <1>23, <1>24, <1>25, <1>26, <1>27, <1>28, <1>29, <1>30, <1>31 DEF Wss!Next, Wss!Progress, Wss!Hub, Wss!Reader

LEMMA ReaderKeeps ==
  ASSUME WssTypes, patient, PatientInv, Wss!Next
  PROVE  ReaderInv'
<1> USE DEF Wss!worldVars, Wss!trustVars, Wss!connectVars, Wss!kkVars, Wss!flagVars, Wss!healthVars, Wss!channelVars,
            Wss!readVars, Wss!Step, Wss!Mark, Wss!Forget, Wss!Reads, Wss!Goes, Wss!Pending, Wss!Established
<1>1. CASE Wss!Connect
  BY <1>1 DEF Wss!Connect, Wss!SeenDown, PatientInv, ReaderInv, WssTypes
<1>2. CASE Wss!Reset
  BY <1>2 DEF Wss!Reset, PatientInv, ReaderInv, WssTypes
<1>3. CASE Wss!Clean
  BY <1>3 DEF Wss!Clean, PatientInv, ReaderInv, WssTypes
<1>4. CASE Wss!Woken
  BY <1>4 DEF Wss!Woken, PatientInv, ReaderInv, WssTypes
<1>5. CASE Wss!Check
  BY <1>5 DEF Wss!Check, PatientInv, ReaderInv, WssTypes
<1>6. CASE Wss!Count
  BY <1>6 DEF Wss!Count, PatientInv, ReaderInv, WssTypes
<1>7. CASE Wss!ReadCause
  BY <1>7 DEF Wss!ReadCause, PatientInv, ReaderInv, WssTypes
<1>8. CASE Wss!HangUp
  BY <1>8 DEF Wss!HangUp, PatientInv, ReaderInv, WssTypes
<1>9. CASE Wss!Type
  BY <1>9 DEF Wss!Type, Wss!Fails, Wss!Typed, PatientInv, ReaderInv, WssTypes
<1>10. CASE Wss!Fail
  BY <1>10 DEF Wss!Fail, PatientInv, ReaderInv, WssTypes
<1>11. CASE Wss!Report
  BY <1>11 DEF Wss!Report, PatientInv, ReaderInv, WssTypes
<1>12. CASE Wss!UpgradeRefused
  BY <1>12 DEF Wss!UpgradeRefused, PatientInv, ReaderInv, WssTypes
<1>13. CASE Wss!DialFails
  BY <1>13 DEF Wss!DialFails, PatientInv, ReaderInv, WssTypes
<1>14. CASE Wss!Opens
  BY <1>14 DEF Wss!Opens, PatientInv, ReaderInv, WssTypes
<1>15. CASE Wss!TimesOut
  BY <1>15 DEF Wss!TimesOut, PatientInv, ReaderInv, WssTypes
<1>16. CASE Wss!SettleStops
  BY <1>16 DEF Wss!SettleStops, Wss!SeenDown, PatientInv, ReaderInv, WssTypes
<1>17. CASE Wss!SettleEnds
  BY <1>17 DEF Wss!SettleEnds, PatientInv, ReaderInv, WssTypes
<1>18. CASE Wss!CutOff
  BY <1>18 DEF Wss!CutOff, PatientInv, ReaderInv, WssTypes
<1>19. CASE Wss!CleansUp
  BY <1>19 DEF Wss!CleansUp, PatientInv, ReaderInv, WssTypes
<1>20. CASE Wss!ReadOffer
  BY <1>20 DEF Wss!ReadOffer, PatientInv, ReaderInv, WssTypes
<1>21. CASE Wss!ReadAnswer
  BY <1>21 DEF Wss!ReadAnswer, Wss!Authentic, PatientInv, ReaderInv, WssTypes
<1>22. CASE Wss!ReadChangedKey
  BY <1>22 DEF Wss!ReadChangedKey, Wss!NoteFailure, Wss!Authentic, PatientInv, ReaderInv, WssTypes
<1>23. CASE Wss!ReadBadAnswer
  BY <1>23 DEF Wss!ReadBadAnswer, Wss!NoteFailure, Wss!Authentic, PatientInv, ReaderInv, WssTypes
<1>24. CASE Wss!ReadFrame
  BY <1>24 DEF Wss!ReadFrame, PatientInv, ReaderInv, WssTypes
<1>25. CASE Wss!ReadFails
  BY <1>25 DEF Wss!ReadFails, PatientInv, ReaderInv, WssTypes
<1>26. ASSUME NEW soon \in BOOLEAN, Wss!ReadClose(soon) PROVE ReaderInv'
  BY <1>26 DEF Wss!ReadClose, Wss!CloseRefuses, Wss!NoteRefusalClose, Wss!HubRefuses, Wss!Authentic, PatientInv, ReaderInv, WssTypes
<1>27. CASE Wss!ReaderTells
  BY <1>27 DEF Wss!ReaderTells, PatientInv, ReaderInv, WssTypes
<1>28. CASE Wss!ReaderFails
  BY <1>28 DEF Wss!ReaderFails, PatientInv, ReaderInv, WssTypes
<1>29. CASE Wss!CloseMarks
  BY <1>29 DEF Wss!CloseMarks, PatientInv, ReaderInv, WssTypes
<1>30. CASE Wss!CloseTells
  BY <1>30 DEF Wss!CloseTells, PatientInv, ReaderInv, WssTypes
<1>31. CASE Wss!ReaderEnds
  BY <1>31 DEF Wss!ReaderEnds, PatientInv, ReaderInv, WssTypes
<1>32. QED
  BY <1>1, <1>2, <1>3, <1>4, <1>5, <1>6, <1>7, <1>8, <1>9, <1>10, <1>11, <1>12, <1>13, <1>14, <1>15, <1>16, <1>17, <1>18, <1>19, <1>20, <1>21, <1>22, <1>23, <1>24, <1>25, <1>26, <1>27, <1>28, <1>29, <1>30, <1>31 DEF Wss!Next, Wss!Progress, Wss!Hub, Wss!Reader

LEMMA UnsaidKeeps ==
  ASSUME WssTypes, patient, PatientInv, Wss!Next
  PROVE  UnsaidInv'
<1> USE DEF Wss!worldVars, Wss!trustVars, Wss!connectVars, Wss!kkVars, Wss!flagVars, Wss!healthVars, Wss!channelVars,
            Wss!readVars, Wss!Step, Wss!Mark, Wss!Forget, Wss!Reads, Wss!Goes, Wss!Pending, Wss!Established
<1>1. CASE Wss!Connect
  BY <1>1 DEF Wss!Connect, Wss!SeenDown, PatientInv, ReaderInv, UnsaidInv, NothingSaid, Wss!NoVerdict, WssTypes
<1>2. CASE Wss!Reset
  BY <1>2 DEF Wss!Reset, PatientInv, ReaderInv, UnsaidInv, NothingSaid, Wss!NoVerdict, WssTypes
<1>3. CASE Wss!Clean
  BY <1>3 DEF Wss!Clean, PatientInv, ReaderInv, UnsaidInv, NothingSaid, Wss!NoVerdict, WssTypes
<1>4. CASE Wss!Woken
  BY <1>4 DEF Wss!Woken, PatientInv, ReaderInv, UnsaidInv, NothingSaid, Wss!NoVerdict, WssTypes
<1>5. CASE Wss!Check
  BY <1>5 DEF Wss!Check, PatientInv, ReaderInv, UnsaidInv, NothingSaid, Wss!NoVerdict, WssTypes
<1>6. CASE Wss!Count
  BY <1>6 DEF Wss!Count, PatientInv, ReaderInv, UnsaidInv, NothingSaid, Wss!NoVerdict, WssTypes
<1>7. CASE Wss!ReadCause
  BY <1>7 DEF Wss!ReadCause, PatientInv, ReaderInv, UnsaidInv, NothingSaid, Wss!NoVerdict, WssTypes
<1>8. CASE Wss!HangUp
  BY <1>8 DEF Wss!HangUp, PatientInv, ReaderInv, UnsaidInv, NothingSaid, Wss!NoVerdict, WssTypes
<1>9. CASE Wss!Type
  BY <1>9 DEF Wss!Type, Wss!Fails, Wss!Typed, PatientInv, ReaderInv, UnsaidInv, NothingSaid, Wss!NoVerdict, WssTypes
<1>10. CASE Wss!Fail
  BY <1>10 DEF Wss!Fail, PatientInv, ReaderInv, UnsaidInv, NothingSaid, Wss!NoVerdict, WssTypes
<1>11. CASE Wss!Report
  BY <1>11 DEF Wss!Report, PatientInv, ReaderInv, UnsaidInv, NothingSaid, Wss!NoVerdict, WssTypes
<1>12. CASE Wss!UpgradeRefused
  BY <1>12 DEF Wss!UpgradeRefused, PatientInv, ReaderInv, UnsaidInv, NothingSaid, Wss!NoVerdict, WssTypes
<1>13. CASE Wss!DialFails
  BY <1>13 DEF Wss!DialFails, PatientInv, ReaderInv, UnsaidInv, NothingSaid, Wss!NoVerdict, WssTypes
<1>14. CASE Wss!Opens
  BY <1>14 DEF Wss!Opens, PatientInv, ReaderInv, UnsaidInv, NothingSaid, Wss!NoVerdict, WssTypes
<1>15. CASE Wss!TimesOut
  BY <1>15 DEF Wss!TimesOut, PatientInv, ReaderInv, UnsaidInv, NothingSaid, Wss!NoVerdict, WssTypes
<1>16. CASE Wss!SettleStops
  BY <1>16 DEF Wss!SettleStops, Wss!SeenDown, PatientInv, ReaderInv, UnsaidInv, NothingSaid, Wss!NoVerdict, WssTypes
<1>17. CASE Wss!SettleEnds
  BY <1>17 DEF Wss!SettleEnds, PatientInv, ReaderInv, UnsaidInv, NothingSaid, Wss!NoVerdict, WssTypes
<1>18. CASE Wss!CutOff
  BY <1>18 DEF Wss!CutOff, PatientInv, ReaderInv, UnsaidInv, NothingSaid, Wss!NoVerdict, WssTypes
<1>19. CASE Wss!CleansUp
  BY <1>19 DEF Wss!CleansUp, PatientInv, ReaderInv, UnsaidInv, NothingSaid, Wss!NoVerdict, WssTypes
<1>20. CASE Wss!ReadOffer
  BY <1>20 DEF Wss!ReadOffer, PatientInv, ReaderInv, UnsaidInv, NothingSaid, Wss!NoVerdict, WssTypes
<1>21. CASE Wss!ReadAnswer
  BY <1>21 DEF Wss!ReadAnswer, Wss!Authentic, PatientInv, ReaderInv, UnsaidInv, NothingSaid, Wss!NoVerdict, WssTypes
<1>22. CASE Wss!ReadChangedKey
  BY <1>22 DEF Wss!ReadChangedKey, Wss!NoteFailure, Wss!Authentic, PatientInv, ReaderInv, UnsaidInv, NothingSaid, Wss!NoVerdict, WssTypes
<1>23. CASE Wss!ReadBadAnswer
  BY <1>23 DEF Wss!ReadBadAnswer, Wss!NoteFailure, Wss!Authentic, PatientInv, ReaderInv, UnsaidInv, NothingSaid, Wss!NoVerdict, WssTypes
<1>24. CASE Wss!ReadFrame
  BY <1>24 DEF Wss!ReadFrame, PatientInv, ReaderInv, UnsaidInv, NothingSaid, Wss!NoVerdict, WssTypes
<1>25. CASE Wss!ReadFails
  BY <1>25 DEF Wss!ReadFails, PatientInv, ReaderInv, UnsaidInv, NothingSaid, Wss!NoVerdict, WssTypes
<1>26. ASSUME NEW soon \in BOOLEAN, Wss!ReadClose(soon) PROVE UnsaidInv'
  BY <1>26 DEF Wss!ReadClose, Wss!CloseRefuses, Wss!NoteRefusalClose, Wss!HubRefuses, Wss!Authentic, PatientInv, ReaderInv, UnsaidInv, NothingSaid, Wss!NoVerdict, WssTypes
<1>27. CASE Wss!ReaderTells
  BY <1>27 DEF Wss!ReaderTells, PatientInv, ReaderInv, UnsaidInv, NothingSaid, Wss!NoVerdict, WssTypes
<1>28. CASE Wss!ReaderFails
  BY <1>28 DEF Wss!ReaderFails, PatientInv, ReaderInv, UnsaidInv, NothingSaid, Wss!NoVerdict, WssTypes
<1>29. CASE Wss!CloseMarks
  BY <1>29 DEF Wss!CloseMarks, PatientInv, ReaderInv, UnsaidInv, NothingSaid, Wss!NoVerdict, WssTypes
<1>30. CASE Wss!CloseTells
  BY <1>30 DEF Wss!CloseTells, PatientInv, ReaderInv, UnsaidInv, NothingSaid, Wss!NoVerdict, WssTypes
<1>31. CASE Wss!ReaderEnds
  BY <1>31 DEF Wss!ReaderEnds, PatientInv, ReaderInv, UnsaidInv, NothingSaid, Wss!NoVerdict, WssTypes
<1>32. QED
  BY <1>1, <1>2, <1>3, <1>4, <1>5, <1>6, <1>7, <1>8, <1>9, <1>10, <1>11, <1>12, <1>13, <1>14, <1>15, <1>16, <1>17, <1>18, <1>19, <1>20, <1>21, <1>22, <1>23, <1>24, <1>25, <1>26, <1>27, <1>28, <1>29, <1>30, <1>31 DEF Wss!Next, Wss!Progress, Wss!Hub, Wss!Reader

LEMMA ChannelKeeps ==
  ASSUME WssTypes, patient, PatientInv, Wss!Next
  PROVE  ChannelInv'
<1> USE DEF Wss!worldVars, Wss!trustVars, Wss!connectVars, Wss!kkVars, Wss!flagVars, Wss!healthVars, Wss!channelVars,
            Wss!readVars, Wss!Step, Wss!Mark, Wss!Forget, Wss!Reads, Wss!Goes, Wss!Pending, Wss!Established
<1>1. CASE Wss!Connect
  BY <1>1 DEF Wss!Connect, Wss!SeenDown, PatientInv, ReaderInv, UnsaidInv, ChannelInv, WssTypes
<1>2. CASE Wss!Reset
  BY <1>2 DEF Wss!Reset, PatientInv, ReaderInv, UnsaidInv, ChannelInv, WssTypes
<1>3. CASE Wss!Clean
  BY <1>3 DEF Wss!Clean, PatientInv, ReaderInv, UnsaidInv, ChannelInv, WssTypes
<1>4. CASE Wss!Woken
  BY <1>4 DEF Wss!Woken, PatientInv, ReaderInv, UnsaidInv, ChannelInv, WssTypes
<1>5. CASE Wss!Check
  BY <1>5 DEF Wss!Check, PatientInv, ReaderInv, UnsaidInv, ChannelInv, WssTypes
<1>6. CASE Wss!Count
  BY <1>6 DEF Wss!Count, PatientInv, ReaderInv, UnsaidInv, ChannelInv, WssTypes
<1>7. CASE Wss!ReadCause
  BY <1>7 DEF Wss!ReadCause, PatientInv, ReaderInv, UnsaidInv, ChannelInv, WssTypes
<1>8. CASE Wss!HangUp
  BY <1>8 DEF Wss!HangUp, PatientInv, ReaderInv, UnsaidInv, ChannelInv, WssTypes
<1>9. CASE Wss!Type
  BY <1>9 DEF Wss!Type, Wss!Fails, Wss!Typed, PatientInv, ReaderInv, UnsaidInv, ChannelInv, WssTypes
<1>10. CASE Wss!Fail
  BY <1>10 DEF Wss!Fail, PatientInv, ReaderInv, UnsaidInv, ChannelInv, WssTypes
<1>11. CASE Wss!Report
  BY <1>11 DEF Wss!Report, PatientInv, ReaderInv, UnsaidInv, ChannelInv, WssTypes
<1>12. CASE Wss!UpgradeRefused
  BY <1>12 DEF Wss!UpgradeRefused, PatientInv, ReaderInv, UnsaidInv, ChannelInv, WssTypes
<1>13. CASE Wss!DialFails
  BY <1>13 DEF Wss!DialFails, PatientInv, ReaderInv, UnsaidInv, ChannelInv, WssTypes
<1>14. CASE Wss!Opens
  BY <1>14 DEF Wss!Opens, PatientInv, ReaderInv, UnsaidInv, ChannelInv, WssTypes
<1>15. CASE Wss!TimesOut
  BY <1>15 DEF Wss!TimesOut, PatientInv, ReaderInv, UnsaidInv, ChannelInv, WssTypes
<1>16. CASE Wss!SettleStops
  BY <1>16 DEF Wss!SettleStops, Wss!SeenDown, PatientInv, ReaderInv, UnsaidInv, ChannelInv, WssTypes
<1>17. CASE Wss!SettleEnds
  BY <1>17 DEF Wss!SettleEnds, PatientInv, ReaderInv, UnsaidInv, ChannelInv, WssTypes
<1>18. CASE Wss!CutOff
  BY <1>18 DEF Wss!CutOff, PatientInv, ReaderInv, UnsaidInv, ChannelInv, WssTypes
<1>19. CASE Wss!CleansUp
  BY <1>19 DEF Wss!CleansUp, PatientInv, ReaderInv, UnsaidInv, ChannelInv, WssTypes
<1>20. CASE Wss!ReadOffer
  BY <1>20 DEF Wss!ReadOffer, PatientInv, ReaderInv, UnsaidInv, ChannelInv, WssTypes
<1>21. CASE Wss!ReadAnswer
  BY <1>21 DEF Wss!ReadAnswer, Wss!Authentic, PatientInv, ReaderInv, UnsaidInv, ChannelInv, WssTypes
<1>22. CASE Wss!ReadChangedKey
  BY <1>22 DEF Wss!ReadChangedKey, Wss!NoteFailure, Wss!Authentic, PatientInv, ReaderInv, UnsaidInv, ChannelInv, WssTypes
<1>23. CASE Wss!ReadBadAnswer
  BY <1>23 DEF Wss!ReadBadAnswer, Wss!NoteFailure, Wss!Authentic, PatientInv, ReaderInv, UnsaidInv, ChannelInv, WssTypes
<1>24. CASE Wss!ReadFrame
  BY <1>24 DEF Wss!ReadFrame, PatientInv, ReaderInv, UnsaidInv, ChannelInv, WssTypes
<1>25. CASE Wss!ReadFails
  BY <1>25 DEF Wss!ReadFails, PatientInv, ReaderInv, UnsaidInv, ChannelInv, WssTypes
<1>26. ASSUME NEW soon \in BOOLEAN, Wss!ReadClose(soon) PROVE ChannelInv'
  BY <1>26 DEF Wss!ReadClose, Wss!CloseRefuses, Wss!NoteRefusalClose, Wss!HubRefuses, Wss!Authentic, PatientInv, ReaderInv, UnsaidInv, ChannelInv, WssTypes
<1>27. CASE Wss!ReaderTells
  BY <1>27 DEF Wss!ReaderTells, PatientInv, ReaderInv, UnsaidInv, ChannelInv, WssTypes
<1>28. CASE Wss!ReaderFails
  BY <1>28 DEF Wss!ReaderFails, PatientInv, ReaderInv, UnsaidInv, ChannelInv, WssTypes
<1>29. CASE Wss!CloseMarks
  BY <1>29 DEF Wss!CloseMarks, PatientInv, ReaderInv, UnsaidInv, ChannelInv, WssTypes
<1>30. CASE Wss!CloseTells
  BY <1>30 DEF Wss!CloseTells, PatientInv, ReaderInv, UnsaidInv, ChannelInv, WssTypes
<1>31. CASE Wss!ReaderEnds
  BY <1>31 DEF Wss!ReaderEnds, PatientInv, ReaderInv, UnsaidInv, ChannelInv, WssTypes
<1>32. QED
  BY <1>1, <1>2, <1>3, <1>4, <1>5, <1>6, <1>7, <1>8, <1>9, <1>10, <1>11, <1>12, <1>13, <1>14, <1>15, <1>16, <1>17, <1>18, <1>19, <1>20, <1>21, <1>22, <1>23, <1>24, <1>25, <1>26, <1>27, <1>28, <1>29, <1>30, <1>31 DEF Wss!Next, Wss!Progress, Wss!Hub, Wss!Reader

LEMMA KkKeeps ==
  ASSUME WssTypes, patient, PatientInv, Wss!Next
  PROVE  KkInv'
<1> USE DEF Wss!worldVars, Wss!trustVars, Wss!connectVars, Wss!kkVars, Wss!flagVars, Wss!healthVars, Wss!channelVars,
            Wss!readVars, Wss!Step, Wss!Mark, Wss!Forget, Wss!Reads, Wss!Goes, Wss!Pending, Wss!Established
<1>1. CASE Wss!Connect
  BY <1>1 DEF Wss!Connect, Wss!SeenDown, PatientInv, UnsaidInv, NothingSaid, ReaderInv, ChannelInv, KkInv, WssTypes
<1>2. CASE Wss!Reset
  BY <1>2 DEF Wss!Reset, PatientInv, UnsaidInv, NothingSaid, ReaderInv, ChannelInv, KkInv, WssTypes
<1>3. CASE Wss!Clean
  BY <1>3 DEF Wss!Clean, PatientInv, UnsaidInv, NothingSaid, ReaderInv, ChannelInv, KkInv, WssTypes
<1>4. CASE Wss!Woken
  BY <1>4 DEF Wss!Woken, PatientInv, UnsaidInv, NothingSaid, ReaderInv, ChannelInv, KkInv, WssTypes
<1>5. CASE Wss!Check
  BY <1>5 DEF Wss!Check, PatientInv, UnsaidInv, NothingSaid, ReaderInv, ChannelInv, KkInv, WssTypes
<1>6. CASE Wss!Count
  BY <1>6 DEF Wss!Count, PatientInv, UnsaidInv, NothingSaid, ReaderInv, ChannelInv, KkInv, WssTypes
<1>7. CASE Wss!ReadCause
  BY <1>7 DEF Wss!ReadCause, PatientInv, UnsaidInv, NothingSaid, ReaderInv, ChannelInv, KkInv, WssTypes
<1>8. CASE Wss!HangUp
  BY <1>8 DEF Wss!HangUp, PatientInv, UnsaidInv, NothingSaid, ReaderInv, ChannelInv, KkInv, WssTypes
<1>9. CASE Wss!Type
  BY <1>9 DEF Wss!Type, Wss!Fails, Wss!Typed, PatientInv, UnsaidInv, NothingSaid, ReaderInv, ChannelInv, KkInv, WssTypes
<1>10. CASE Wss!Fail
  BY <1>10 DEF Wss!Fail, PatientInv, UnsaidInv, NothingSaid, ReaderInv, ChannelInv, KkInv, WssTypes
<1>11. CASE Wss!Report
  BY <1>11 DEF Wss!Report, PatientInv, UnsaidInv, NothingSaid, ReaderInv, ChannelInv, KkInv, WssTypes
<1>12. CASE Wss!UpgradeRefused
  BY <1>12 DEF Wss!UpgradeRefused, PatientInv, UnsaidInv, NothingSaid, ReaderInv, ChannelInv, KkInv, WssTypes
<1>13. CASE Wss!DialFails
  BY <1>13 DEF Wss!DialFails, PatientInv, UnsaidInv, NothingSaid, ReaderInv, ChannelInv, KkInv, WssTypes
<1>14. CASE Wss!Opens
  BY <1>14 DEF Wss!Opens, PatientInv, UnsaidInv, NothingSaid, ReaderInv, ChannelInv, KkInv, WssTypes
<1>15. CASE Wss!TimesOut
  BY <1>15 DEF Wss!TimesOut, PatientInv, UnsaidInv, NothingSaid, ReaderInv, ChannelInv, KkInv, WssTypes
<1>16. CASE Wss!SettleStops
  BY <1>16 DEF Wss!SettleStops, Wss!SeenDown, PatientInv, UnsaidInv, NothingSaid, ReaderInv, ChannelInv, KkInv, WssTypes
<1>17. CASE Wss!SettleEnds
  BY <1>17 DEF Wss!SettleEnds, PatientInv, UnsaidInv, NothingSaid, ReaderInv, ChannelInv, KkInv, WssTypes
<1>18. CASE Wss!CutOff
  BY <1>18 DEF Wss!CutOff, PatientInv, UnsaidInv, NothingSaid, ReaderInv, ChannelInv, KkInv, WssTypes
<1>19. CASE Wss!CleansUp
  BY <1>19 DEF Wss!CleansUp, PatientInv, UnsaidInv, NothingSaid, ReaderInv, ChannelInv, KkInv, WssTypes
<1>20. CASE Wss!ReadOffer
  BY <1>20 DEF Wss!ReadOffer, PatientInv, UnsaidInv, NothingSaid, ReaderInv, ChannelInv, KkInv, WssTypes
<1>21. CASE Wss!ReadAnswer
  BY <1>21 DEF Wss!ReadAnswer, Wss!Authentic, PatientInv, UnsaidInv, NothingSaid, ReaderInv, ChannelInv, KkInv, WssTypes
<1>22. CASE Wss!ReadChangedKey
  BY <1>22 DEF Wss!ReadChangedKey, Wss!NoteFailure, Wss!Authentic, PatientInv, UnsaidInv, NothingSaid, ReaderInv, ChannelInv, KkInv, WssTypes
<1>23. CASE Wss!ReadBadAnswer
  BY <1>23 DEF Wss!ReadBadAnswer, Wss!NoteFailure, Wss!Authentic, PatientInv, UnsaidInv, NothingSaid, ReaderInv, ChannelInv, KkInv, WssTypes
<1>24. CASE Wss!ReadFrame
  BY <1>24 DEF Wss!ReadFrame, PatientInv, UnsaidInv, NothingSaid, ReaderInv, ChannelInv, KkInv, WssTypes
<1>25. CASE Wss!ReadFails
  BY <1>25 DEF Wss!ReadFails, PatientInv, UnsaidInv, NothingSaid, ReaderInv, ChannelInv, KkInv, WssTypes
<1>26. ASSUME NEW soon \in BOOLEAN, Wss!ReadClose(soon) PROVE KkInv'
  BY <1>26 DEF Wss!ReadClose, Wss!CloseRefuses, Wss!NoteRefusalClose, Wss!HubRefuses, Wss!Authentic, PatientInv, UnsaidInv, NothingSaid, ReaderInv, ChannelInv, KkInv, WssTypes
<1>27. CASE Wss!ReaderTells
  BY <1>27 DEF Wss!ReaderTells, PatientInv, UnsaidInv, NothingSaid, ReaderInv, ChannelInv, KkInv, WssTypes
<1>28. CASE Wss!ReaderFails
  BY <1>28 DEF Wss!ReaderFails, PatientInv, UnsaidInv, NothingSaid, ReaderInv, ChannelInv, KkInv, WssTypes
<1>29. CASE Wss!CloseMarks
  BY <1>29 DEF Wss!CloseMarks, PatientInv, UnsaidInv, NothingSaid, ReaderInv, ChannelInv, KkInv, WssTypes
<1>30. CASE Wss!CloseTells
  BY <1>30 DEF Wss!CloseTells, PatientInv, UnsaidInv, NothingSaid, ReaderInv, ChannelInv, KkInv, WssTypes
<1>31. CASE Wss!ReaderEnds
  BY <1>31 DEF Wss!ReaderEnds, PatientInv, UnsaidInv, NothingSaid, ReaderInv, ChannelInv, KkInv, WssTypes
<1>32. QED
  BY <1>1, <1>2, <1>3, <1>4, <1>5, <1>6, <1>7, <1>8, <1>9, <1>10, <1>11, <1>12, <1>13, <1>14, <1>15, <1>16, <1>17, <1>18, <1>19, <1>20, <1>21, <1>22, <1>23, <1>24, <1>25, <1>26, <1>27, <1>28, <1>29, <1>30, <1>31 DEF Wss!Next, Wss!Progress, Wss!Hub, Wss!Reader

LEMMA ReasonKeeps ==
  ASSUME WssTypes, patient, PatientInv, Wss!Next
  PROVE  ReasonInv'
<1> USE DEF Wss!worldVars, Wss!trustVars, Wss!connectVars, Wss!kkVars, Wss!flagVars, Wss!healthVars, Wss!channelVars,
            Wss!readVars, Wss!Step, Wss!Mark, Wss!Forget, Wss!Reads, Wss!Goes, Wss!Pending, Wss!Established
<1>1. CASE Wss!Connect
  BY <1>1 DEF Wss!Connect, Wss!SeenDown, PatientInv, UnsaidInv, NothingSaid, Wss!NoVerdict, ChannelInv, KkInv, ReasonInv, RefusedFor, WssTypes
<1>2. CASE Wss!Reset
  BY <1>2 DEF Wss!Reset, PatientInv, UnsaidInv, NothingSaid, Wss!NoVerdict, ChannelInv, KkInv, ReasonInv, RefusedFor, WssTypes
<1>3. CASE Wss!Clean
  BY <1>3 DEF Wss!Clean, PatientInv, UnsaidInv, NothingSaid, Wss!NoVerdict, ChannelInv, KkInv, ReasonInv, RefusedFor, WssTypes
<1>4. CASE Wss!Woken
  BY <1>4 DEF Wss!Woken, PatientInv, UnsaidInv, NothingSaid, Wss!NoVerdict, ChannelInv, KkInv, ReasonInv, RefusedFor, WssTypes
<1>5. CASE Wss!Check
  BY <1>5 DEF Wss!Check, PatientInv, UnsaidInv, NothingSaid, Wss!NoVerdict, ChannelInv, KkInv, ReasonInv, RefusedFor, WssTypes
<1>6. CASE Wss!Count
  BY <1>6 DEF Wss!Count, PatientInv, UnsaidInv, NothingSaid, Wss!NoVerdict, ChannelInv, KkInv, ReasonInv, RefusedFor, WssTypes
<1>7. CASE Wss!ReadCause
  BY <1>7 DEF Wss!ReadCause, PatientInv, UnsaidInv, NothingSaid, Wss!NoVerdict, ChannelInv, KkInv, ReasonInv, RefusedFor, WssTypes
<1>8. CASE Wss!HangUp
  BY <1>8 DEF Wss!HangUp, PatientInv, UnsaidInv, NothingSaid, Wss!NoVerdict, ChannelInv, KkInv, ReasonInv, RefusedFor, WssTypes
<1>9. CASE Wss!Type
  BY <1>9 DEF Wss!Type, Wss!Fails, Wss!Typed, PatientInv, UnsaidInv, NothingSaid, Wss!NoVerdict, ChannelInv, KkInv, ReasonInv, RefusedFor, WssTypes
<1>10. CASE Wss!Fail
  BY <1>10 DEF Wss!Fail, PatientInv, UnsaidInv, NothingSaid, Wss!NoVerdict, ChannelInv, KkInv, ReasonInv, RefusedFor, WssTypes
<1>11. CASE Wss!Report
  BY <1>11 DEF Wss!Report, PatientInv, UnsaidInv, NothingSaid, Wss!NoVerdict, ChannelInv, KkInv, ReasonInv, RefusedFor, WssTypes
<1>12. CASE Wss!UpgradeRefused
  BY <1>12 DEF Wss!UpgradeRefused, PatientInv, UnsaidInv, NothingSaid, Wss!NoVerdict, ChannelInv, KkInv, ReasonInv, RefusedFor, WssTypes
<1>13. CASE Wss!DialFails
  BY <1>13 DEF Wss!DialFails, PatientInv, UnsaidInv, NothingSaid, Wss!NoVerdict, ChannelInv, KkInv, ReasonInv, RefusedFor, WssTypes
<1>14. CASE Wss!Opens
  BY <1>14 DEF Wss!Opens, PatientInv, UnsaidInv, NothingSaid, Wss!NoVerdict, ChannelInv, KkInv, ReasonInv, RefusedFor, WssTypes
<1>15. CASE Wss!TimesOut
  BY <1>15 DEF Wss!TimesOut, PatientInv, UnsaidInv, NothingSaid, Wss!NoVerdict, ChannelInv, KkInv, ReasonInv, RefusedFor, WssTypes
<1>16. CASE Wss!SettleStops
  BY <1>16 DEF Wss!SettleStops, Wss!SeenDown, PatientInv, UnsaidInv, NothingSaid, Wss!NoVerdict, ChannelInv, KkInv, ReasonInv, RefusedFor, WssTypes
<1>17. CASE Wss!SettleEnds
  BY <1>17 DEF Wss!SettleEnds, PatientInv, UnsaidInv, NothingSaid, Wss!NoVerdict, ChannelInv, KkInv, ReasonInv, RefusedFor, WssTypes
<1>18. CASE Wss!CutOff
  BY <1>18 DEF Wss!CutOff, PatientInv, UnsaidInv, NothingSaid, Wss!NoVerdict, ChannelInv, KkInv, ReasonInv, RefusedFor, WssTypes
<1>19. CASE Wss!CleansUp
  BY <1>19 DEF Wss!CleansUp, PatientInv, UnsaidInv, NothingSaid, Wss!NoVerdict, ChannelInv, KkInv, ReasonInv, RefusedFor, WssTypes
<1>20. CASE Wss!ReadOffer
  BY <1>20 DEF Wss!ReadOffer, PatientInv, ReaderInv, UnsaidInv, NothingSaid, Wss!NoVerdict, ReasonInv, RefusedFor
<1>21. CASE Wss!ReadAnswer
  BY <1>21 DEF Wss!ReadAnswer, Wss!Authentic, PatientInv, UnsaidInv, NothingSaid, Wss!NoVerdict, ChannelInv, KkInv, ReasonInv, RefusedFor, WssTypes
<1>22. CASE Wss!ReadChangedKey
  BY <1>22 DEF Wss!ReadChangedKey, Wss!NoteFailure, Wss!Authentic, PatientInv, UnsaidInv, NothingSaid, Wss!NoVerdict, ChannelInv, KkInv, ReasonInv, RefusedFor, WssTypes
<1>23. CASE Wss!ReadBadAnswer
  BY <1>23 DEF Wss!ReadBadAnswer, Wss!NoteFailure, Wss!Authentic, PatientInv, UnsaidInv, NothingSaid, Wss!NoVerdict, ChannelInv, KkInv, ReasonInv, RefusedFor, WssTypes
<1>24. CASE Wss!ReadFrame
  BY <1>24 DEF Wss!ReadFrame, PatientInv, UnsaidInv, NothingSaid, Wss!NoVerdict, ChannelInv, KkInv, ReasonInv, RefusedFor, WssTypes
<1>25. CASE Wss!ReadFails
  BY <1>25 DEF Wss!ReadFails, PatientInv, UnsaidInv, NothingSaid, Wss!NoVerdict, ChannelInv, KkInv, ReasonInv, RefusedFor, WssTypes
<1>26. ASSUME NEW soon \in BOOLEAN, Wss!ReadClose(soon) PROVE ReasonInv'
  BY <1>26 DEF Wss!ReadClose, Wss!CloseRefuses, Wss!NoteRefusalClose, Wss!HubRefuses, Wss!Authentic, PatientInv, UnsaidInv, NothingSaid, Wss!NoVerdict, ChannelInv, KkInv, ReasonInv, RefusedFor, WssTypes
<1>27. CASE Wss!ReaderTells
  BY <1>27 DEF Wss!ReaderTells, PatientInv, UnsaidInv, NothingSaid, Wss!NoVerdict, ChannelInv, KkInv, ReasonInv, RefusedFor, WssTypes
<1>28. CASE Wss!ReaderFails
  BY <1>28 DEF Wss!ReaderFails, PatientInv, UnsaidInv, NothingSaid, Wss!NoVerdict, ChannelInv, KkInv, ReasonInv, RefusedFor, WssTypes
<1>29. CASE Wss!CloseMarks
  BY <1>29 DEF Wss!CloseMarks, PatientInv, UnsaidInv, NothingSaid, Wss!NoVerdict, ChannelInv, KkInv, ReasonInv, RefusedFor, WssTypes
<1>30. CASE Wss!CloseTells
  BY <1>30 DEF Wss!CloseTells, PatientInv, UnsaidInv, NothingSaid, Wss!NoVerdict, ChannelInv, KkInv, ReasonInv, RefusedFor, WssTypes
<1>31. CASE Wss!ReaderEnds
  BY <1>31 DEF Wss!ReaderEnds, PatientInv, UnsaidInv, NothingSaid, Wss!NoVerdict, ChannelInv, KkInv, ReasonInv, RefusedFor, WssTypes
<1>32. QED
  BY <1>1, <1>2, <1>3, <1>4, <1>5, <1>6, <1>7, <1>8, <1>9, <1>10, <1>11, <1>12, <1>13, <1>14, <1>15, <1>16, <1>17, <1>18, <1>19, <1>20, <1>21, <1>22, <1>23, <1>24, <1>25, <1>26, <1>27, <1>28, <1>29, <1>30, <1>31 DEF Wss!Next, Wss!Progress, Wss!Hub, Wss!Reader

(* No step changes whether callers wait, and only an answer sets the pin.  *)
LEMMA PatienceIsKept == ASSUME Wss!Next PROVE patient' = patient
<1> USE DEF Wss!worldVars, Wss!Reads, Wss!Goes
<1>1. CASE Wss!Connect
  BY <1>1 DEF Wss!Connect
<1>2. CASE Wss!Reset
  BY <1>2 DEF Wss!Reset
<1>3. CASE Wss!Clean
  BY <1>3 DEF Wss!Clean
<1>4. CASE Wss!Woken
  BY <1>4 DEF Wss!Woken
<1>5. CASE Wss!Check
  BY <1>5 DEF Wss!Check
<1>6. CASE Wss!Count
  BY <1>6 DEF Wss!Count
<1>7. CASE Wss!ReadCause
  BY <1>7 DEF Wss!ReadCause
<1>8. CASE Wss!HangUp
  BY <1>8 DEF Wss!HangUp
<1>9. CASE Wss!Type
  BY <1>9 DEF Wss!Type
<1>10. CASE Wss!Fail
  BY <1>10 DEF Wss!Fail
<1>11. CASE Wss!Report
  BY <1>11 DEF Wss!Report
<1>12. CASE Wss!UpgradeRefused
  BY <1>12 DEF Wss!UpgradeRefused
<1>13. CASE Wss!DialFails
  BY <1>13 DEF Wss!DialFails
<1>14. CASE Wss!Opens
  BY <1>14 DEF Wss!Opens
<1>15. CASE Wss!TimesOut
  BY <1>15 DEF Wss!TimesOut
<1>16. CASE Wss!SettleStops
  BY <1>16 DEF Wss!SettleStops
<1>17. CASE Wss!SettleEnds
  BY <1>17 DEF Wss!SettleEnds
<1>18. CASE Wss!CutOff
  BY <1>18 DEF Wss!CutOff
<1>19. CASE Wss!CleansUp
  BY <1>19 DEF Wss!CleansUp
<1>20. CASE Wss!ReadOffer
  BY <1>20 DEF Wss!ReadOffer
<1>21. CASE Wss!ReadAnswer
  BY <1>21 DEF Wss!ReadAnswer
<1>22. CASE Wss!ReadChangedKey
  BY <1>22 DEF Wss!ReadChangedKey
<1>23. CASE Wss!ReadBadAnswer
  BY <1>23 DEF Wss!ReadBadAnswer
<1>24. CASE Wss!ReadFrame
  BY <1>24 DEF Wss!ReadFrame
<1>25. CASE Wss!ReadFails
  BY <1>25 DEF Wss!ReadFails
<1>26. ASSUME NEW soon \in BOOLEAN, Wss!ReadClose(soon) PROVE patient' = patient
  BY <1>26 DEF Wss!ReadClose
<1>27. CASE Wss!ReaderTells
  BY <1>27 DEF Wss!ReaderTells
<1>28. CASE Wss!ReaderFails
  BY <1>28 DEF Wss!ReaderFails
<1>29. CASE Wss!CloseMarks
  BY <1>29 DEF Wss!CloseMarks
<1>30. CASE Wss!CloseTells
  BY <1>30 DEF Wss!CloseTells
<1>31. CASE Wss!ReaderEnds
  BY <1>31 DEF Wss!ReaderEnds
<1>32. QED
  BY <1>1, <1>2, <1>3, <1>4, <1>5, <1>6, <1>7, <1>8, <1>9, <1>10, <1>11, <1>12, <1>13, <1>14, <1>15, <1>16, <1>17, <1>18, <1>19, <1>20, <1>21, <1>22, <1>23, <1>24, <1>25, <1>26, <1>27, <1>28, <1>29, <1>30, <1>31 DEF Wss!Next, Wss!Progress, Wss!Hub, Wss!Reader

LEMMA OnlyAnAnswerPins == ASSUME Wss!Next PROVE pin' = pin \/ (pin # "other" /\ pin' = "same")
<1> USE DEF Wss!trustVars, Wss!Mark
<1>1. CASE Wss!Connect
  BY <1>1 DEF Wss!Connect
<1>2. CASE Wss!Reset
  BY <1>2 DEF Wss!Reset
<1>3. CASE Wss!Clean
  BY <1>3 DEF Wss!Clean
<1>4. CASE Wss!Woken
  BY <1>4 DEF Wss!Woken
<1>5. CASE Wss!Check
  BY <1>5 DEF Wss!Check
<1>6. CASE Wss!Count
  BY <1>6 DEF Wss!Count
<1>7. CASE Wss!ReadCause
  BY <1>7 DEF Wss!ReadCause
<1>8. CASE Wss!HangUp
  BY <1>8 DEF Wss!HangUp
<1>9. CASE Wss!Type
  BY <1>9 DEF Wss!Type
<1>10. CASE Wss!Fail
  BY <1>10 DEF Wss!Fail
<1>11. CASE Wss!Report
  BY <1>11 DEF Wss!Report
<1>12. CASE Wss!UpgradeRefused
  BY <1>12 DEF Wss!UpgradeRefused
<1>13. CASE Wss!DialFails
  BY <1>13 DEF Wss!DialFails
<1>14. CASE Wss!Opens
  BY <1>14 DEF Wss!Opens
<1>15. CASE Wss!TimesOut
  BY <1>15 DEF Wss!TimesOut
<1>16. CASE Wss!SettleStops
  BY <1>16 DEF Wss!SettleStops
<1>17. CASE Wss!SettleEnds
  BY <1>17 DEF Wss!SettleEnds
<1>18. CASE Wss!CutOff
  BY <1>18 DEF Wss!CutOff
<1>19. CASE Wss!CleansUp
  BY <1>19 DEF Wss!CleansUp
<1>20. CASE Wss!ReadOffer
  BY <1>20 DEF Wss!ReadOffer
<1>21. CASE Wss!ReadAnswer
  BY <1>21 DEF Wss!ReadAnswer
<1>22. CASE Wss!ReadChangedKey
  BY <1>22 DEF Wss!ReadChangedKey
<1>23. CASE Wss!ReadBadAnswer
  BY <1>23 DEF Wss!ReadBadAnswer
<1>24. CASE Wss!ReadFrame
  BY <1>24 DEF Wss!ReadFrame
<1>25. CASE Wss!ReadFails
  BY <1>25 DEF Wss!ReadFails
<1>26. ASSUME NEW soon \in BOOLEAN, Wss!ReadClose(soon) PROVE pin' = pin
  BY <1>26 DEF Wss!ReadClose
<1>27. CASE Wss!ReaderTells
  BY <1>27 DEF Wss!ReaderTells
<1>28. CASE Wss!ReaderFails
  BY <1>28 DEF Wss!ReaderFails
<1>29. CASE Wss!CloseMarks
  BY <1>29 DEF Wss!CloseMarks
<1>30. CASE Wss!CloseTells
  BY <1>30 DEF Wss!CloseTells
<1>31. CASE Wss!ReaderEnds
  BY <1>31 DEF Wss!ReaderEnds
<1>32. QED
  BY <1>1, <1>2, <1>3, <1>4, <1>5, <1>6, <1>7, <1>8, <1>9, <1>10, <1>11, <1>12, <1>13, <1>14, <1>15, <1>16, <1>17, <1>18, <1>19, <1>20, <1>21, <1>22, <1>23, <1>24, <1>25, <1>26, <1>27, <1>28, <1>29, <1>30, <1>31 DEF Wss!Next, Wss!Progress, Wss!Hub, Wss!Reader

LEMMA WssStays == ASSUME WssInv, UNCHANGED Wss!vars PROVE WssInv'
<1> USE DEF Wss!vars, Wss!worldVars, Wss!trustVars, Wss!connectVars, Wss!kkVars, Wss!flagVars, Wss!healthVars,
            Wss!channelVars, Wss!readVars
<1>1. WssTypes'
  BY DEF WssInv, WssTypes
<1>2. ASSUME patient PROVE PatientInv'
  <2>1. ReaderInv' /\ KkInv'
    BY <1>2 DEF WssInv, PatientInv, ReaderInv, KkInv
  <2>2. UnsaidInv' /\ ChannelInv'
    BY <1>2 DEF WssInv, PatientInv, UnsaidInv, NothingSaid, ChannelInv
  <2>3. ReasonInv'
    BY <1>2 DEF WssInv, PatientInv, ReasonInv, RefusedFor
  <2>4. QED
    BY <2>1, <2>2, <2>3 DEF PatientInv
<1>3. patient' = patient
  OBVIOUS
<1>4. QED
  BY <1>1, <1>2, <1>3 DEF WssInv

LEMMA WssStep ==
  ASSUME WssInv, [Wss!Next]_(Wss!vars)
  PROVE  WssInv'
<1>1. CASE Wss!Next
  <2>1. WssTypes'
    BY <1>1, WssTypesKeep
  <2>2. ASSUME patient PROVE PatientInv'
    <3>1. WssTypes /\ PatientInv
      BY <2>2 DEF WssInv
    <3>2. ReaderInv' /\ UnsaidInv' /\ ChannelInv' /\ KkInv' /\ ReasonInv'
      BY <1>1, <2>2, <3>1, ReaderKeeps, UnsaidKeeps, ChannelKeeps, KkKeeps, ReasonKeeps
    <3>3. QED
      BY <3>2 DEF PatientInv
  <2>3. patient' = patient
    BY <1>1, PatienceIsKept
  <2>4. QED
    BY <2>1, <2>2, <2>3 DEF WssInv
<1>2. CASE UNCHANGED Wss!vars
  BY <1>2, WssStays
<1>3. QED
  BY <1>1, <1>2

(* The pin of a hub is set on first contact and never replaced: start()    *)
(* and the XX answer of NoiseChannel compare with it before they keep one. *)
THEOREM PinStays ==
  Wss!Init /\ [][Wss!Next]_(Wss!vars)
    => Wss!PinIsKept
<1>1. Wss!Init => WssInv
  BY WssStarts
<1>2. WssInv /\ [Wss!Next]_(Wss!vars) => WssInv'
  BY WssStep
<1>3. WssInv /\ [Wss!Next]_(Wss!vars) => [pin' # pin => pin = "none"]_(Wss!vars)
  <2>1. ASSUME WssInv, Wss!Next, pin' # pin PROVE pin = "none"
    BY <2>1, OnlyAnAnswerPins DEF WssInv, WssTypes
  <2>2. QED
    BY <2>1
<1>4. QED
  BY <1>1, <1>2, <1>3, PTL DEF Wss!PinIsKept

LEMMA TellsOne ==
  ASSUME WssTypes, patient, PatientInv, Wss!Next
  PROVE  /\ Wss!Reports("keyChanged") => pin = "other" /\ psk = "good"
         /\ Wss!Reports("keyRejected") => ~ known /\ psk = "good"
         /\ Wss!Reports("refused") => psk = "bad" \/ ~ wssAdmitted
<1> USE DEF Wss!connectVars, Wss!Reads, Wss!Goes, Wss!Reports
<1>1. CASE Wss!Connect
  BY <1>1 DEF Wss!Connect
<1>2. CASE Wss!Reset
  BY <1>2 DEF Wss!Reset
<1>3. CASE Wss!Clean
  BY <1>3 DEF Wss!Clean
<1>4. CASE Wss!Woken
  BY <1>4 DEF Wss!Woken
<1>5. CASE Wss!Check
  BY <1>5 DEF Wss!Check
<1>6. CASE Wss!Count
  BY <1>6 DEF Wss!Count
<1>7. CASE Wss!ReadCause
  BY <1>7 DEF Wss!ReadCause
<1>8. CASE Wss!HangUp
  BY <1>8 DEF Wss!HangUp
<1>9. CASE Wss!Type
  BY <1>9 DEF Wss!Type
<1>10. CASE Wss!Fail
  BY <1>10 DEF Wss!Fail
<1>11. CASE Wss!Report
  BY <1>11 DEF Wss!Report, Wss!Refusal, Wss!Step, PatientInv, ReasonInv, RefusedFor, KkInv
<1>12. CASE Wss!UpgradeRefused
  BY <1>12 DEF Wss!UpgradeRefused
<1>13. CASE Wss!DialFails
  BY <1>13 DEF Wss!DialFails
<1>14. CASE Wss!Opens
  BY <1>14 DEF Wss!Opens
<1>15. CASE Wss!TimesOut
  BY <1>15 DEF Wss!TimesOut
<1>16. CASE Wss!SettleStops
  BY <1>16 DEF Wss!SettleStops, Wss!Refusal, Wss!Step, PatientInv, ReasonInv, RefusedFor, KkInv, ChannelInv
<1>17. CASE Wss!SettleEnds
  BY <1>17 DEF Wss!SettleEnds
<1>18. CASE Wss!CutOff
  BY <1>18 DEF Wss!CutOff
<1>19. CASE Wss!CleansUp
  BY <1>19 DEF Wss!CleansUp
<1>20. CASE Wss!ReadOffer
  BY <1>20 DEF Wss!ReadOffer
<1>21. CASE Wss!ReadAnswer
  BY <1>21 DEF Wss!ReadAnswer
<1>22. CASE Wss!ReadChangedKey
  BY <1>22 DEF Wss!ReadChangedKey
<1>23. CASE Wss!ReadBadAnswer
  BY <1>23 DEF Wss!ReadBadAnswer
<1>24. CASE Wss!ReadFrame
  BY <1>24 DEF Wss!ReadFrame
<1>25. CASE Wss!ReadFails
  BY <1>25 DEF Wss!ReadFails
<1>26. ASSUME NEW soon \in BOOLEAN, Wss!ReadClose(soon) PROVE result' = result
  BY <1>26 DEF Wss!ReadClose
<1>27. CASE Wss!ReaderTells
  BY <1>27 DEF Wss!ReaderTells
<1>28. CASE Wss!ReaderFails
  BY <1>28 DEF Wss!ReaderFails
<1>29. CASE Wss!CloseMarks
  BY <1>29 DEF Wss!CloseMarks
<1>30. CASE Wss!CloseTells
  BY <1>30 DEF Wss!CloseTells
<1>31. CASE Wss!ReaderEnds
  BY <1>31 DEF Wss!ReaderEnds
<1>32. QED
  BY <1>1, <1>2, <1>3, <1>4, <1>5, <1>6, <1>7, <1>8, <1>9, <1>10, <1>11, <1>12, <1>13, <1>14, <1>15, <1>16, <1>17, <1>18, <1>19, <1>20, <1>21, <1>22, <1>23, <1>24, <1>25, <1>26, <1>27, <1>28, <1>29, <1>30, <1>31 DEF Wss!Next, Wss!Progress, Wss!Hub, Wss!Reader

(* While no caller cuts a connect off, the reason it gives is the case: a  *)
(* changed key, a rejected key and a refusal each stand for what the hub   *)
(* or this client's configuration made of the handshake (typed, the close  *)
(* codes, and the refusals connect_for_session and settled report).        *)
THEOREM ReasonIsTheCase ==
  Wss!Init /\ [][Wss!Next]_(Wss!vars)
    => Wss!TellsWhy
<1>1. Wss!Init => WssInv
  BY WssStarts
<1>2. WssInv /\ [Wss!Next]_(Wss!vars) => WssInv'
  BY WssStep
<1>3. WssInv /\ [Wss!Next]_(Wss!vars) =>
        [patient =>
          /\ Wss!Reports("keyChanged") => pin = "other" /\ psk = "good"
          /\ Wss!Reports("keyRejected") => ~ known /\ psk = "good"
          /\ Wss!Reports("refused") => psk = "bad" \/ ~ wssAdmitted]_(Wss!vars)
  BY TellsOne DEF WssInv
<1>4. QED
  BY <1>1, <1>2, <1>3, PTL DEF Wss!TellsWhy

-----------------------------------------------------------------------------
(* The whole: its components share no step, so that what holds of each by  *)
(* its own specification holds of all of them together.                    *)

LEMMA HttpIsAComponent == TransportSpec => Http!Spec
<1>1. TransportInit => Http!Init
  BY DEF TransportInit
<1>2. [TransportNext]_TransportVars => [Http!Next]_(Http!httpVars)
  BY DEF TransportNext, TransportVars, httpVars, Http!httpVars,
         Http!dialVars, Http!healthVars, Http!verdicts, Http!linkVars, Http!pollVars, Http!hubVars
<1>3. QED
  BY <1>1, <1>2, PTL DEF TransportSpec, Http!Spec

LEMMA StreamIsAComponent == TransportSpec => Stream!EventStreamInit /\ [][Stream!EventStreamNext]_(Stream!streamVars)
<1>1. TransportInit => Stream!EventStreamInit
  BY DEF TransportInit
<1>2. [TransportNext]_TransportVars => [Stream!EventStreamNext]_(Stream!streamVars)
  BY DEF TransportNext, TransportVars, streamVars, Stream!streamVars
<1>3. QED
  BY <1>1, <1>2, PTL DEF TransportSpec

LEMMA MqttIsAComponent == TransportSpec => Mqtt!Init /\ [][Mqtt!Next]_(Mqtt!mqttVars)
<1>1. TransportInit => Mqtt!Init
  BY DEF TransportInit
<1>2. [TransportNext]_TransportVars => [Mqtt!Next]_(Mqtt!mqttVars)
  BY DEF TransportNext, TransportVars, mqttVars, Mqtt!mqttVars,
         Mqtt!dialVars, Mqtt!taskVars, Mqtt!linkVars, Mqtt!sendVars, Mqtt!hubVars
<1>3. QED
  BY <1>1, <1>2, PTL DEF TransportSpec

LEMMA WssIsAComponent == TransportSpec => Wss!Init /\ [][Wss!Next]_(Wss!vars)
<1>1. TransportInit => Wss!Init
  BY DEF TransportInit
<1>2. [TransportNext]_TransportVars => [Wss!Next]_(Wss!vars)
  BY DEF TransportNext, TransportVars, wssVars, Wss!vars,
         Wss!worldVars, Wss!trustVars, Wss!connectVars, Wss!kkVars, Wss!flagVars, Wss!channelVars,
         Wss!healthVars, Wss!readVars
<1>3. QED
  BY <1>1, <1>2, PTL DEF TransportSpec

(* Whatever else goes on, the hub keeps no HTTP registration that the      *)
(* client does not know it has to end (HttpTransport::connect, disconnect).*)
THEOREM PeersAreKnown == TransportSpec => []NoOrphanPeer
<1>1. Http!Spec => []Http!NoOrphanPeer
  BY NoOrphanLeft, ComponentAssumptions
<1>2. QED
  BY <1>1, HttpIsAComponent, PTL DEF NoOrphanPeer

(* No event of an HTTP session is lost in silence (poll_once).             *)
THEOREM GapsAreTold == TransportSpec => []NoSilentGap
<1>1. Http!Spec => []Http!NoSilentGap
  BY NoGapOnALink, ComponentAssumptions
<1>2. QED
  BY <1>1, HttpIsAComponent, PTL DEF NoSilentGap

(* Nothing is skipped by an MQTT link that is up, nor by a stream since its *)
(* listen() (run_mqtt_event_loop, EventStream::recv).                      *)
THEOREM NothingIsSkipped == TransportSpec => []NothingSkipped
<1>1. Mqtt!Init /\ [][Mqtt!Next]_(Mqtt!mqttVars)
       => [](Mqtt!NothingSkipped /\ Mqtt!UpIsServed)
  BY MqttSkipsNothing, ComponentAssumptions
<1>2. QED
  BY <1>1, MqttIsAComponent, StreamIsAComponent, StreamSkipsNothing, PTL DEF NothingSkipped

(* The pin is set on first contact and never replaced (open_connection).   *)
THEOREM PinIsNeverReplaced == TransportSpec => PinIsKept
  BY WssIsAComponent, PinStays DEF PinIsKept

(* The reason a WSS connect gives is the case (connect_error).             *)
THEOREM ReasonsAreTrue == TransportSpec => TellsWhy
  BY WssIsAComponent, ReasonIsTheCase DEF TellsWhy
=============================================================================
