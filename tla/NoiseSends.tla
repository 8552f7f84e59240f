----------------------------- MODULE NoiseSends -----------------------------
(***************************************************************************)
(* Sending over an established link: send_with_deadline, send_detached,    *)
(* write_unless_retired, NoiseSendGuard and the send_message_inner of the  *)
(* three transports of src/transport.rs.                                   *)
(*                                                                         *)
(* A message is encrypted at once into frames with consecutive counters    *)
(* and written frame by frame.  The cipher cannot go back: after a message *)
(* that was not written to its end the hub can decrypt nothing more.  The  *)
(* write runs on a task of its own, so that a caller who stops waiting     *)
(* does not stop it; a disconnect() does.                                  *)
(*                                                                         *)
(* `path' is what serialises the writes: the writer's lock over WSS, the   *)
(* connection's gate over HTTPS and MQTT.  Each sender sends one message.  *)
(* A connect is one step here (WssLink, HttpLink and MqttLink say what it  *)
(* does), and so is a cleanup (see Connection).                            *)
(***************************************************************************)
EXTENDS Integers, Sequences

CONSTANTS
  Senders,      \* tasks that send, one message each
  Frames,       \* frames a message is encrypted into
  MaxSessions,  \* bound: sessions ever established
  None, Reader

SendsAssumption ==
  /\ Frames \in Nat \ {0} /\ MaxSessions \in Nat
  /\ None \notin Senders /\ Reader \notin Senders /\ Reader # None

VARIABLES
  protocol,     \* which of the three transports this is
  caller,       \* per sender: its wait for the outcome
  told,         \* senders whose wait a disconnect() has woken
  task, part,   \* per sender: its write task; frames it has written
  first,        \* per sender: the counter of its message's first frame
  struck,       \* write tasks a disconnect() has woken
  path,         \* who holds the send path
  session,      \* the Noise session of the channel, 0 for no channel
  counter,      \* the session's next counter
  failed,       \* NoiseChannel.failed
  valid,        \* WssTransportState.session_valid
  cancelled,    \* ConnectionControl.cancelled
  cleanup,      \* a cleanup is owed
  wire,         \* the frames the hub received
  late          \* history: senders who left before the path was theirs

sendVars    == <<caller, told, task, part, first, struck>>
channelVars == <<session, counter, failed, valid>>
sendsVars   == <<protocol, sendVars, path, channelVars, cancelled, cleanup,
                 wire, late>>

Protocols == {"wss", "https", "mqtt"}

Init ==
  /\ protocol \in Protocols
  /\ caller = [s \in Senders |-> "idle"] /\ told = {}
  /\ task = [s \in Senders |-> "none"]
  /\ part = [s \in Senders |-> 0] /\ first = [s \in Senders |-> 0]
  /\ struck = {} /\ path = None
  /\ session = 0 /\ counter = 0 /\ failed = FALSE /\ valid = FALSE
  /\ cancelled = FALSE /\ cleanup = FALSE
  /\ wire = <<>> /\ late = {}

Ready ==
  /\ session # 0 /\ ~failed
  /\ protocol = "wss" => valid

-----------------------------------------------------------------------------
(* The caller: send_with_deadline around send_detached.                    *)

Send(s) ==
  /\ caller[s] = "idle"
  /\ \/ /\ cancelled
        /\ caller' = [caller EXCEPT ![s] = "error"]
        /\ UNCHANGED task
     \/ /\ ~cancelled
        /\ caller' = [caller EXCEPT ![s] = "waits"]
        /\ task' = [task EXCEPT ![s] = "queued"]
  /\ UNCHANGED <<protocol, told, part, first, struck, path, channelVars,
                 cancelled, cleanup, wire, late>>

(* The deadline, a reply's own bound, a dropped future, or `retired'.      *)
Leave(s) ==
  /\ caller[s] = "waits"
  /\ caller' = [caller EXCEPT ![s] = "gone"]
  /\ late' = IF task[s] = "queued" THEN late \cup {s} ELSE late
  /\ UNCHANGED <<protocol, told, task, part, first, struck, path,
                 channelVars, cancelled, cleanup, wire>>

(* The task reports how it went; nobody may be there to hear.              *)
Report(s, outcome) ==
  /\ task' = [task EXCEPT ![s] = "done"]
  /\ caller' = [caller EXCEPT ![s] =
                  IF @ # "waits" THEN @
                  ELSE IF s \in told THEN "gone" ELSE outcome]

-----------------------------------------------------------------------------
(* The write task.                                                         *)

(* mark_error and mark_connection_error, which a failed send leads to over *)
(* HTTPS and MQTT: the channel is cleared.                                 *)
MarkError ==
  IF protocol = "wss" THEN UNCHANGED channelVars
  ELSE /\ session' = 0 /\ failed' = FALSE
       /\ UNCHANGED <<counter, valid>>

TakePath_Unchecked(s) ==
  /\ task[s] = "queued" /\ path = None
  /\ path' = s
  /\ task' = [task EXCEPT ![s] = "opening"]
  /\ UNCHANGED <<protocol, caller, told, part, first, struck, channelVars,
                 cancelled, cleanup, wire, late>>

(* The path is free: a message whose caller has left is dropped, and       *)
(* nothing is written on a retired transport.                              *)
TakePath(s) ==
  /\ task[s] = "queued" /\ path = None
  /\ \/ /\ caller[s] # "waits"
        /\ task' = [task EXCEPT ![s] = "done"]
        /\ UNCHANGED <<caller, path, channelVars>>
     \/ /\ caller[s] = "waits" /\ cancelled
        /\ Report(s, "error")
        /\ MarkError
        /\ UNCHANGED path
     \/ /\ caller[s] = "waits" /\ ~cancelled
        /\ path' = s
        /\ task' = [task EXCEPT ![s] = "opening"]
        /\ UNCHANGED <<caller, channelVars>>
  /\ UNCHANGED <<protocol, told, part, first, struck, cancelled, cleanup,
                 wire, late>>

(* A message that ends without being written whole: its guard, or the      *)
(* channel's own mark, spoils the session.                                 *)
Spoil ==
  IF protocol = "wss"
  THEN valid' = FALSE /\ UNCHANGED <<session, counter, failed>>
  ELSE MarkError

(* Under the path: the message is encrypted whole, or refused.             *)
Open(s) ==
  /\ task[s] = "opening" /\ s \notin struck
  /\ \/ /\ ~Ready
        /\ Report(s, "error")
        /\ MarkError
        /\ path' = None
        /\ UNCHANGED first
     \/ /\ Ready
        /\ task' = [task EXCEPT ![s] = "writing"]
        /\ first' = [first EXCEPT ![s] = counter]
        /\ counter' = counter + Frames
        /\ failed' = TRUE
        /\ UNCHANGED <<caller, path, session, valid>>
  /\ UNCHANGED <<protocol, told, part, struck, cancelled, cleanup, wire,
                 late>>

Frame(s) ==
  [session |-> session, counter |-> first[s] + part[s], of |-> s,
   part |-> part[s]]

Write(s) ==
  /\ task[s] = "writing" /\ s \notin struck /\ part[s] < Frames
  /\ wire' = Append(wire, Frame(s))
  /\ part' = [part EXCEPT ![s] = @ + 1]
  /\ UNCHANGED <<protocol, caller, told, task, first, struck, path,
                 channelVars, cancelled, cleanup, late>>

(* The write ends early: retired.  The frame under way may have arrived.   *)
Stop(s) ==
  /\ s \in struck
  /\ \/ /\ task[s] = "opening"
        /\ UNCHANGED wire
        /\ MarkError
     \/ /\ task[s] = "writing" /\ part[s] < Frames
        /\ wire' \in {wire, Append(wire, Frame(s))}
        /\ Spoil
  /\ Report(s, "error")
  /\ path' = None
  /\ UNCHANGED <<protocol, told, part, first, struck, cancelled, cleanup,
                 late>>

(* It fails, or is not done within WRITE_TIMEOUT: the same, unasked for.   *)
Break(s) ==
  /\ task[s] = "writing" /\ s \notin struck /\ part[s] < Frames
  /\ wire' \in {wire, Append(wire, Frame(s))}
  /\ Spoil
  /\ Report(s, "error")
  /\ path' = None
  /\ UNCHANGED <<protocol, told, part, first, struck, cancelled, cleanup,
                 late>>

Finish(s) ==
  /\ task[s] = "writing" /\ part[s] = Frames
  /\ failed' = FALSE
  /\ Report(s, "ok")
  /\ path' = None
  /\ UNCHANGED <<protocol, told, part, first, struck, session, counter,
                 valid, cancelled, cleanup, wire, late>>

-----------------------------------------------------------------------------
(* The others who use the channel.                                         *)

(* A frame of the hub is read under the same locks; over WSS session_valid *)
(* is written back at the end, whatever disconnect() wrote meanwhile.      *)
ReaderTakes ==
  /\ path = None /\ Ready
  /\ path' = Reader
  /\ UNCHANGED <<protocol, sendVars, channelVars, cancelled, cleanup, wire,
                 late>>

ReaderEnds ==
  /\ path = Reader
  /\ path' = None
  /\ \/ /\ valid' = (protocol = "wss")
        /\ UNCHANGED <<session, counter, failed>>
     \/ Spoil
  /\ UNCHANGED <<protocol, sendVars, cancelled, cleanup, wire, late>>

(* disconnect(), before its cleanup: no lock is taken.                     *)
Retire ==
  /\ ~cancelled
  /\ cancelled' = TRUE
  /\ told' = {s \in Senders : caller[s] = "waits"}
  /\ struck' = {s \in Senders : task[s] \in {"opening", "writing"}}
  /\ valid' = FALSE
  /\ cleanup' = TRUE
  /\ UNCHANGED <<protocol, caller, task, part, first, path, session,
                 counter, failed, wire, late>>

(* The hub's end of the link, heard by the reader or the event loop.       *)
LinkEnds ==
  /\ path = None /\ session # 0
  /\ session' = 0 /\ failed' = FALSE /\ valid' = FALSE
  /\ UNCHANGED <<protocol, sendVars, path, counter, cancelled, cleanup,
                 wire, late>>

CleansUp ==
  /\ cleanup /\ path = None
  /\ cleanup' = FALSE
  /\ session' = 0 /\ failed' = FALSE /\ valid' = FALSE
  /\ UNCHANGED <<protocol, sendVars, path, counter, cancelled, wire, late>>

Established == {wire[i].session : i \in DOMAIN wire} \cup {session}

Connect ==
  /\ path = None /\ (cancelled \/ ~Ready)
  /\ \E n \in 1 .. MaxSessions :
       /\ \A m \in Established : m < n
       /\ session' = n
  /\ counter' = 0 /\ failed' = FALSE
  /\ valid' = (protocol = "wss")
  /\ cancelled' = FALSE /\ cleanup' = FALSE
  /\ UNCHANGED <<protocol, sendVars, path, wire, late>>

Next ==
  \/ \E s \in Senders :
       \/ Send(s) \/ Leave(s)
       \/ TakePath(s) \/ Open(s) \/ Write(s)
       \/ Stop(s) \/ Break(s) \/ Finish(s)
  \/ ReaderTakes \/ ReaderEnds \/ LinkEnds
  \/ Retire \/ CleansUp \/ Connect

(* The runtime polls the tasks; whether the hub reads is the hub's affair, *)
(* and no deadline is taken to pass.                                       *)
Fairness ==
  /\ WF_sendsVars(ReaderEnds)
  /\ \A s \in Senders :
       /\ SF_sendsVars(TakePath(s))
       /\ WF_sendsVars(Open(s))
       /\ WF_sendsVars(Stop(s))
       /\ WF_sendsVars(Finish(s))

Spec == Init /\ [][Next]_sendsVars /\ Fairness

-----------------------------------------------------------------------------
TypeOK ==
  /\ protocol \in Protocols
  /\ caller \in [Senders -> {"idle", "waits", "ok", "error", "gone"}]
  /\ task \in [Senders -> {"none", "queued", "opening", "writing", "done"}]
  /\ part \in [Senders -> 0 .. Frames]
  /\ first \in [Senders -> Nat]
  /\ told \subseteq Senders /\ struck \subseteq Senders /\ late \subseteq Senders
  /\ path \in Senders \cup {None, Reader}
  /\ session \in 0 .. MaxSessions /\ counter \in Nat
  /\ failed \in BOOLEAN /\ valid \in BOOLEAN
  /\ cancelled \in BOOLEAN /\ cleanup \in BOOLEAN
  /\ wire \in Seq([session : 1 .. MaxSessions, counter : Nat, of : Senders,
                   part : 0 .. Frames - 1])

(* The hub can decrypt and reassemble what it receives: a session's frames *)
(* arrive in the order of their counters from 0, a message's frames one    *)
(* after the other, and after a message that was cut short nothing more of *)
(* its session arrives (the guard, `failed', and the cleared channel).     *)
Opens(f) == f.counter = 0 /\ f.part = 0

Continues(f, g) ==
  /\ g.session = f.session /\ g.counter = f.counter + 1
  /\ \/ g.of = f.of /\ g.part = f.part + 1
     \/ f.part = Frames - 1 /\ g.part = 0

WholeInOrder ==
  \A i \in DOMAIN wire :
    \/ Opens(wire[i]) /\ (i > 1 => wire[i - 1].session < wire[i].session)
    \/ i > 1 /\ Continues(wire[i - 1], wire[i])

(* A caller who stopped waiting before the send path was its message's own *)
(* leaves nothing behind: nothing of it is sent, then or later.            *)
NothingLate == \A i \in DOMAIN wire : wire[i].of \notin late

(* What reaches the wire is whole messages in the order of the cipher, and *)
(* none of a caller that had left before its turn, whoever is cut off.     *)
SendsAreWhole == NothingLate /\ WholeInOrder

(* A send that reported success put every frame of its message on the wire *)
(* of one session.                                                         *)
SentIsWhole ==
  \A s \in Senders : caller[s] = "ok" =>
    \E n \in 1 .. MaxSessions :
      \A k \in 0 .. Frames - 1 : \E i \in DOMAIN wire :
        wire[i].of = s /\ wire[i].session = n /\ wire[i].part = k

(* A disconnect() is not held up by a hub that stopped reading: whoever    *)
(* writes lets go of the send path without any deadline having to pass.    *)
RetireFreesPath ==
  \A s \in Senders : (cancelled /\ path = s) ~> (path # s)
=============================================================================
