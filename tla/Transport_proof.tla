--------------------------- MODULE Transport_proof ---------------------------
(***************************************************************************)
(* The channel, the sends and the stores below the lifecycle of a          *)
(* connection, as the components of MCTransport: each is an instance under *)
(* its own name, and every step of the whole is a step of one of them.     *)
(***************************************************************************)
EXTENDS MCTransport, Integers, Sequences, FiniteSets, FiniteSetTheorems, SequenceTheorems,
        WellFoundedInduction, TLAPS

-----------------------------------------------------------------------------
(* NoiseSends: what reaches the wire is whole messages in order.           *)

WireFrames == [session : Nat, counter : Nat, of : Senders, part : Nat]

(* What the argument needs of the types: Sends!TypeOK bounds the sessions  *)
(* besides.                                                                *)
SendTypes ==
  /\ caller \in [Senders -> {"idle", "waits", "ok", "error", "gone"}]
  /\ task \in [Senders -> {"none", "queued", "opening", "writing", "done"}]
  /\ part \in [Senders -> Nat]
  /\ first \in [Senders -> Nat]
  /\ late \subseteq Senders
  /\ sendsSession \in Nat /\ counter \in Nat
  /\ wire \in Seq(WireFrames)

(* Only the task that holds the send path opens or writes, so that at most *)
(* one message is half on the wire.                                        *)
HolderWrites ==
  \A s \in Senders : (task[s] \in {"opening", "writing"}) <=> (path = s)

(* A message's first frame is written by its task, from the start.         *)
StartsAtZero ==
  \A s \in Senders :
    /\ caller[s] = "idle" => task[s] = "none"
    /\ task[s] \in {"none", "queued", "opening"} => part[s] = 0
    /\ part[s] <= SendsFrames

(* What is on the wire is of tasks that came as far as writing, and a      *)
(* caller who left too early is not among them.                            *)
LateIsUnsent ==
  /\ \A i \in DOMAIN wire : task[wire[i].of] \in {"writing", "done"}
  /\ \A s \in late : caller[s] = "gone" /\ task[s] \in {"queued", "done"}
  /\ Sends!NothingLate

Last == wire[Len(wire)]

(* A message whose first frame has counter c may follow on the wire: it is *)
(* the session's first, or the session's last message ended just before.   *)
Fits(c) ==
  \/ c = 0 /\ \A i \in DOMAIN wire : wire[i].session < sendsSession
  \/ /\ wire # <<>>
     /\ Last.session = sendsSession
     /\ Last.counter + 1 = c
     /\ Last.part + 1 = SendsFrames

(* The cipher and the wire agree unless the channel is marked failed, and  *)
(* it stays marked from a message's encryption to its last frame.          *)
CipherInv ==
  /\ sendsSession # 0 => \A i \in DOMAIN wire : wire[i].session <= sendsSession
  /\ (sendsSession # 0 /\ ~sendsFailed) => Fits(counter)
  /\ \A s \in Senders : task[s] = "writing" =>
       /\ sendsSession # 0 /\ sendsFailed = TRUE
       /\ counter = first[s] + SendsFrames
       /\ part[s] = 0 => Fits(first[s])
       /\ part[s] > 0 => /\ wire # <<>>
                         /\ Last.session = sendsSession
                         /\ Last.of = s
                         /\ Last.counter + 1 = first[s] + part[s]
                         /\ Last.part + 1 = part[s]

SendsInv ==
  /\ SendTypes /\ HolderWrites /\ StartsAtZero /\ LateIsUnsent /\ CipherInv
  /\ Sends!WholeInOrder

(* One frame more on the wire: the frames before it stay where they are.   *)
LEMMA OneFrameMore ==
  ASSUME wire \in Seq(WireFrames), NEW f \in WireFrames, wire' = Append(wire, f)
  PROVE  /\ wire' \in Seq(WireFrames) /\ wire' # <<>>
         /\ Len(wire) \in Nat /\ Len(wire') = Len(wire) + 1
         /\ DOMAIN wire = 1 .. Len(wire)
         /\ DOMAIN wire' = 1 .. Len(wire) + 1
         /\ \A i \in 1 .. Len(wire) : wire'[i] = wire[i]
         /\ Last' = f /\ wire'[Len(wire) + 1] = f
BY DEF Last

LEMMA FramesOnWire ==
  ASSUME wire \in Seq(WireFrames), NEW i \in DOMAIN wire
  PROVE  /\ wire[i] \in WireFrames /\ wire[i].of \in Senders
         /\ wire[i].session \in Nat /\ wire[i].counter \in Nat
         /\ wire[i].part \in Nat
<1>1. wire[i] \in WireFrames
  OBVIOUS
<1>2. QED
  BY <1>1 DEF WireFrames

(* A writing task's next frame, and that it has the right type.            *)
LEMMA FrameTypes ==
  ASSUME SendTypes, NEW s \in Senders PROVE Sends!Frame(s) \in WireFrames
BY DEF SendTypes, WireFrames, Sends!Frame

LEMMA SendTypesHold ==
  ASSUME Sends!SendsAssumption, SendTypes, Sends!Next PROVE SendTypes'
<1> USE DEF Sends!sendVars, Sends!channelVars
<1>1. ASSUME NEW s \in Senders, Sends!Send(s) \/ Sends!Leave(s) PROVE SendTypes'
  BY <1>1 DEF SendTypes, Sends!Send, Sends!Leave
<1>2. ASSUME NEW s \in Senders, Sends!TakePath(s) \/ Sends!Open(s) \/ Sends!Finish(s)
      PROVE  SendTypes'
  <2>0. /\ caller' \in [Senders -> {"idle", "waits", "ok", "error", "gone"}]
        /\ task' \in [Senders -> {"none", "queued", "opening", "writing", "done"}]
    BY <1>2 DEF SendTypes, Sends!TakePath, Sends!Open, Sends!Finish, Sends!Report
  <2>1. CASE Sends!TakePath(s)
    BY <2>0, <2>1 DEF SendTypes, Sends!TakePath, Sends!MarkError
  <2>2. CASE Sends!Open(s)
    <3>1. first' \in [Senders -> Nat] /\ counter' \in Nat /\ sendsSession' \in Nat
      BY <2>2 DEF SendTypes, Sends!Open, Sends!MarkError,
                  Sends!SendsAssumption
    <3>2. QED
      BY <2>0, <2>2, <3>1 DEF SendTypes, Sends!Open
  <2>3. CASE Sends!Finish(s)
    BY <2>3 DEF SendTypes, Sends!Finish, Sends!Report
  <2>4. QED
    BY <1>2, <2>1, <2>2, <2>3
<1>3. ASSUME NEW s \in Senders, Sends!Write(s) \/ Sends!Stop(s) \/ Sends!Break(s)
      PROVE  SendTypes'
  <2>1. wire' \in Seq(WireFrames)
    <3>1. wire' = wire \/ wire' = Append(wire, Sends!Frame(s))
      BY <1>3 DEF Sends!Write, Sends!Stop, Sends!Break
    <3>2. wire \in Seq(WireFrames)
      BY DEF SendTypes
    <3>3. QED
      BY <3>1, <3>2, FrameTypes, OneFrameMore
  <2>2. CASE Sends!Write(s)
    BY <2>1, <2>2 DEF SendTypes, Sends!Write
  <2>3. CASE Sends!Stop(s)
    BY <2>1, <2>3 DEF SendTypes, Sends!Stop, Sends!Report, Sends!MarkError,
                      Sends!Spoil
  <2>4. CASE Sends!Break(s)
    BY <2>1, <2>4 DEF SendTypes, Sends!Break, Sends!Report, Sends!MarkError,
                      Sends!Spoil
  <2>5. QED
    BY <1>3, <2>2, <2>3, <2>4
<1>4. CASE Sends!ReaderTakes \/ Sends!ReaderEnds \/ Sends!LinkEnds
  BY <1>4 DEF SendTypes, Sends!ReaderTakes, Sends!ReaderEnds, Sends!LinkEnds,
              Sends!Spoil, Sends!MarkError
<1>5. CASE Sends!Retire \/ Sends!CleansUp \/ Sends!Connect
  BY <1>5 DEF SendTypes, Sends!Retire, Sends!CleansUp, Sends!Connect,
              Sends!SendsAssumption
<1>6. QED
  BY <1>1, <1>2, <1>3, <1>4, <1>5 DEF Sends!Next

LEMMA PathHolds ==
  ASSUME Sends!SendsAssumption, SendTypes, HolderWrites, StartsAtZero, Sends!Next
  PROVE  HolderWrites' /\ StartsAtZero'
<1> USE DEF Sends!sendVars, Sends!channelVars
<1>1. ASSUME NEW s \in Senders, Sends!Send(s) \/ Sends!Leave(s)
      PROVE  HolderWrites' /\ StartsAtZero'
  BY <1>1 DEF SendTypes, HolderWrites, StartsAtZero, Sends!Send, Sends!Leave
<1>2. ASSUME NEW s \in Senders, Sends!TakePath(s) \/ Sends!Open(s) \/ Sends!Finish(s)
      PROVE  HolderWrites' /\ StartsAtZero'
  <2>1. CASE Sends!TakePath(s)
    BY <2>1 DEF SendTypes, HolderWrites, StartsAtZero, Sends!TakePath,
                Sends!Report, Sends!SendsAssumption
  <2>2. CASE Sends!Open(s)
    BY <2>2, ZenonT(40) DEF SendTypes, HolderWrites, StartsAtZero, Sends!Open,
                Sends!Report, Sends!SendsAssumption
  <2>3. CASE Sends!Finish(s)
    BY <2>3 DEF SendTypes, HolderWrites, StartsAtZero, Sends!Finish,
                Sends!Report, Sends!SendsAssumption
  <2>4. QED
    BY <1>2, <2>1, <2>2, <2>3
<1>3. ASSUME NEW s \in Senders, Sends!Write(s) \/ Sends!Stop(s) \/ Sends!Break(s)
      PROVE  HolderWrites' /\ StartsAtZero'
  <2>1. CASE Sends!Write(s)
    BY <2>1 DEF SendTypes, HolderWrites, StartsAtZero, Sends!Write,
                Sends!SendsAssumption
  <2>2. CASE Sends!Stop(s)
    BY <2>2 DEF SendTypes, HolderWrites, StartsAtZero, Sends!Stop,
                Sends!Report, Sends!SendsAssumption
  <2>3. CASE Sends!Break(s)
    BY <2>3 DEF SendTypes, HolderWrites, StartsAtZero, Sends!Break,
                Sends!Report, Sends!SendsAssumption
  <2>4. QED
    BY <1>3, <2>1, <2>2, <2>3
<1>4. CASE Sends!ReaderTakes \/ Sends!ReaderEnds \/ Sends!LinkEnds
  BY <1>4 DEF HolderWrites, StartsAtZero, Sends!ReaderTakes, Sends!ReaderEnds,
              Sends!LinkEnds, Sends!SendsAssumption
<1>5. CASE Sends!Retire \/ Sends!CleansUp \/ Sends!Connect
  BY <1>5 DEF HolderWrites, StartsAtZero, Sends!Retire, Sends!CleansUp,
              Sends!Connect
<1>6. QED
  BY <1>1, <1>2, <1>3, <1>4, <1>5 DEF Sends!Next

(* The wire grows by the frame a writing task is at, and by nothing else.  *)
LEMMA OnlyWritersWrite ==
  ASSUME Sends!Next
  PROVE  \/ wire' = wire
         \/ \E s \in Senders : /\ task[s] = "writing" /\ part[s] < SendsFrames
                              /\ wire' = Append(wire, Sends!Frame(s))
<1>1. ASSUME NEW s \in Senders, Sends!Write(s) \/ Sends!Stop(s) \/ Sends!Break(s)
      PROVE  \/ wire' = wire
             \/ /\ task[s] = "writing" /\ part[s] < SendsFrames
                /\ wire' = Append(wire, Sends!Frame(s))
  BY <1>1 DEF Sends!Write, Sends!Stop, Sends!Break
<1>2. ASSUME NEW s \in Senders,
             \/ Sends!Send(s) \/ Sends!Leave(s) \/ Sends!TakePath(s)
             \/ Sends!Open(s) \/ Sends!Finish(s)
      PROVE  wire' = wire
  BY <1>2 DEF Sends!Send, Sends!Leave, Sends!TakePath, Sends!Open, Sends!Finish
<1>3. CASE \/ Sends!ReaderTakes \/ Sends!ReaderEnds \/ Sends!LinkEnds
           \/ Sends!Retire \/ Sends!CleansUp \/ Sends!Connect
  BY <1>3 DEF Sends!ReaderTakes, Sends!ReaderEnds, Sends!LinkEnds,
              Sends!Retire, Sends!CleansUp, Sends!Connect
<1>4. QED
  BY <1>1, <1>2, <1>3 DEF Sends!Next

(* The frame a writing task is at continues what is on the wire.           *)
LEMMA FrameFollows ==
  ASSUME Sends!SendsAssumption, SendTypes, CipherInv, Sends!WholeInOrder,
         NEW s \in Senders, task[s] = "writing", part[s] < SendsFrames,
         wire' = Append(wire, Sends!Frame(s))
  PROVE  Sends!WholeInOrder'
<1> DEFINE f == Sends!Frame(s)
<1>1. /\ f \in WireFrames /\ f.session = sendsSession /\ f.of = s
      /\ f.counter = first[s] + part[s] /\ f.part = part[s]
      /\ part[s] \in Nat /\ first[s] \in Nat /\ SendsFrames \in Nat
  BY FrameTypes DEF SendTypes, Sends!Frame, Sends!SendsAssumption
<1>2. wire \in Seq(WireFrames)
  BY DEF SendTypes
<1> HIDE DEF f
<1>3. wire' = Append(wire, f)
  BY DEF f
<1>4. \/ Sends!Opens(f) /\ \A i \in DOMAIN wire : wire[i].session < sendsSession
      \/ wire # <<>> /\ Sends!Continues(Last, f)
  <2>1. /\ wire # <<>> => Last \in WireFrames
    BY <1>2 DEF Last
  <2>2. CASE part[s] = 0
    BY <1>1, <2>1, <2>2 DEF CipherInv, Fits, Sends!Opens, Sends!Continues, WireFrames
  <2>3. CASE part[s] > 0
    BY <1>1, <2>1, <2>3 DEF CipherInv, Sends!Continues, WireFrames
  <2>4. QED
    BY <1>1, <2>2, <2>3
<1>5. /\ Len(wire) \in Nat
      /\ DOMAIN wire = 1 .. Len(wire) /\ DOMAIN wire' = 1 .. Len(wire) + 1
      /\ \A i \in 1 .. Len(wire) : wire'[i] = wire[i]
      /\ wire'[Len(wire) + 1] = f
  BY <1>1, <1>2, <1>3, OneFrameMore
<1>6. ASSUME NEW i \in DOMAIN wire', i <= Len(wire)
      PROVE  \/ Sends!Opens(wire'[i]) /\ (i > 1 => wire'[i - 1].session < wire'[i].session)
             \/ i > 1 /\ Sends!Continues(wire'[i - 1], wire'[i])
  <2>1. i \in DOMAIN wire /\ wire'[i] = wire[i] /\ (i > 1 => wire'[i - 1] = wire[i - 1])
    BY <1>5, <1>6
  <2>2. QED
    BY <1>6, <2>1 DEF Sends!WholeInOrder
<1>7. ASSUME NEW i \in DOMAIN wire', i = Len(wire) + 1
      PROVE  \/ Sends!Opens(wire'[i]) /\ (i > 1 => wire'[i - 1].session < wire'[i].session)
             \/ i > 1 /\ Sends!Continues(wire'[i - 1], wire'[i])
  <2>1. wire'[i] = f /\ (i > 1 => wire'[i - 1] = Last /\ Len(wire) \in DOMAIN wire)
    <3>1. wire'[i] = f /\ i - 1 = Len(wire)
      BY <1>5, <1>7
    <3>2. i > 1 => Len(wire) \in 1 .. Len(wire)
      BY <1>5, <1>7
    <3>3. QED
      BY <1>5, <3>1, <3>2 DEF Last
  <2>2. wire # <<>> => i > 1
    BY <1>2, <1>5, <1>7
  <2>3. QED
    BY <1>1, <1>4, <2>1, <2>2 DEF Last
<1>8. QED
  BY <1>5, <1>6, <1>7 DEF Sends!WholeInOrder, Sends!Opens, Sends!Continues

(* A task goes on from where it stands, and a message whose caller left    *)
(* before its turn is never opened.                                        *)
LEMMA TasksGoForward ==
  ASSUME SendTypes, StartsAtZero, Sends!Next, NEW x \in Senders
  PROVE  /\ task[x] \in {"writing", "done"} => task'[x] \in {"writing", "done"}
         /\ (caller[x] = "gone" /\ task[x] \in {"queued", "done"})
              => (caller'[x] = "gone" /\ task'[x] \in {"queued", "done"})
<1> DEFINE Forward ==
      /\ task[x] \in {"writing", "done"} => task'[x] \in {"writing", "done"}
      /\ (caller[x] = "gone" /\ task[x] \in {"queued", "done"})
           => (caller'[x] = "gone" /\ task'[x] \in {"queued", "done"})
<1> USE DEF Sends!sendVars
<1>1. ASSUME NEW s \in Senders, Sends!Send(s) \/ Sends!Leave(s) PROVE Forward
  BY <1>1 DEF SendTypes, StartsAtZero, Sends!Send, Sends!Leave
<1>2. ASSUME NEW s \in Senders, Sends!TakePath(s) \/ Sends!Open(s) PROVE Forward
  BY <1>2 DEF SendTypes, Sends!TakePath, Sends!Open, Sends!Report
<1>3. ASSUME NEW s \in Senders,
             Sends!Write(s) \/ Sends!Stop(s) \/ Sends!Break(s) \/ Sends!Finish(s)
      PROVE  Forward
  BY <1>3 DEF SendTypes, Sends!Write, Sends!Stop, Sends!Break, Sends!Finish,
              Sends!Report
<1>4. CASE \/ Sends!ReaderTakes \/ Sends!ReaderEnds \/ Sends!LinkEnds
           \/ Sends!Retire \/ Sends!CleansUp \/ Sends!Connect
  BY <1>4 DEF Sends!ReaderTakes, Sends!ReaderEnds, Sends!LinkEnds,
              Sends!Retire, Sends!CleansUp, Sends!Connect
<1>5. QED
  BY <1>1, <1>2, <1>3, <1>4 DEF Sends!Next

LEMMA LateStaysUnsent ==
  ASSUME SendTypes, StartsAtZero, LateIsUnsent, Sends!Next PROVE LateIsUnsent'
<1> USE DEF Sends!sendVars
<1>0. \A i \in DOMAIN wire : wire[i].of \in Senders
  BY FramesOnWire DEF SendTypes
<1>1. ASSUME NEW s \in Senders, Sends!Leave(s) PROVE LateIsUnsent'
  <2>1. UNCHANGED <<task, wire>> /\ late' \in {late, late \cup {s}}
    BY <1>1 DEF Sends!Leave
  <2>2. s \in late' /\ s \notin late => task[s] = "queued"
    BY <1>1 DEF Sends!Leave
  <2>3. caller'[s] = "gone" /\ \A x \in Senders \ {s} : caller'[x] = caller[x]
    BY <1>1 DEF Sends!Leave, SendTypes
  <2>4. QED
    BY <1>0, <2>1, <2>2, <2>3 DEF LateIsUnsent, Sends!NothingLate, SendTypes
<1>2. CASE late' = late
  <2>1. \A s \in late : caller'[s] = "gone" /\ task'[s] \in {"queued", "done"}
    BY TasksGoForward DEF LateIsUnsent, SendTypes
  <2>2. CASE wire' = wire
    BY <1>0, <1>2, <2>1, <2>2, TasksGoForward
       DEF LateIsUnsent, Sends!NothingLate
  <2>3. ASSUME NEW s \in Senders, task[s] = "writing", wire' = Append(wire, Sends!Frame(s))
        PROVE  LateIsUnsent'
    <3>1. \A i \in DOMAIN wire' :
            wire'[i].of = s \/ (i \in DOMAIN wire /\ wire'[i] = wire[i])
      BY <2>3, FrameTypes, OneFrameMore DEF SendTypes, Sends!Frame
    <3>2. s \notin late /\ task'[s] \in {"writing", "done"}
      BY <2>3, TasksGoForward DEF LateIsUnsent
    <3>3. QED
      BY <1>0, <1>2, <2>1, <3>1, <3>2, TasksGoForward
         DEF LateIsUnsent, Sends!NothingLate
  <2>4. QED
    BY <2>2, <2>3, OnlyWritersWrite
<1>3. QED
  <2>1. late' = late \/ \E s \in Senders : Sends!Leave(s)
    BY DEF Sends!Next, Sends!Send, Sends!TakePath, Sends!Open, Sends!Write,
           Sends!Stop, Sends!Break, Sends!Finish, Sends!ReaderTakes,
           Sends!ReaderEnds, Sends!LinkEnds, Sends!Retire, Sends!CleansUp,
           Sends!Connect
  <2>2. QED
    BY <1>1, <1>2, <2>1

(* A step that leaves the wire and the messages under way as they are, and *)
(* starts none, keeps the cipher in step -- if it marks no channel good.   *)
LEMMA CipherIdle ==
  ASSUME CipherInv, UNCHANGED <<wire, first, part>>,
         \A x \in Senders : task'[x] = "writing" => task[x] = "writing",
         \/ UNCHANGED <<sendsSession, counter, sendsFailed>>
         \/ sendsSession' = 0 /\ \A x \in Senders : task'[x] # "writing"
  PROVE  CipherInv'
BY DEF CipherInv, Fits, Last

LEMMA CipherStaysInStep ==
  ASSUME Sends!SendsAssumption, SendTypes, HolderWrites, StartsAtZero,
         CipherInv, Sends!Next
  PROVE  CipherInv'
<1> USE DEF Sends!sendVars, Sends!channelVars
<1>0. /\ None \notin Senders /\ SendsReader \notin Senders /\ SendsFrames \in Nat /\ SendsFrames > 0
      /\ \A x, y \in Senders : (task[x] \in {"opening", "writing"} /\ path = y) => x = y
  BY DEF Sends!SendsAssumption, HolderWrites
<1>1. ASSUME NEW s \in Senders, Sends!Send(s) \/ Sends!Leave(s) PROVE CipherInv'
  BY <1>1, CipherIdle DEF SendTypes, Sends!Send, Sends!Leave
<1>2. ASSUME NEW s \in Senders, Sends!TakePath(s) PROVE CipherInv'
  <2>1. \A x \in Senders : task[x] # "writing" /\ task'[x] # "writing"
    BY <1>0, <1>2 DEF HolderWrites, SendTypes, Sends!TakePath, Sends!Report
  <2>2. QED
    BY <1>2, <2>1, CipherIdle DEF Sends!TakePath, Sends!MarkError
<1>3. ASSUME NEW s \in Senders, Sends!Open(s) PROVE CipherInv'
  <2>1. /\ \A x \in Senders : task[x] # "writing"
        /\ \A x \in Senders \ {s} : task'[x] = task[x]
    BY <1>0, <1>3 DEF HolderWrites, SendTypes, Sends!Open, Sends!Report
  <2>2. CASE Sends!Ready
    <3>1. /\ first'[s] = counter /\ counter' = counter + SendsFrames
          /\ sendsFailed' = TRUE /\ part'[s] = 0
          /\ UNCHANGED <<sendsSession, wire>> /\ sendsSession # 0 /\ Fits(counter)
      BY <1>3, <2>2 DEF SendTypes, StartsAtZero, CipherInv, Sends!Open, Sends!Ready
    <3>2. QED
      BY <2>1, <3>1 DEF CipherInv, Fits, Last
  <2>3. CASE ~ Sends!Ready
    <3>1. \A x \in Senders : task'[x] # "writing"
      BY <1>3, <2>1, <2>3 DEF SendTypes, Sends!Open, Sends!Report
    <3>2. QED
      BY <1>3, <2>3, <3>1, CipherIdle DEF Sends!Open, Sends!MarkError
  <2>4. QED
    BY <2>2, <2>3
<1>4. ASSUME NEW s \in Senders, Sends!Write(s) PROVE CipherInv'
  <2> DEFINE f == Sends!Frame(s)
  <2>1. /\ f \in WireFrames /\ f.session = sendsSession /\ f.of = s
        /\ f.counter = first[s] + part[s] /\ f.part = part[s]
        /\ part[s] \in Nat /\ first[s] \in Nat /\ wire \in Seq(WireFrames)
    BY FrameTypes DEF SendTypes, Sends!Frame
  <2>2. /\ task[s] = "writing" /\ wire' = Append(wire, f)
        /\ part'[s] = part[s] + 1
        /\ \A x \in Senders \ {s} : task[x] # "writing"
        /\ UNCHANGED <<task, first, sendsSession, counter, sendsFailed>>
    BY <1>0, <1>4 DEF SendTypes, HolderWrites, Sends!Write
  <2> HIDE DEF f
  <2>3. /\ wire' # <<>> /\ Last' = f
        /\ DOMAIN wire = 1 .. Len(wire)
        /\ DOMAIN wire' = 1 .. Len(wire) + 1
        /\ Len(wire) \in Nat
        /\ \A i \in 1 .. Len(wire) : wire'[i] = wire[i]
        /\ wire'[Len(wire) + 1] = f
    BY <2>1, <2>2, OneFrameMore
  <2>4. sendsSession # 0 /\ sendsFailed = TRUE /\ counter = first[s] + SendsFrames
    BY <2>2 DEF CipherInv
  <2>5. \A i \in DOMAIN wire' : wire'[i].session <= sendsSession
    <3>1. \A i \in 1 .. Len(wire) : wire[i].session <= sendsSession
      BY <2>3, <2>4 DEF CipherInv
    <3>2. sendsSession <= sendsSession
      BY DEF SendTypes
    <3>3. QED
      BY <2>1, <2>3, <3>1, <3>2
  <2>6. \A x \in Senders : task'[x] = "writing" => x = s
    BY <2>2
  <2>7. /\ part'[s] > 0 /\ Last'.session = sendsSession' /\ Last'.of = s
        /\ Last'.counter + 1 = first'[s] + part'[s] /\ Last'.part + 1 = part'[s]
    BY <2>1, <2>2, <2>3
  <2>8. part'[s] # 0
    BY <2>1, <2>2
  <2>9. QED
    BY <2>2, <2>3, <2>4, <2>5, <2>6, <2>7, <2>8 DEF CipherInv
<1>5. ASSUME NEW s \in Senders, Sends!Stop(s) \/ Sends!Break(s) PROVE CipherInv'
  <2>1. \A x \in Senders : task'[x] # "writing"
    <3>1. task[s] \in {"opening", "writing"} /\ task' = [task EXCEPT ![s] = "done"]
      BY <1>5 DEF Sends!Stop, Sends!Break, Sends!Report
    <3>2. \A x \in Senders \ {s} : task[x] # "writing"
      BY <1>0, <3>1 DEF HolderWrites
    <3>3. QED
      BY <3>1, <3>2 DEF SendTypes
  <2>2. CASE wire' = wire /\ task[s] = "opening"
    BY <1>5, <2>1, <2>2, CipherIdle DEF Sends!Stop, Sends!Break, Sends!MarkError
  <2>3. CASE task[s] = "writing" /\ part[s] < SendsFrames
    <3>1. sendsSession' = 0 \/ (sendsFailed' = TRUE /\ sendsSession' = sendsSession /\ sendsSession # 0)
      BY <1>5, <2>3 DEF Sends!Stop, Sends!Break, Sends!Spoil, Sends!MarkError, CipherInv
    <3>2. sendsSession # 0 => \A i \in DOMAIN wire' : wire'[i].session <= sendsSession
      <4>1. wire' = wire \/ wire' = Append(wire, Sends!Frame(s))
        BY <1>5, <2>3 DEF Sends!Stop, Sends!Break
      <4>2. Sends!Frame(s).session = sendsSession /\ wire \in Seq(WireFrames) /\ sendsSession \in Nat
        BY DEF Sends!Frame, SendTypes
      <4>3. wire' = wire \/ \A i \in DOMAIN wire' :
              (i \in DOMAIN wire /\ wire'[i] = wire[i]) \/ wire'[i].session = sendsSession
        BY <4>1, <4>2, FrameTypes, OneFrameMore
      <4>4. QED
        BY <4>2, <4>3 DEF CipherInv
    <3>3. QED
      BY <2>1, <3>1, <3>2 DEF CipherInv
  <2>4. QED
    BY <1>5, <2>2, <2>3 DEF Sends!Stop, Sends!Break
<1>6. ASSUME NEW s \in Senders, Sends!Finish(s) PROVE CipherInv'
  <2>1. /\ UNCHANGED <<wire, sendsSession, counter>>
        /\ task[s] = "writing" /\ part[s] = SendsFrames
        /\ \A x \in Senders : task'[x] # "writing"
    BY <1>0, <1>6 DEF HolderWrites, SendTypes, Sends!Finish, Sends!Report
  <2>2. Fits(counter)
    BY <1>0, <2>1 DEF CipherInv, Fits
  <2>3. QED
    BY <2>1, <2>2 DEF CipherInv, Fits, Last
<1>7. CASE Sends!ReaderTakes \/ Sends!Retire
  BY <1>7, CipherIdle DEF Sends!ReaderTakes, Sends!Retire
<1>8. ASSUME path \in {None, SendsReader}
      PROVE  \A x \in Senders : task[x] # "writing"
  BY <1>0, <1>8 DEF HolderWrites
<1>9. CASE Sends!ReaderEnds \/ Sends!LinkEnds \/ Sends!CleansUp
  BY <1>8, <1>9, CipherIdle DEF Sends!ReaderEnds, Sends!LinkEnds, Sends!CleansUp,
                                Sends!Spoil, Sends!MarkError
<1>10. CASE Sends!Connect
  <2>1. /\ sendsSession' \in Nat /\ counter' = 0 /\ UNCHANGED <<wire, task>>
        /\ \A i \in DOMAIN wire : wire[i].session < sendsSession'
    BY <1>10 DEF Sends!Connect, Sends!Established, Sends!SendsAssumption
  <2>2. \A x \in Senders : task'[x] # "writing"
    BY <1>8, <1>10 DEF Sends!Connect
  <2>3. \A i \in DOMAIN wire : wire[i].session \in Nat
    BY FramesOnWire DEF SendTypes
  <2>4. QED
    BY <2>1, <2>2, <2>3 DEF CipherInv, Fits
<1>11. QED
  BY <1>1, <1>2, <1>3, <1>4, <1>5, <1>6, <1>7, <1>9, <1>10 DEF Sends!Next

(* What reaches the wire is whole messages in the order of the cipher, and *)
(* none of a caller that had left before its turn: for any number of       *)
(* senders, frames to a message and sessions, whoever is cut off and       *)
(* whenever the transport is retired (NoiseSendGuard, write_unless_retired *)
(* and the marks of a failed send).                                        *)
THEOREM OnlyWholeMessages ==
  ASSUME Sends!SendsAssumption
  PROVE  Sends!Init /\ [][Sends!Next]_(Sends!sendsVars)
         => []Sends!SendsAreWhole
<1>1. Sends!Init => SendsInv
  BY DEF Sends!Init, SendsInv, SendTypes, HolderWrites, StartsAtZero, LateIsUnsent,
         CipherInv, WireFrames, Sends!NothingLate, Sends!WholeInOrder,
         Sends!SendsAssumption
<1>2. SendsInv /\ [Sends!Next]_(Sends!sendsVars) => SendsInv'
  <2> SUFFICES ASSUME SendsInv, [Sends!Next]_(Sends!sendsVars) PROVE SendsInv'
    OBVIOUS
  <2>1. CASE Sends!Next
    <3>1. CASE wire' = wire
      BY <2>1, <3>1, SendTypesHold, PathHolds, LateStaysUnsent, CipherStaysInStep
         DEF SendsInv, Sends!WholeInOrder, Sends!Opens, Sends!Continues
    <3>2. ASSUME NEW s \in Senders, task[s] = "writing", part[s] < SendsFrames,
                 wire' = Append(wire, Sends!Frame(s))
          PROVE  SendsInv'
      BY <2>1, <3>2, SendTypesHold, PathHolds, LateStaysUnsent,
         CipherStaysInStep, FrameFollows DEF SendsInv
    <3>3. QED
      BY <2>1, <3>1, <3>2, OnlyWritersWrite
  <2>2. CASE UNCHANGED Sends!sendsVars
    BY <2>2 DEF SendsInv, SendTypes, HolderWrites, StartsAtZero, LateIsUnsent,
                CipherInv, Fits, Last, Sends!NothingLate, Sends!WholeInOrder,
                Sends!Opens, Sends!Continues, Sends!sendsVars, Sends!sendVars,
                Sends!channelVars
  <2>3. QED
    BY <2>1, <2>2
<1>3. SendsInv => Sends!SendsAreWhole
  BY DEF SendsInv, LateIsUnsent, Sends!SendsAreWhole
<1>4. QED
  BY <1>1, <1>2, <1>3, PTL

-----------------------------------------------------------------------------
(* KeyStore: one key, no pin lost, the pins with the key.                  *)

Entries == [Nodes -> HubKeys \cup {None}]

Places == {"idle", "adopt", "legacy", "target", "pins", "key", "load", "read",
           "create", "edit", "write"}

Operations ==
  [kind : {"none", "start", "save", "forget"}, node : Nodes \cup {None},
   file : Store!Files, to : HubKeys \cup {None}]

StoreTypes ==
  /\ key \in [Store!Folders -> Nat \cup {None}]
  /\ file \in [Store!Folders -> [Store!Files -> Entries]]
  /\ holder \in [Store!Folders -> Procs \cup {None}]
  /\ at \in [Procs -> Places]
  /\ op \in [Procs -> Operations]
  /\ read \in [Procs -> Entries]
  /\ storeGot \in [Procs -> Nat \cup {None}]
  /\ kept \in Entries
  /\ fresh \in Nat

(* Whoever is between taking the folder's lock and giving it back holds it.*)
Locking == {"pins", "key", "read", "create", "write"}
LockInv == \A p \in Procs : at[p] \in Locking <=> holder.own = p

(* The default folder is only read, and what was read of it still stands.  *)
(* What an edit read is what the folder holds until it writes.             *)
ReadInv ==
  /\ key.default = 0
  /\ \A p \in Procs :
       /\ at[p] \in {"target", "pins"} => read[p] = file.default.pins
       /\ at[p] = "write" => read[p] = file.own[op[p].file]
       /\ at[p] = "key" => key.own = None
       /\ at[p] \in {"edit", "write"} =>
            /\ op[p].node \in Nodes
            /\ op[p].kind \in {"save", "forget"}
            /\ op[p].kind = "save" => op[p].to \in HubKeys
            /\ op[p].kind = "forget" => op[p].to = None
       /\ (at[p] \in {"edit", "write"} /\ op[p].kind = "save" /\ op[p].file = "pins")
            => StorePreseed \/ storeGot[p] # None

(* The hubs the default folder's key has met, and that were not forgotten. *)
Covered ==
  \A n \in Nodes \ forgotten : file.default.pins[n] # None => file.own.pins[n] # None

CoverInv ==
  ~ StorePreseed =>
    /\ key.own = 0 => Covered
    /\ key.own = None => Covered \/ Store!Empty(file.own.pins)
    /\ \A p \in Procs : at[p] = "key" => Covered

StoreInv ==
  /\ StoreTypes /\ LockInv /\ ReadInv /\ CoverInv
  /\ Store!KeysAgree /\ Store!NoPinLost

LEMMA StoreStarts == ASSUME Store!StoreAssumption, Store!Init PROVE StoreInv
<1> USE DEF Store!StoreAssumption, Store!Folders, Store!Files, Store!NoEntries, Store!NoOp
<1>1. StoreTypes
  BY DEF Store!Init, StoreTypes, Entries, Places, Operations
<1>2. LockInv /\ ReadInv
  BY DEF Store!Init, LockInv, Locking, ReadInv
<1>3. CoverInv
  BY DEF Store!Init, CoverInv, Covered, Store!Empty
<1>4. Store!KeysAgree /\ Store!NoPinLost
  BY DEF Store!Init, Store!KeysAgree, Store!NoPinLost
<1>5. QED
  BY <1>1, <1>2, <1>3, <1>4 DEF StoreInv

(* The steps of an adoption, of a load and of an edit; p is the process.   *)
Adopting(p) == \/ Store!AdoptLooks(p) \/ Store!AdoptReads(p) \/ Store!AdoptLocks(p)
               \/ Store!AdoptPins(p) \/ Store!AdoptKey(p)
Editing(p)  == Store!EditLocks(p) \/ Store!EditWrites(p)
Calling(p)  == Store!Begin(p) \/ Store!Crash(p)

LEMMA GotoTypes ==
  ASSUME StoreTypes, NEW p \in Procs, NEW place \in Places, Store!Goto(p, place)
  PROVE  at' \in [Procs -> Places] /\ op' \in [Procs -> Operations]
<1>1. Store!NoOp \in Operations
  BY DEF Store!NoOp, Operations, Store!Files
<1>2. QED
  BY <1>1 DEF StoreTypes, Store!Goto

LEMMA StoreTypesHold ==
  ASSUME Store!StoreAssumption, StoreTypes, NEW p \in Procs,
         Calling(p) \/ Adopting(p) \/ Store!Load(p) \/ Editing(p)
  PROVE  StoreTypes'
<1>0. /\ Store!NoEntries \in Entries
      /\ \A place \in Places : Store!Goto(p, place) =>
            at' \in [Procs -> Places] /\ op' \in [Procs -> Operations]
      /\ Store!Drops(p) => read' \in [Procs -> Entries]
      /\ Store!Release(p, "own") \/ Store!Lock(p, "own")
            => holder' \in [Store!Folders -> Procs \cup {None}]
      /\ Store!Files = {"pins", "psks"} /\ Store!Folders = {"own", "default"}
  BY GotoTypes DEF StoreTypes, Entries, Store!NoEntries, Store!Drops,
                   Store!Release, Store!Lock, Store!Files, Store!Folders
<1>1. CASE Store!Begin(p)
  BY <1>0, <1>1 DEF Store!Begin, StoreTypes, Places, Operations
<1>2. CASE Store!Crash(p)
  BY <1>0, <1>2 DEF Store!Crash, StoreTypes, Places, Operations, Store!NoOp
<1>3. CASE Store!AdoptLooks(p) \/ Store!AdoptLocks(p)
  BY <1>0, <1>3 DEF Store!AdoptLooks, Store!AdoptLocks, StoreTypes, Places
<1>4. CASE Store!AdoptReads(p)
  <2>1. read' \in [Procs -> Entries]
    BY <1>0, <1>4 DEF Store!AdoptReads, StoreTypes
  <2>2. QED
    BY <1>0, <1>4, <2>1 DEF Store!AdoptReads, StoreTypes, Places
<1>5. CASE Store!AdoptPins(p)
  <2>1. file' \in [Store!Folders -> [Store!Files -> Entries]]
    BY <1>0, <1>5 DEF Store!AdoptPins, StoreTypes
  <2>2. QED
    BY <1>0, <1>5, <2>1 DEF Store!AdoptPins, StoreTypes, Places
<1>6. CASE Store!AdoptKey(p)
  <2>1. key' \in [Store!Folders -> Nat \cup {None}]
    BY <1>0, <1>6 DEF Store!AdoptKey, StoreTypes
  <2>2. QED
    BY <1>0, <1>6, <2>1 DEF Store!AdoptKey, StoreTypes, Places
<1>7. CASE Store!LoadLocks(p) \/ Store!LoadReads(p)
  BY <1>0, <1>7 DEF Store!LoadLocks, Store!LoadReads, StoreTypes, Places
<1>8. CASE Store!LoadCreates(p)
  <2>1. key' \in [Store!Folders -> Nat \cup {None}] /\ fresh' \in Nat
    BY <1>0, <1>8 DEF Store!LoadCreates, StoreTypes
  <2>2. storeGot' \in [Procs -> Nat \cup {None}]
    BY <1>0, <1>8, <2>1 DEF Store!LoadCreates, StoreTypes
  <2>3. QED
    BY <1>0, <1>8, <2>1, <2>2 DEF Store!LoadCreates, StoreTypes, Places
<1>9. CASE Store!EditLocks(p)
  <2>1. read' \in [Procs -> Entries]
    BY <1>0, <1>9 DEF Store!EditLocks, StoreTypes, Operations
  <2>2. QED
    BY <1>0, <1>9, <2>1 DEF Store!EditLocks, StoreTypes, Places
<1>10. CASE Store!EditWrites(p)
  <2> DEFINE entries == [read[p] EXCEPT ![op[p].node] = op[p].to]
  <2>1. /\ op[p].file \in Store!Files /\ op[p].to \in HubKeys \cup {None}
        /\ entries \in Entries
        /\ [kept EXCEPT ![op[p].node] = op[p].to] \in Entries
    BY DEF StoreTypes, Operations, Entries
  <2> HIDE DEF entries
  <2>2. /\ file' = file \/ file' = [file EXCEPT !["own"][op[p].file] = entries]
        /\ kept' = kept \/ kept' = [kept EXCEPT ![op[p].node] = op[p].to]
    BY <1>10 DEF Store!EditWrites, entries
  <2>3. file' \in [Store!Folders -> [Store!Files -> Entries]]
    BY <1>0, <2>1, <2>2 DEF StoreTypes
  <2>4. kept' \in Entries
    BY <2>1, <2>2 DEF StoreTypes
  <2>5. QED
    BY <1>0, <1>10, <2>3, <2>4 DEF Store!EditWrites, StoreTypes, Places
<1>11. QED
  BY <1>1, <1>2, <1>3, <1>4, <1>5, <1>6, <1>7, <1>8, <1>9, <1>10
     DEF Calling, Adopting, Store!Load, Editing

LEMMA LockIsHeld ==
  ASSUME Store!StoreAssumption, StoreTypes, LockInv, NEW p \in Procs,
         Calling(p) \/ Adopting(p) \/ Store!Load(p) \/ Editing(p)
  PROVE  LockInv'
<1> USE DEF Store!StoreAssumption, Store!Folders, Store!Goto, Store!Release,
            Store!Lock, Store!LockTimesOut, StoreTypes, LockInv, Locking
<1>1. CASE Calling(p)
  BY <1>1 DEF Calling, Store!Begin, Store!Crash
<1>2. CASE Store!AdoptLooks(p) \/ Store!AdoptReads(p) \/ Store!AdoptLocks(p)
  BY <1>2 DEF Store!AdoptLooks, Store!AdoptReads, Store!AdoptLocks
<1>3. CASE Store!AdoptPins(p) \/ Store!AdoptKey(p)
  BY <1>3 DEF Store!AdoptPins, Store!AdoptKey
<1>4. CASE Store!Load(p)
  BY <1>4 DEF Store!Load, Store!LoadLocks, Store!LoadReads, Store!LoadCreates
<1>5. CASE Editing(p)
  BY <1>5 DEF Editing, Store!EditLocks, Store!EditWrites
<1>6. QED
  BY <1>1, <1>2, <1>3, <1>4, <1>5 DEF Adopting

(* A step of one process leaves the others where they are and the default  *)
(* folder as it is; and it writes under the folder's lock only, a key only *)
(* where there is none.                                                    *)
LEMMA OthersStay ==
  ASSUME Store!StoreAssumption, StoreTypes, ReadInv, NEW p \in Procs,
         Calling(p) \/ Adopting(p) \/ Store!Load(p) \/ Editing(p)
  PROVE  /\ \A q \in Procs \ {p} :
              /\ at'[q] = at[q] /\ op'[q] = op[q]
              /\ read'[q] = read[q] /\ storeGot'[q] = storeGot[q]
         /\ file'.default = file.default /\ key'.default = key.default
         /\ file' = file \/ at[p] \in {"pins", "write"}
         /\ key' = key \/ (at[p] \in {"key", "create"} /\ key.own = None)
<1> USE DEF StoreTypes, Store!Goto, Store!Drops, Store!Folders
<1>1. CASE Calling(p)
  BY <1>1 DEF Calling, Store!Begin, Store!Crash
<1>2. CASE Store!AdoptLooks(p) \/ Store!AdoptReads(p) \/ Store!AdoptLocks(p)
  BY <1>2 DEF Store!AdoptLooks, Store!AdoptReads, Store!AdoptLocks
<1>3. CASE Store!AdoptPins(p)
  BY <1>3 DEF Store!AdoptPins
<1>4. CASE Store!AdoptKey(p)
  BY <1>4 DEF Store!AdoptKey, ReadInv
<1>5. CASE Store!LoadLocks(p) \/ Store!LoadReads(p)
  BY <1>5 DEF Store!LoadLocks, Store!LoadReads
<1>6. CASE Store!LoadCreates(p)
  BY <1>6 DEF Store!LoadCreates
<1>7. CASE Store!EditLocks(p)
  BY <1>7 DEF Store!EditLocks
<1>8. CASE Store!EditWrites(p)
  BY <1>8 DEF Store!EditWrites
<1>9. QED
  BY <1>1, <1>2, <1>3, <1>4, <1>5, <1>6, <1>7, <1>8
     DEF Adopting, Store!Load, Editing

LEMMA ReadsStand ==
  ASSUME Store!StoreAssumption, StoreTypes, LockInv, LockInv', ReadInv,
         NEW p \in Procs,
         Calling(p) \/ Adopting(p) \/ Store!Load(p) \/ Editing(p)
  PROVE  ReadInv'
<1> DEFINE Stands(q) ==
      /\ at[q] \in {"target", "pins"} => read[q] = file.default.pins
      /\ at[q] = "write" => read[q] = file.own[op[q].file]
      /\ at[q] = "key" => key.own = None
      /\ at[q] \in {"edit", "write"} =>
           /\ op[q].node \in Nodes
           /\ op[q].kind \in {"save", "forget"}
           /\ op[q].kind = "save" => op[q].to \in HubKeys
           /\ op[q].kind = "forget" => op[q].to = None
      /\ (at[q] \in {"edit", "write"} /\ op[q].kind = "save" /\ op[q].file = "pins")
           => StorePreseed \/ storeGot[q] # None
<1>1. \A q \in Procs \ {p} : Stands(q)'
  <2>1. \A q \in Procs \ {p} : Stands(q) /\ (at[q] \in Locking => at[p] \notin Locking)
    BY DEF ReadInv, LockInv
  <2>2. QED
    BY <2>1, OthersStay DEF Locking
<1>2. Stands(p)'
  <2> USE DEF StoreTypes, Store!Goto, Store!Drops, Store!Folders, ReadInv, Places
  <2>1. CASE Store!Begin(p)
    BY <2>1 DEF Store!Begin
  <2>2. CASE Store!Crash(p)
    BY <2>2 DEF Store!Crash
  <2>3. CASE Store!AdoptLooks(p) \/ Store!AdoptReads(p) \/ Store!AdoptLocks(p)
    BY <2>3 DEF Store!AdoptLooks, Store!AdoptReads, Store!AdoptLocks
  <2>4. CASE Store!AdoptPins(p)
    BY <2>4 DEF Store!AdoptPins
  <2>5. CASE Store!AdoptKey(p)
    BY <2>5 DEF Store!AdoptKey
  <2>6. CASE Store!LoadLocks(p) \/ Store!LoadReads(p) \/ Store!LoadCreates(p)
    BY <2>6 DEF Store!LoadLocks, Store!LoadReads, Store!LoadCreates
  <2>7. CASE Store!EditLocks(p)
    BY <2>7 DEF Store!EditLocks
  <2>8. CASE Store!EditWrites(p)
    BY <2>8 DEF Store!EditWrites
  <2>9. QED
    BY <2>1, <2>2, <2>3, <2>4, <2>5, <2>6, <2>7, <2>8
       DEF Calling, Adopting, Store!Load, Editing
<1>3. QED
  BY <1>1, <1>2, OthersStay DEF ReadInv

(* Who has a key has the folder's: a key is only put where there was none, *)
(* and then nobody has one.                                                *)
LEMMA KeysStayAgreed ==
  ASSUME Store!StoreAssumption, StoreTypes, ReadInv, Store!KeysAgree,
         NEW p \in Procs,
         Calling(p) \/ Adopting(p) \/ Store!Load(p) \/ Editing(p)
  PROVE  Store!KeysAgree'
<1>1. \A q \in Procs \ {p} : storeGot'[q] # None => key'.own = storeGot'[q]
  BY OthersStay DEF Store!KeysAgree
<1>2. storeGot'[p] # None => key'.own = storeGot'[p]
  <2>1. CASE Store!LoadReads(p)
    BY <2>1 DEF Store!LoadReads, StoreTypes
  <2>2. CASE Store!LoadCreates(p)
    BY <2>2 DEF Store!LoadCreates, StoreTypes, Store!KeysAgree
  <2>3. CASE Store!Crash(p)
    BY <2>3 DEF Store!Crash, StoreTypes
  <2>4. CASE storeGot'[p] = storeGot[p]
    BY <2>4, OthersStay DEF Store!KeysAgree
  <2>5. QED
    BY <2>1, <2>2, <2>3, <2>4
       DEF Calling, Adopting, Store!Load, Editing, Store!Begin,
           Store!AdoptLooks, Store!AdoptReads, Store!AdoptLocks,
           Store!AdoptPins, Store!AdoptKey, Store!LoadLocks,
           Store!EditLocks, Store!EditWrites
<1>3. QED
  BY <1>1, <1>2 DEF Store!KeysAgree

(* What a step does to the pins of the folder: nothing, the adoption into  *)
(* a folder that has none, one pin more, or one less.                      *)
Adopts(p) ==
  /\ Store!Empty(file.own.pins) /\ key.own = None
  /\ file'.own.pins = file.default.pins
  /\ UNCHANGED <<key, kept, forgotten>>

Pins(p, n, k) ==
  /\ file.own.pins[n] \in {None, k} /\ (StorePreseed \/ storeGot[p] # None)
  /\ file'.own.pins = [file.own.pins EXCEPT ![n] = k]
  /\ kept' = [kept EXCEPT ![n] = k]
  /\ UNCHANGED <<key, forgotten>>

Forgets(p, n) ==
  /\ file'.own.pins = [file.own.pins EXCEPT ![n] = None]
  /\ kept' = [kept EXCEPT ![n] = None]
  /\ forgotten' = forgotten \cup {n}
  /\ UNCHANGED key

LEMMA PinsChange ==
  ASSUME Store!StoreAssumption, StoreTypes, ReadInv, NEW p \in Procs,
         Calling(p) \/ Adopting(p) \/ Store!Load(p) \/ Editing(p)
  PROVE  \/ file'.own.pins = file.own.pins /\ UNCHANGED <<kept, forgotten>>
         \/ Adopts(p)
         \/ \E n \in Nodes, k \in HubKeys : Pins(p, n, k)
         \/ \E n \in Nodes : Forgets(p, n)
<1>0. /\ file.own \in [{"pins", "psks"} -> Entries] /\ "own" \in DOMAIN file
      /\ file.default.pins \in Entries
  BY DEF StoreTypes, Store!Folders, Store!Files
<1>1. CASE Store!AdoptPins(p)
  <2>1. CASE file' = [file EXCEPT !.own.pins = read[p]] /\ Store!Empty(file.own.pins)
             /\ key.own = None
    BY <1>0, <1>1, <2>1 DEF Store!AdoptPins, ReadInv, Adopts
  <2>2. CASE file' = file
    BY <1>1, <2>2 DEF Store!AdoptPins
  <2>3. QED
    BY <1>1, <2>1, <2>2 DEF Store!AdoptPins
<1>2. CASE Store!EditWrites(p)
  <2> DEFINE n == op[p].node
             k == op[p].to
  <2>1. /\ n \in Nodes /\ read[p] = file.own[op[p].file]
        /\ op[p].kind \in {"save", "forget"}
        /\ op[p].kind = "save" => k \in HubKeys
        /\ op[p].kind = "forget" => k = None
        /\ (op[p].kind = "save" /\ op[p].file = "pins") => StorePreseed \/ storeGot[p] # None
        /\ op[p].file \in {"pins", "psks"}
    BY <1>2 DEF Store!EditWrites, ReadInv, StoreTypes, Operations, Store!Files
  <2>2. CASE UNCHANGED <<file, kept, forgotten>>
    BY <2>2
  <2>3. CASE /\ ~ Store!Refused(p)
             /\ file' = [file EXCEPT !["own"][op[p].file] =
                           [read[p] EXCEPT ![n] = k]]
             /\ op[p].file = "psks" /\ UNCHANGED <<kept, forgotten>>
    BY <1>0, <2>3
  <2>4. CASE /\ ~ Store!Refused(p)
             /\ file' = [file EXCEPT !["own"][op[p].file] =
                           [read[p] EXCEPT ![n] = k]]
             /\ op[p].file = "pins" /\ kept' = [kept EXCEPT ![n] = k]
             /\ forgotten' = IF op[p].kind = "forget"
                             THEN forgotten \cup {n} ELSE forgotten
    <3>1. file'.own.pins = [file.own.pins EXCEPT ![n] = k] /\ UNCHANGED key
      BY <1>0, <1>2, <2>1, <2>4 DEF Store!EditWrites
    <3>2. CASE op[p].kind = "save"
      BY <2>1, <2>4, <3>1, <3>2 DEF Pins, Store!Refused
    <3>3. CASE op[p].kind = "forget"
      BY <2>1, <2>4, <3>1, <3>3 DEF Forgets
    <3>4. QED
      BY <2>1, <3>2, <3>3
  <2>5. QED
    BY <1>2, <2>1, <2>2, <2>3, <2>4 DEF Store!EditWrites
<1>3. CASE file' = file /\ UNCHANGED <<kept, forgotten>>
  BY <1>3
<1>4. QED
  BY <1>1, <1>2, <1>3
     DEF Calling, Adopting, Store!Load, Editing, Store!Begin, Store!Crash,
         Store!AdoptLooks, Store!AdoptReads, Store!AdoptLocks,
         Store!AdoptKey, Store!LoadLocks, Store!LoadReads, Store!LoadCreates,
         Store!EditLocks

LEMMA PinsStay ==
  ASSUME Store!StoreAssumption, StoreTypes, StoreTypes', ReadInv, ReadInv',
         Store!KeysAgree, Store!NoPinLost, CoverInv, NEW p \in Procs,
         Calling(p) \/ Adopting(p) \/ Store!Load(p) \/ Editing(p)
  PROVE  Store!NoPinLost'
<1>0. kept \in Entries /\ file.own.pins \in Entries
  BY DEF StoreTypes, Store!Folders, Store!Files
<1>1. CASE Adopts(p)
  BY <1>1 DEF Adopts, Store!Empty, Store!NoPinLost
<1>2. ASSUME NEW n \in Nodes, NEW k \in HubKeys, Pins(p, n, k) PROVE Store!NoPinLost'
  BY <1>0, <1>2 DEF Pins, Store!NoPinLost, Entries
<1>3. ASSUME NEW n \in Nodes, Forgets(p, n) PROVE Store!NoPinLost'
  BY <1>0, <1>3 DEF Forgets, Store!NoPinLost, Entries
<1>4. QED
  BY <1>1, <1>2, <1>3, PinsChange DEF Store!NoPinLost

(* What the adopted key has met is known, from the pins' write on; a folder *)
(* with no key yet has all of them or none, for no pin is saved in it.     *)
LEMMA CoverStays ==
  ASSUME Store!StoreAssumption, StoreTypes, ReadInv, ReadInv',
         Store!KeysAgree, CoverInv, NEW p \in Procs,
         Calling(p) \/ Adopting(p) \/ Store!Load(p) \/ Editing(p)
  PROVE  CoverInv'
<1> SUFFICES ASSUME ~ StorePreseed PROVE CoverInv'
  BY DEF CoverInv
<1>0. /\ kept \in Entries /\ file.own.pins \in Entries /\ file'.default = file.default
      /\ None \notin HubKeys /\ None # 0
  BY OthersStay DEF StoreTypes, Store!Folders, Store!Files, Store!StoreAssumption
<1>1. CASE Adopts(p)
  <2>1. Covered'
    BY <1>0, <1>1 DEF Adopts, Covered
  <2>2. QED
    BY <2>1 DEF CoverInv
<1>2. ASSUME NEW n \in Nodes, NEW k \in HubKeys, Pins(p, n, k) PROVE CoverInv'
  <2>1. key.own = storeGot[p] /\ storeGot[p] # None
    BY <1>2 DEF Pins, Store!KeysAgree
  <2>2. Covered => Covered'
    BY <1>0, <1>2 DEF Pins, Covered, Entries
  <2>3. \A q \in Procs : at'[q] # "key"
    BY <1>2, <2>1 DEF Pins, ReadInv
  <2>4. QED
    BY <1>2, <2>1, <2>2, <2>3 DEF CoverInv, Pins
<1>3. CASE Store!AdoptPins(p)
  <2>1. CASE file' = [file EXCEPT !.own.pins = read[p]]
    <3>1. file'.own.pins = file'.default.pins
      BY <1>0, <1>3, <2>1 DEF Store!AdoptPins, ReadInv, StoreTypes,
                              Store!Folders, Store!Files
    <3>2. QED
      BY <3>1 DEF CoverInv, Covered
  <2>2. CASE file' = file /\ file' # [file EXCEPT !.own.pins = read[p]]
    <3>1. /\ UNCHANGED <<key, forgotten>>
          /\ \A q \in Procs : at'[q] = "key" =>
               at[q] = "key" \/ (key.own = None /\ ~ Store!Empty(file.own.pins))
      BY <1>3, <2>2 DEF Store!AdoptPins, Store!Goto, StoreTypes, Places
    <3>2. QED
      BY <2>2, <3>1 DEF CoverInv, Covered, Store!Empty
  <2>3. QED
    BY <1>3, <2>1, <2>2 DEF Store!AdoptPins
<1>4. CASE ~ Store!AdoptPins(p)
  <2>0. \A q \in Procs : at'[q] = "key" => at[q] = "key"
    <3> USE DEF StoreTypes, Store!Goto, Places
    <3>1. CASE Calling(p)
      BY <3>1 DEF Calling, Store!Begin, Store!Crash
    <3>2. CASE Adopting(p)
      BY <1>4, <3>2 DEF Adopting, Store!AdoptLooks, Store!AdoptReads,
                        Store!AdoptLocks, Store!AdoptKey
    <3>3. CASE Store!Load(p)
      BY <3>3 DEF Store!Load, Store!LoadLocks, Store!LoadReads, Store!LoadCreates
    <3>4. CASE Editing(p)
      BY <3>4 DEF Editing, Store!EditLocks, Store!EditWrites
    <3>5. QED
      BY <3>1, <3>2, <3>3, <3>4
  <2>1. ASSUME NEW n \in Nodes, Forgets(p, n) PROVE CoverInv'
    <3>1. (Covered => Covered') /\ (Store!Empty(file.own.pins) => Store!Empty(file.own.pins)')
      BY <1>0, <2>1 DEF Forgets, Covered, Store!Empty, Entries
    <3>2. QED
      BY <2>0, <2>1, <3>1 DEF Forgets, CoverInv
  <2>2. CASE file'.own.pins = file.own.pins /\ UNCHANGED <<kept, forgotten>>
    <3>1. (Covered <=> Covered') /\ (Store!Empty(file.own.pins) <=> Store!Empty(file.own.pins)')
      BY <1>0, <2>2 DEF Covered, Store!Empty
    <3>2. key'.own = key.own \/ (key'.own = 0 /\ at[p] = "key") \/ key'.own \in Nat \ {0}
      <4>1. CASE Store!AdoptKey(p)
        BY <4>1 DEF Store!AdoptKey, ReadInv, StoreTypes, Store!Folders
      <4>2. CASE Store!LoadCreates(p)
        BY <4>2 DEF Store!LoadCreates, StoreTypes, Store!Folders
      <4>3. CASE key' = key
        BY <4>3
      <4>4. QED
        BY <4>1, <4>2, <4>3
           DEF Calling, Adopting, Store!Load, Editing, Store!Begin, Store!Crash,
               Store!AdoptLooks, Store!AdoptReads, Store!AdoptLocks,
               Store!AdoptPins, Store!LoadLocks, Store!LoadReads,
               Store!EditLocks, Store!EditWrites
    <3>3. CASE key'.own = key.own
      BY <2>0, <3>1, <3>3 DEF CoverInv
    <3>4. CASE key'.own = 0 /\ at[p] = "key"
      BY <3>1, <3>4 DEF CoverInv
    <3>5. CASE key'.own \in Nat \ {0}
      BY <2>0, <3>1, <3>5 DEF CoverInv, Store!StoreAssumption
    <3>6. QED
      BY <3>2, <3>3, <3>4, <3>5
  <2>3. QED
    BY <1>1, <1>2, <2>1, <2>2, PinsChange
<1>5. QED
  BY <1>3, <1>4

(* What the store promises, whoever crashes, writes or starts beside it.   *)
LEMMA StoreStep ==
  ASSUME Store!StoreAssumption, StoreInv, [Store!Next]_(Store!storeVars)
  PROVE  StoreInv'
<1>1. ASSUME NEW p \in Procs,
             Calling(p) \/ Adopting(p) \/ Store!Load(p) \/ Editing(p)
      PROVE  StoreInv'
  <2>1. StoreTypes' /\ LockInv'
    BY <1>1, StoreTypesHold, LockIsHeld DEF StoreInv
  <2>2. ReadInv' /\ Store!KeysAgree'
    BY <1>1, <2>1, ReadsStand, KeysStayAgreed DEF StoreInv
  <2>3. Store!NoPinLost' /\ CoverInv'
    BY <1>1, <2>1, <2>2, PinsStay, CoverStays DEF StoreInv
  <2>4. QED
    BY <2>1, <2>2, <2>3 DEF StoreInv
<1>2. CASE UNCHANGED Store!storeVars
  BY <1>2 DEF StoreInv, StoreTypes, LockInv, ReadInv, CoverInv, Covered, Entries,
              Store!Empty, Store!KeysAgree, Store!NoPinLost, Store!storeVars,
              Store!procVars
<1>3. QED
  BY <1>1, <1>2 DEF Store!Next, Calling, Adopting, Editing

(* All processes that share a folder present one key, a saved pin stays    *)
(* until it is forgotten, and -- pins being saved by processes that have a *)
(* key, as NoiseChannel does -- an adopted key comes with the pins of the  *)
(* hubs it has met: for any number of processes, hubs and operations,      *)
(* whoever crashes or fails to write (noise_store.rs).                     *)
THEOREM FolderAgrees ==
  ASSUME Store!StoreAssumption
  PROVE  Store!Spec => []Store!StoreAgrees
<1>1. Store!Init => StoreInv
  BY StoreStarts
<1>2. StoreInv /\ [Store!Next]_(Store!storeVars) => StoreInv'
  BY StoreStep
<1>3. StoreInv => Store!StoreAgrees
  BY DEF StoreInv, ReadInv, CoverInv, Covered, Store!StoreAgrees,
         Store!AdoptionWhole, Store!StoreAssumption
<1>4. QED
  BY <1>1, <1>2, <1>3, PTL DEF Store!Spec

-----------------------------------------------------------------------------
(* InventoryCache: whole entries, and a load gets what is its own.         *)

\* What a store is about: a source and the host it named.
Owners == Sources \X Hosts

CacheFiles == [about : Owners, whole : BOOLEAN, synced : BOOLEAN, at : Nat]

Making  == {"created", "written", "synced"}
Loading == {"opened", "checked", "given"}

CacheTypes ==
  /\ now \in Nat /\ named \in [Sources -> Hosts \cup {None}]
  /\ files \in Seq(CacheFiles) /\ scratch \subseteq 1 .. Len(files)
  /\ entry \in [Cache!Keys -> Nat]
  /\ past \in [Cache!Keys -> SUBSET Nat]
  /\ step \in [Cache!Programs -> {"idle", "keyed", "removing"} \cup Making \cup Loading]
  /\ cacheKey \in [Cache!Programs -> Cache!Keys \cup {None}]
  /\ about \in [Cache!Programs -> (Sources \X (Hosts \cup {None})) \cup {None}]
  /\ cacheFile \in [Cache!Programs -> 0 .. Len(files)]
  /\ opened \in [Cache!Programs -> Nat]

(* Only readers load and only writers store; a program that is doing       *)
(* either has its key, which is of what it is about.                       *)
ProgramInv ==
  /\ \A p \in Writers : step[p] \notin Loading
  /\ \A p \in Readers : step[p] \notin Making \cup {"removing"}
  /\ \A p \in Cache!Programs :
       /\ step[p] \in {"idle", "keyed"} => cacheFile[p] = 0
       /\ opened[p] <= now
       /\ step[p] # "idle" =>
            /\ cacheKey[p] \in Cache!Keys /\ about[p] \in Sources \X (Hosts \cup {None})
            /\ about[p][1] = cacheKey[p][1]
            /\ about[p][2] = None => p \in Readers
            /\ about[p][2] # None => cacheKey[p][2] \in {about[p][2], "local"}
       /\ (step[p] # "idle" /\ p \in Readers /\ about[p][2] # None)
            => cacheKey[p][2] = about[p][2]

(* Whatever a name leads to, or may lead to after a loss of power, is      *)
(* written, synced and of its key.                                         *)
PublishedInv ==
  \A k \in Cache!Keys :
    /\ entry[k] \in past[k]
    /\ \A i \in past[k] \ {0} :
         /\ i \in 1 .. Len(files) /\ files[i].whole /\ files[i].synced
         /\ files[i].about[1] = k[1]
         /\ k[2] # "local" => files[i].about[2] = k[2]

(* A file that is being made is its maker's alone.                         *)
MakerInv ==
  /\ \A p \in Writers : step[p] \in Making =>
       /\ cacheFile[p] # 0 /\ files[cacheFile[p]].about = about[p]
       /\ \A k \in Cache!Keys : cacheFile[p] \notin past[k]
       /\ step[p] # "created" => files[cacheFile[p]].whole
       /\ step[p] = "synced" => files[cacheFile[p]].synced
  /\ \A p, q \in Writers :
       (step[p] \in Making /\ step[q] \in Making /\ cacheFile[p] = cacheFile[q]) => p = q
  /\ ~ crashed => \A i \in scratch : \E p \in Writers : cacheFile[p] = i /\ step[p] # "idle"

LoaderInv ==
  \A p \in Readers : step[p] \in Loading =>
    /\ cacheFile[p] \in past[cacheKey[p]] \ {0}
    /\ step[p] # "opened" => opened[p] <= files[cacheFile[p]].at + Ttl

CacheInv == CacheTypes /\ ProgramInv /\ PublishedInv /\ MakerInv /\ LoaderInv

(* Several programs may be at any step: the steps of each, and the rest.   *)
Storing(p) == Cache!Store(p) /\ p \in Writers
Fetching(p) == Cache!Load(p) /\ p \in Readers
Around == Cache!Tick \/ Cache!Renames \/ Cache!PowerLoss

CacheSteps == {"idle", "keyed", "removing"} \cup Making \cup Loading

LEMMA EndsTypes ==
  ASSUME CacheTypes, NEW p \in Cache!Programs, NEW source, Cache!Ends(p, source)
  PROVE  /\ step' \in [Cache!Programs -> CacheSteps]
         /\ cacheKey' \in [Cache!Programs -> Cache!Keys \cup {None}]
         /\ about' \in [Cache!Programs -> (Sources \X (Hosts \cup {None})) \cup {None}]
         /\ cacheFile' \in [Cache!Programs -> 0 .. Len(files)]
         /\ opened' \in [Cache!Programs -> Nat]
         /\ step[p] = source /\ step'[p] = "idle" /\ cacheFile'[p] = 0 /\ opened'[p] = 0
         /\ \A q \in Cache!Programs \ {p} :
              /\ step'[q] = step[q] /\ cacheKey'[q] = cacheKey[q] /\ about'[q] = about[q]
              /\ cacheFile'[q] = cacheFile[q] /\ opened'[q] = opened[q]
<1>1. 0 \in 0 .. Len(files) /\ 0 \in Nat
  BY DEF CacheTypes
<1>2. QED
  BY <1>1 DEF CacheTypes, CacheSteps, Cache!Ends, Cache!Goes

LEMMA GoesTypes ==
  ASSUME CacheTypes, NEW p \in Cache!Programs, NEW source, NEW to \in CacheSteps,
         Cache!Goes(p, source, to)
  PROVE  /\ step' \in [Cache!Programs -> CacheSteps]
         /\ step[p] = source /\ step'[p] = to
         /\ \A q \in Cache!Programs \ {p} : step'[q] = step[q]
BY DEF CacheTypes, CacheSteps, Cache!Goes

(* A file more, at the end.                                                *)
LEMMA OneFileMore ==
  ASSUME CacheTypes, NEW f \in CacheFiles, files' = Append(files, f)
  PROVE  /\ files' \in Seq(CacheFiles)
         /\ Len(files) \in Nat /\ Len(files') = Len(files) + 1
         /\ \A i \in 1 .. Len(files) : files'[i] = files[i]
         /\ files'[Len(files')] = f
BY DEF CacheTypes

(* A file that is written or synced: it alone changes, and for the better. *)
LEMMA FileGrows ==
  ASSUME CacheTypes, NEW p, cacheFile[p] \in 1 .. Len(files),
         Cache!Writes(p) \/ Cache!Syncs(p)
  PROVE  /\ files' \in Seq(CacheFiles) /\ Len(files') = Len(files)
         /\ \A i \in 1 .. Len(files) :
              /\ i # cacheFile[p] => files'[i] = files[i]
              /\ files'[i].about = files[i].about
              /\ files[i].whole => files'[i].whole
              /\ files[i].synced => files'[i].synced
         /\ Cache!Writes(p) => files'[cacheFile[p]].whole
         /\ Cache!Syncs(p) => files'[cacheFile[p]].synced
<1>1. files[cacheFile[p]] \in CacheFiles /\ now \in Nat
  BY DEF CacheTypes
<1>2. CASE Cache!Writes(p)
  <2> DEFINE g == [files[cacheFile[p]] EXCEPT !.whole = TRUE, !.at = now]
  <2>1. files' = [files EXCEPT ![cacheFile[p]] = g]
    BY <1>2 DEF Cache!Writes
  <2>2. /\ g \in CacheFiles /\ g.whole /\ g.about = files[cacheFile[p]].about
        /\ g.synced = files[cacheFile[p]].synced
    BY <1>1 DEF CacheFiles
  <2>3. step[p] = "created"
    BY <1>2 DEF Cache!Writes, Cache!Goes
  <2> HIDE DEF g
  <2>4. QED
    BY <1>2, <2>1, <2>2, <2>3 DEF CacheTypes, Cache!Syncs, Cache!Goes
<1>3. CASE Cache!Syncs(p)
  <2> DEFINE g == [files[cacheFile[p]] EXCEPT !.synced = TRUE]
  <2>1. files' = [files EXCEPT ![cacheFile[p]] = g]
    BY <1>3 DEF Cache!Syncs
  <2>2. /\ g \in CacheFiles /\ g.synced /\ g.about = files[cacheFile[p]].about
        /\ g.whole = files[cacheFile[p]].whole
    BY <1>1 DEF CacheFiles
  <2>3. step[p] = "written"
    BY <1>3 DEF Cache!Syncs, Cache!Goes
  <2> HIDE DEF g
  <2>4. QED
    BY <1>3, <2>1, <2>2, <2>3 DEF CacheTypes, Cache!Writes, Cache!Goes
<1>4. QED
  BY <1>2, <1>3

LEMMA StepNames ==
  /\ CacheSteps = {"idle", "keyed", "removing", "created", "written", "synced",
                    "opened", "checked", "given"}
BY DEF CacheSteps, Making, Loading

(* A key is of the source it was taken for; what a writer stores has a     *)
(* host, and what a reader looks for has one if the file named it.         *)
LEMMA TakesItsOwn ==
  ASSUME Cache!InventoryCacheAssumption, CacheTypes, NEW p \in Cache!Programs,
         Cache!TakeKey(p)
  PROVE  /\ step' \in [Cache!Programs -> CacheSteps]
         /\ cacheKey' \in [Cache!Programs -> Cache!Keys \cup {None}]
         /\ about' \in [Cache!Programs -> (Sources \X (Hosts \cup {None})) \cup {None}]
         /\ step[p] = "idle" /\ step'[p] = "keyed"
         /\ cacheKey'[p] \in Cache!Keys /\ about'[p] \in Sources \X (Hosts \cup {None})
         /\ about'[p][1] = cacheKey'[p][1]
         /\ about'[p][2] = None => p \in Readers
         /\ about'[p][2] # None => cacheKey'[p][2] \in {about'[p][2], "local"}
         /\ (p \in Readers /\ about'[p][2] # None) => cacheKey'[p][2] = about'[p][2]
         /\ \A q \in Cache!Programs \ {p} :
              step'[q] = step[q] /\ cacheKey'[q] = cacheKey[q] /\ about'[q] = about[q]
<1>1. PICK s \in Sources, h \in Hosts \cup {None} :
        /\ cacheKey' = [cacheKey EXCEPT ![p] = Cache!Key(s)]
        /\ about' = [about EXCEPT ![p] = <<s, h>>]
        /\ h \in IF named[s] = None /\ p \in Writers THEN Hosts ELSE {named[s]}
  <2>1. PICK s \in Sources :
          /\ cacheKey' = [cacheKey EXCEPT ![p] = Cache!Key(s)]
          /\ \E h \in IF named[s] = None /\ p \in Writers THEN Hosts ELSE {named[s]} :
                about' = [about EXCEPT ![p] = <<s, h>>]
    BY DEF Cache!TakeKey
  <2>2. QED
    BY <2>1 DEF CacheTypes
<1>2. named[s] \in Hosts \cup {None}
  BY DEF CacheTypes
<1>3. /\ Cache!Key(s) \in Cache!Keys /\ Cache!Key(s)[1] = s
      /\ Cache!Key(s)[2] = IF named[s] = None THEN "local" ELSE named[s]
  BY <1>2 DEF Cache!Key, Cache!Keys
<1>4. /\ <<s, h>> \in Sources \X (Hosts \cup {None})
      /\ <<s, h>>[1] = s /\ <<s, h>>[2] = h
  OBVIOUS
<1>5. /\ cacheKey' \in [Cache!Programs -> Cache!Keys \cup {None}] /\ cacheKey'[p] = Cache!Key(s)
      /\ \A q \in Cache!Programs \ {p} : cacheKey'[q] = cacheKey[q]
  <2> DEFINE k == Cache!Key(s)
  <2>1. cacheKey' = [cacheKey EXCEPT ![p] = k] /\ k \in Cache!Keys
    BY <1>1, <1>3
  <2> HIDE DEF k
  <2>2. /\ cacheKey' \in [Cache!Programs -> Cache!Keys \cup {None}] /\ cacheKey'[p] = k
        /\ \A q \in Cache!Programs \ {p} : cacheKey'[q] = cacheKey[q]
    BY <2>1 DEF CacheTypes
  <2>3. QED
    BY <2>2 DEF k
<1>6. /\ about' \in [Cache!Programs -> (Sources \X (Hosts \cup {None})) \cup {None}]
      /\ about'[p] = <<s, h>>
      /\ \A q \in Cache!Programs \ {p} : about'[q] = about[q]
  <2> DEFINE a == <<s, h>>
  <2>1. about' = [about EXCEPT ![p] = a] /\ a \in Sources \X (Hosts \cup {None})
    BY <1>1, <1>4
  <2> HIDE DEF a
  <2>2. /\ about' \in [Cache!Programs -> (Sources \X (Hosts \cup {None})) \cup {None}]
        /\ about'[p] = a
        /\ \A q \in Cache!Programs \ {p} : about'[q] = about[q]
    BY <2>1 DEF CacheTypes
  <2>3. QED
    BY <2>2 DEF a
<1>7. /\ step' \in [Cache!Programs -> CacheSteps]
      /\ step[p] = "idle" /\ step'[p] = "keyed"
      /\ \A q \in Cache!Programs \ {p} : step'[q] = step[q]
  BY GoesTypes, StepNames DEF Cache!TakeKey
<1>8. /\ h = None => p \in Readers
      /\ h # None => Cache!Key(s)[2] \in {h, "local"}
      /\ (p \in Readers /\ h # None) => Cache!Key(s)[2] = h
  BY <1>1, <1>2, <1>3 DEF Cache!Programs, Cache!InventoryCacheAssumption
<1>9. QED
  BY <1>3, <1>4, <1>5, <1>6, <1>7, <1>8

LEMMA StoreKeepsTypes ==
  ASSUME Cache!InventoryCacheAssumption, CacheTypes, ProgramInv, MakerInv,
         NEW p \in Writers, Storing(p)
  PROVE  CacheTypes'
<1>0. /\ p \in Cache!Programs /\ Len(files) \in Nat /\ now \in Nat
      /\ step \in [Cache!Programs -> CacheSteps]
  BY DEF Cache!Programs, CacheTypes, CacheSteps
<1> USE DEF Cache!world, Cache!disk, Cache!held
<1>1. CASE Cache!TakeKey(p)
  BY <1>0, <1>1, TakesItsOwn DEF Cache!TakeKey, CacheTypes, CacheSteps
<1>2. CASE Cache!Creates(p)
  <2> DEFINE f == [about |-> about[p], whole |-> FALSE, synced |-> FALSE, at |-> now]
  <2>1. about[p] \in Owners
    BY <1>0, <1>2 DEF Cache!Creates, Cache!Goes, ProgramInv, Owners,
                     Cache!InventoryCacheAssumption
  <2>2. f \in CacheFiles
    BY <1>0, <2>1 DEF CacheFiles
  <2>3. files' = Append(files, f)
    BY <1>2 DEF Cache!Creates
  <2> HIDE DEF f
  <2>4. /\ files' \in Seq(CacheFiles) /\ Len(files') = Len(files) + 1
    BY <2>2, <2>3, OneFileMore
  <2>a. /\ 1 .. Len(files) \subseteq 1 .. Len(files')
        /\ 0 .. Len(files) \subseteq 0 .. Len(files')
        /\ Len(files') \in 1 .. Len(files') /\ Len(files') \in 0 .. Len(files')
    BY <1>0, <2>4
  <2>b. scratch' \subseteq 1 .. Len(files')
    BY <1>2, <2>a DEF Cache!Creates, CacheTypes
  <2>c. cacheFile' \in [Cache!Programs -> 0 .. Len(files')]
    <3>1. cacheFile' = [cacheFile EXCEPT ![p] = Len(files')]
      BY <1>2 DEF Cache!Creates
    <3>2. cacheFile \in [Cache!Programs -> 0 .. Len(files')]
      BY <2>a DEF CacheTypes
    <3>3. QED
      BY <2>a, <3>1, <3>2
  <2>5. scratch' \subseteq 1 .. Len(files') /\ cacheFile' \in [Cache!Programs -> 0 .. Len(files')]
    BY <2>b, <2>c
  <2>6. step' \in [Cache!Programs -> CacheSteps]
    BY <1>0, <1>2, GoesTypes, StepNames DEF Cache!Creates
  <2>7. QED
    BY <1>2, <2>4, <2>5, <2>6 DEF Cache!Creates, CacheTypes, CacheSteps
<1>3. CASE Cache!StoreFails(p)
  <2>1. CASE Cache!Ends(p, "keyed")
    BY <1>0, <1>3, <2>1, EndsTypes DEF Cache!StoreFails, CacheTypes, CacheSteps
  <2>2. ASSUME NEW a \in {"created", "written", "synced"}, Cache!Goes(p, a, "removing"),
               UNCHANGED Cache!held
        PROVE  CacheTypes'
    BY <1>0, <1>3, <2>2, GoesTypes, StepNames
       DEF Cache!StoreFails, CacheTypes, CacheSteps
  <2>3. QED
    BY <1>3, <2>1, <2>2 DEF Cache!StoreFails
<1>4. CASE Cache!Writes(p) \/ Cache!Syncs(p)
  <2>1. cacheFile[p] \in 1 .. Len(files)
    BY <1>0, <1>4 DEF Cache!Writes, Cache!Syncs, Cache!Goes, MakerInv, Making,
                     CacheTypes
  <2>2. /\ files' \in Seq(CacheFiles) /\ Len(files') = Len(files)
    BY <1>4, <2>1, FileGrows
  <2>3. step' \in [Cache!Programs -> CacheSteps]
    BY <1>0, <1>4, GoesTypes, StepNames DEF Cache!Writes, Cache!Syncs
  <2>4. QED
    BY <1>4, <2>2, <2>3 DEF Cache!Writes, Cache!Syncs, CacheTypes, CacheSteps
<1>5. CASE Cache!Publishes(p)
  <2>1. step' \in [Cache!Programs -> CacheSteps]
    BY <1>0, <1>5, GoesTypes, StepNames DEF Cache!Publishes
  <2>2. cacheFile[p] \in Nat
    BY <1>0 DEF CacheTypes
  <2>3. entry' \in [Cache!Keys -> Nat] /\ past' \in [Cache!Keys -> SUBSET Nat]
    BY <1>5, <2>2 DEF Cache!Publishes, CacheTypes
  <2>4. QED
    BY <1>5, <2>1, <2>3 DEF Cache!Publishes, CacheTypes, CacheSteps
<1>6. CASE Cache!Removes(p)
  BY <1>0, <1>6, EndsTypes DEF Cache!Removes, CacheTypes, CacheSteps
<1>7. CASE Cache!Crash(p)
  BY <1>0, <1>7, EndsTypes DEF Cache!Crash, CacheTypes, CacheSteps
<1>8. QED
  BY <1>1, <1>2, <1>3, <1>4, <1>5, <1>6, <1>7 DEF Storing, Cache!Store

LEMMA LoadKeepsTypes ==
  ASSUME Cache!InventoryCacheAssumption, CacheTypes, NEW p \in Readers, Fetching(p),
         ProgramInv, PublishedInv
  PROVE  CacheTypes'
<1>0. /\ p \in Cache!Programs /\ Len(files) \in Nat /\ now \in Nat
      /\ step \in [Cache!Programs -> CacheSteps]
  BY DEF Cache!Programs, CacheTypes, CacheSteps
<1> USE DEF Cache!world, Cache!disk, Cache!held
<1>1. CASE Cache!TakeKey(p)
  BY <1>0, <1>1, TakesItsOwn DEF Cache!TakeKey, CacheTypes, CacheSteps
<1>2. CASE Cache!Opens(p)
  <2>1. step' \in [Cache!Programs -> CacheSteps] /\ cacheKey[p] \in Cache!Keys
    BY <1>0, <1>2, GoesTypes, StepNames DEF Cache!Opens, ProgramInv
  <2>2. entry[cacheKey[p]] \in 1 .. Len(files)
    BY <1>2, <2>1 DEF PublishedInv, Cache!Opens, CacheTypes
  <2>3. /\ cacheFile' \in [Cache!Programs -> 0 .. Len(files)]
        /\ opened' \in [Cache!Programs -> Nat]
    BY <1>0, <1>2, <2>2 DEF Cache!Opens, CacheTypes
  <2>4. QED
    BY <1>2, <2>1, <2>3 DEF Cache!Opens, CacheTypes, CacheSteps
<1>3. ASSUME NEW source, Cache!Ends(p, source), UNCHANGED <<Cache!world, Cache!disk>>
      PROVE  CacheTypes'
  BY <1>0, <1>3, EndsTypes DEF CacheTypes, CacheSteps
<1>4. ASSUME NEW source, NEW to \in Loading, Cache!Goes(p, source, to),
             UNCHANGED <<Cache!world, Cache!disk, Cache!held>>
      PROVE  CacheTypes'
  BY <1>0, <1>4, GoesTypes DEF CacheTypes, CacheSteps
<1>5. QED
  <2>1. {"opened", "checked", "given"} = Loading
    BY DEF Loading
  <2>2. CASE Cache!FindsNothing(p) \/ Cache!Uses(p)
    BY <2>2, <1>3 DEF Cache!FindsNothing, Cache!Uses
  <2>3. CASE Cache!Checks(p)
    BY <2>1, <2>3, <1>3, <1>4 DEF Cache!Checks
  <2>4. CASE Cache!Reads(p)
    BY <2>1, <2>4, <1>3, <1>4 DEF Cache!Reads
  <2>5. QED
    BY <1>1, <1>2, <2>2, <2>3, <2>4 DEF Fetching, Cache!Load

(* A loss of power keeps what was synced, and a name leads to what it led  *)
(* to since it was last safe.                                              *)
LEMMA PowerKeeps ==
  ASSUME CacheTypes, PublishedInv, Cache!PowerLoss
  PROVE  /\ CacheTypes'
         /\ Len(files') = Len(files)
         /\ \A i \in 1 .. Len(files) :
              /\ files'[i].about = files[i].about /\ files'[i].synced = files[i].synced
              /\ files[i].whole /\ files[i].synced => files'[i].whole
         /\ \A k \in Cache!Keys : entry'[k] \in past[k] /\ past'[k] = {entry'[k]}
         /\ \A p \in Cache!Programs :
              step'[p] = "idle" /\ cacheFile'[p] = 0 /\ opened'[p] = 0
<1> DEFINE safe(i) == [files[i] EXCEPT !.whole = files[i].whole /\ files[i].synced]
<1>1. /\ Len(files) \in Nat /\ DOMAIN files = 1 .. Len(files)
      /\ \A i \in 1 .. Len(files) : files[i] \in CacheFiles
  BY DEF CacheTypes
<1>2. ASSUME NEW i \in 1 .. Len(files)
      PROVE  /\ safe(i) \in CacheFiles
             /\ safe(i).about = files[i].about /\ safe(i).synced = files[i].synced
             /\ safe(i).whole = (files[i].whole /\ files[i].synced)
  BY <1>1, <1>2 DEF CacheFiles
<1>3. files' = [i \in 1 .. Len(files) |-> safe(i)]
  BY <1>1 DEF Cache!PowerLoss
<1> HIDE DEF safe
<1>4. files' \in [1 .. Len(files) -> CacheFiles]
  BY <1>2, <1>3
<1>5. files' \in Seq(CacheFiles) /\ Len(files') = Len(files)
  BY <1>1, <1>4
<1>6. \A i \in 1 .. Len(files) :
        /\ files'[i].about = files[i].about /\ files'[i].synced = files[i].synced
        /\ files[i].whole /\ files[i].synced => files'[i].whole
  BY <1>2, <1>3
<1>7. /\ entry' \in [Cache!Keys -> Nat] /\ past' \in [Cache!Keys -> SUBSET Nat]
      /\ \A k \in Cache!Keys : entry'[k] \in past[k] /\ past'[k] = {entry'[k]}
  <2>1. entry' \in [Cache!Keys -> 0 .. Len(files)]
        /\ \A k \in Cache!Keys : entry'[k] \in past[k]
    BY DEF Cache!PowerLoss
  <2>2. \A i \in 0 .. Len(files) : i \in Nat
    BY <1>1
  <2>3. past' = [k \in Cache!Keys |-> {entry'[k]}]
    BY DEF Cache!PowerLoss
  <2>4. QED
    BY <2>1, <2>2, <2>3
<1>8. /\ step' = [p \in Cache!Programs |-> "idle"] /\ cacheKey' = [p \in Cache!Programs |-> None]
      /\ about' = [p \in Cache!Programs |-> None]
      /\ cacheFile' = [p \in Cache!Programs |-> 0] /\ opened' = [p \in Cache!Programs |-> 0]
      /\ now' = now /\ named' = named /\ scratch' = scratch
  BY DEF Cache!PowerLoss
<1>9. 0 \in 0 .. Len(files') /\ 0 \in Nat
  BY <1>1, <1>5
<1>10. CacheTypes'
  BY <1>5, <1>7, <1>8, <1>9 DEF CacheTypes
<1>11. QED
  BY <1>5, <1>6, <1>7, <1>8, <1>10

(* The clock, and the identity files.                                      *)
LEMMA AroundKeepsTypes ==
  ASSUME CacheTypes, PublishedInv, Around
  PROVE  CacheTypes'
<1> USE DEF Cache!disk, Cache!held
<1>1. CASE Cache!Tick
  BY <1>1 DEF Cache!Tick, CacheTypes
<1>2. CASE Cache!Renames
  <2>1. PICK s \in Sources, h \in Hosts \cup {None} : named' = [named EXCEPT ![s] = h]
    BY <1>2 DEF Cache!Renames
  <2>2. named' \in [Sources -> Hosts \cup {None}]
    BY <2>1 DEF CacheTypes
  <2>3. QED
    BY <1>2, <2>2 DEF Cache!Renames, CacheTypes
<1>3. CASE Cache!PowerLoss
  BY <1>3, PowerKeeps
<1>4. QED
  BY <1>1, <1>2, <1>3 DEF Around

(* What a program's step leaves as it is: the other programs, every file   *)
(* but the one it makes, and all that is or was at a name.                 *)
Mine(p) == step[p] \in Making

DiskGrows(p) ==
  /\ Len(files) \in Nat /\ Len(files') \in Nat /\ Len(files) <= Len(files')
  /\ \A i \in 1 .. Len(files) :
       /\ files'[i].about = files[i].about
       /\ files[i].whole => files'[i].whole
       /\ files[i].synced => files'[i].synced
       /\ ~ (Mine(p) /\ cacheFile[p] = i) => files'[i] = files[i]
  /\ \A k \in Cache!Keys : past[k] \subseteq past'[k]
  /\ now' = now

LEMMA StepGrowsDisk ==
  ASSUME Cache!InventoryCacheAssumption, CacheTypes, ProgramInv, MakerInv,
         NEW p \in Cache!Programs, Storing(p) \/ Fetching(p)
  PROVE  DiskGrows(p)
<1>0. Len(files) \in Nat
  BY DEF CacheTypes
<1> USE DEF Cache!world, Cache!disk, Cache!held
<1>1. CASE UNCHANGED <<now, files>> /\ past' = past
  BY <1>0, <1>1 DEF DiskGrows
<1>2. CASE Storing(p) /\ Cache!Creates(p)
  <2> DEFINE f == [about |-> about[p], whole |-> FALSE, synced |-> FALSE, at |-> now]
  <2>1. f \in CacheFiles
    BY <1>2 DEF Cache!Creates, Cache!Goes, ProgramInv, Owners, CacheTypes, CacheFiles,
               Storing, Cache!InventoryCacheAssumption
  <2>2. files' = Append(files, f)
    BY <1>2 DEF Cache!Creates
  <2> HIDE DEF f
  <2>3. /\ Len(files') = Len(files) + 1
        /\ \A i \in 1 .. Len(files) : files'[i] = files[i]
    BY <2>1, <2>2, OneFileMore
  <2>4. now' = now /\ past' = past
    BY <1>2 DEF Cache!Creates
  <2>5. QED
    BY <1>0, <2>3, <2>4 DEF DiskGrows
<1>3. CASE Storing(p) /\ (Cache!Writes(p) \/ Cache!Syncs(p))
  <2>1. Mine(p) /\ cacheFile[p] \in 1 .. Len(files)
    BY <1>3 DEF Cache!Writes, Cache!Syncs, Cache!Goes, MakerInv, Making, Mine,
                     CacheTypes, Storing
  <2>2. now' = now /\ past' = past
    BY <1>3 DEF Cache!Writes, Cache!Syncs
  <2>3. QED
    BY <1>0, <1>3, <2>1, <2>2, FileGrows DEF DiskGrows
<1>4. CASE Cache!Publishes(p)
  <2>1. \A k \in Cache!Keys : past[k] \subseteq past'[k]
    BY <1>4 DEF Cache!Publishes, CacheTypes
  <2>2. QED
    BY <1>0, <1>4, <2>1 DEF DiskGrows, Cache!Publishes
<1>5. QED
  <2>1. CASE Cache!TakeKey(p) \/ Cache!StoreFails(p) \/ Cache!Removes(p) \/ Cache!Crash(p)
    BY <1>1, <2>1 DEF Cache!TakeKey, Cache!StoreFails, Cache!Removes, Cache!Crash
  <2>2. CASE Cache!Opens(p) \/ Cache!FindsNothing(p) \/ Cache!Checks(p)
             \/ Cache!Reads(p) \/ Cache!Uses(p)
    BY <1>1, <2>2 DEF Cache!Opens, Cache!FindsNothing, Cache!Checks, Cache!Reads,
                     Cache!Uses
  <2>3. QED
    BY <1>2, <1>3, <1>4, <2>1, <2>2 DEF Storing, Fetching, Cache!Store, Cache!Load

LEMMA OtherPrograms ==
  ASSUME Cache!InventoryCacheAssumption, CacheTypes,
         NEW p \in Cache!Programs, Storing(p) \/ Fetching(p),
         NEW q \in Cache!Programs, q # p
  PROVE  /\ step'[q] = step[q] /\ cacheKey'[q] = cacheKey[q] /\ about'[q] = about[q]
         /\ cacheFile'[q] = cacheFile[q] /\ opened'[q] = opened[q]
<1> USE DEF Cache!world, Cache!disk, Cache!held
<1>1. ASSUME NEW source, Cache!Ends(p, source)
      PROVE  /\ step'[q] = step[q] /\ cacheKey'[q] = cacheKey[q] /\ about'[q] = about[q]
             /\ cacheFile'[q] = cacheFile[q] /\ opened'[q] = opened[q]
  BY <1>1, EndsTypes
<1>2. ASSUME NEW source, NEW to, Cache!Goes(p, source, to)
      PROVE  step'[q] = step[q]
  BY <1>2 DEF Cache!Goes, CacheTypes
<1>3. CASE Cache!TakeKey(p)
  <2>1. step'[q] = step[q] /\ cacheKey'[q] = cacheKey[q] /\ about'[q] = about[q]
    BY <1>3, TakesItsOwn
  <2>2. QED
    BY <1>3, <2>1 DEF Cache!TakeKey
<1>4. CASE Cache!StoreFails(p) \/ Cache!Removes(p) \/ Cache!Crash(p)
  BY <1>1, <1>2, <1>4 DEF Cache!StoreFails, Cache!Removes, Cache!Crash
<1>5. CASE Cache!Creates(p)
  BY <1>2, <1>5 DEF Cache!Creates, CacheTypes
<1>6. CASE Cache!Writes(p) \/ Cache!Syncs(p) \/ Cache!Publishes(p)
  BY <1>2, <1>6 DEF Cache!Writes, Cache!Syncs, Cache!Publishes
<1>7. CASE Cache!Opens(p)
  BY <1>2, <1>7 DEF Cache!Opens, CacheTypes
<1>8. CASE Cache!FindsNothing(p) \/ Cache!Checks(p) \/ Cache!Reads(p) \/ Cache!Uses(p)
  BY <1>1, <1>2, <1>8 DEF Cache!FindsNothing, Cache!Checks, Cache!Reads, Cache!Uses
<1>9. QED
  BY <1>3, <1>4, <1>5, <1>6, <1>7, <1>8 DEF Storing, Fetching, Cache!Store, Cache!Load

(* What the step of a program itself keeps of the invariant about          *)
(* programs; the others' part is as it was.                                *)
LEMMA ProgramsKeep ==
  ASSUME Cache!InventoryCacheAssumption, CacheTypes, CacheTypes', ProgramInv,
         NEW p \in Cache!Programs, Storing(p) \/ Fetching(p)
  PROVE  ProgramInv'
<1> DEFINE Good(q) ==
      /\ step'[q] \in {"idle", "keyed"} => cacheFile'[q] = 0
      /\ opened'[q] <= now'
      /\ step'[q] # "idle" =>
            /\ cacheKey'[q] \in Cache!Keys /\ about'[q] \in Sources \X (Hosts \cup {None})
            /\ about'[q][1] = cacheKey'[q][1]
            /\ about'[q][2] = None => q \in Readers
            /\ about'[q][2] # None => cacheKey'[q][2] \in {about'[q][2], "local"}
      /\ (step'[q] # "idle" /\ q \in Readers /\ about'[q][2] # None)
            => cacheKey'[q][2] = about'[q][2]
      /\ q \in Writers => step'[q] \notin Loading
      /\ q \in Readers => step'[q] \notin Making \cup {"removing"}
<1>0. now \in Nat /\ now' = now
  BY DEF CacheTypes, Storing, Fetching, Cache!Store, Cache!Load, Cache!TakeKey, Cache!Creates,
     Cache!StoreFails, Cache!Writes, Cache!Syncs, Cache!Publishes, Cache!Removes, Cache!Crash,
     Cache!Opens, Cache!FindsNothing, Cache!Checks, Cache!Reads, Cache!Uses, Cache!world
<1>1. ASSUME NEW q \in Cache!Programs, q # p PROVE Good(q)
  BY <1>0, <1>1, OtherPrograms DEF ProgramInv
<1>2. Good(p)
  <2> USE DEF Cache!world, Cache!disk, Cache!held
  <2>0. p \in Writers <=> p \notin Readers
    BY DEF Cache!Programs, Cache!InventoryCacheAssumption
  <2>1. ASSUME NEW source, Cache!Ends(p, source) PROVE Good(p)
    BY <1>0, <2>1, EndsTypes DEF Making, Loading
  <2>2. ASSUME NEW source, source # "idle", NEW to, to \notin {"idle", "keyed"}, Cache!Goes(p, source, to),
               UNCHANGED Cache!held,
               p \in Writers => to \notin Loading,
               p \in Readers => to \notin Making \cup {"removing"}
        PROVE  Good(p)
    BY <1>0, <2>2 DEF ProgramInv, Cache!Goes, CacheTypes
  <2>3. CASE Cache!TakeKey(p)
    <3>1. cacheFile'[p] = 0 /\ opened'[p] = opened[p] /\ opened[p] <= now
      BY <2>3 DEF Cache!TakeKey, Cache!Goes, ProgramInv
    <3>2. QED
      BY <1>0, <2>3, <3>1, TakesItsOwn DEF Making, Loading
  <2>4. CASE Storing(p) /\ Cache!Creates(p)
    BY <1>0, <2>0, <2>4 DEF Storing, Cache!Creates, Cache!Goes, ProgramInv, CacheTypes, Making,
                           Loading
  <2>5. CASE Storing(p) /\ (Cache!Writes(p) \/ Cache!Syncs(p) \/ Cache!Publishes(p))
    BY <2>0, <2>2, <2>5 DEF Storing, Cache!Writes, Cache!Syncs, Cache!Publishes, Making, Loading
  <2>6. CASE Storing(p) /\ (Cache!StoreFails(p) \/ Cache!Removes(p) \/ Cache!Crash(p))
    BY <2>0, <2>1, <2>2, <2>6 DEF Storing, Cache!StoreFails, Cache!Removes, Cache!Crash, Making,
                                 Loading
  <2>7. CASE Fetching(p) /\ Cache!Opens(p)
    BY <1>0, <2>0, <2>7 DEF Fetching, Cache!Opens, Cache!Goes, ProgramInv, CacheTypes, Making,
                           Loading
  <2>8. CASE Fetching(p) /\ (Cache!FindsNothing(p) \/ Cache!Checks(p) \/ Cache!Reads(p)
                             \/ Cache!Uses(p))
    BY <2>0, <2>1, <2>2, <2>8 DEF Fetching, Cache!FindsNothing, Cache!Checks, Cache!Reads,
                                 Cache!Uses, Making, Loading
  <2>9. QED
    BY <2>3, <2>4, <2>5, <2>6, <2>7, <2>8 DEF Storing, Fetching, Cache!Store, Cache!Load
<1>3. QED
  <2>1. \A q \in Cache!Programs : Good(q)
    BY <1>1, <1>2
  <2>2. QED
    BY <2>1 DEF ProgramInv, Cache!Programs

(* Only a file that is written and synced comes to a name, under the key   *)
(* of what it is about.                                                    *)
LEMMA NamesChange ==
  ASSUME CacheTypes, ProgramInv, MakerInv, NEW p \in Cache!Programs, Storing(p) \/ Fetching(p)
  PROVE  \/ entry' = entry /\ past' = past
         \/ /\ p \in Writers /\ step[p] = "synced" /\ step'[p] = "removing" /\ files' = files
            /\ entry' = [entry EXCEPT ![cacheKey[p]] = cacheFile[p]]
            /\ past' = [past EXCEPT ![cacheKey[p]] = @ \cup {cacheFile[p]}]
BY DEF Storing, Fetching, Cache!Store, Cache!Load, Cache!TakeKey, Cache!Creates,
   Cache!StoreFails, Cache!Writes, Cache!Syncs, Cache!Publishes, Cache!Removes, Cache!Crash,
   Cache!Opens, Cache!FindsNothing, Cache!Checks, Cache!Reads, Cache!Uses, Cache!disk,
   Cache!Goes, CacheTypes

LEMMA NamesKeep ==
  ASSUME Cache!InventoryCacheAssumption, CacheTypes, ProgramInv, PublishedInv, MakerInv,
         NEW p \in Cache!Programs, Storing(p) \/ Fetching(p)
  PROVE  PublishedInv'
<1>1. DiskGrows(p)
  BY StepGrowsDisk
<1>2. CASE entry' = entry /\ past' = past
  BY <1>1, <1>2 DEF PublishedInv, DiskGrows
<1>3. CASE /\ p \in Writers /\ step[p] = "synced" /\ step'[p] = "removing" /\ files' = files
           /\ entry' = [entry EXCEPT ![cacheKey[p]] = cacheFile[p]]
           /\ past' = [past EXCEPT ![cacheKey[p]] = @ \cup {cacheFile[p]}]
  <2>1. /\ cacheFile[p] \in 1 .. Len(files) /\ files[cacheFile[p]].whole /\ files[cacheFile[p]].synced
        /\ files[cacheFile[p]].about = about[p]
    BY <1>3 DEF MakerInv, Making, CacheTypes
  <2>2. /\ cacheKey[p] \in Cache!Keys /\ about[p][1] = cacheKey[p][1]
        /\ cacheKey[p][2] # "local" => about[p][2] = cacheKey[p][2]
    BY <1>3 DEF ProgramInv, Cache!InventoryCacheAssumption
  <2>3. ASSUME NEW k \in Cache!Keys, k # cacheKey[p]
        PROVE  entry'[k] = entry[k] /\ past'[k] = past[k]
    BY <1>3, <2>3 DEF CacheTypes
  <2>4. entry'[cacheKey[p]] = cacheFile[p] /\ past'[cacheKey[p]] = past[cacheKey[p]] \cup {cacheFile[p]}
    BY <1>3, <2>2 DEF CacheTypes
  <2>5. ASSUME NEW k \in Cache!Keys
        PROVE  /\ entry'[k] \in past'[k]
               /\ \A i \in past'[k] \ {0} :
                    /\ i \in 1 .. Len(files') /\ files'[i].whole /\ files'[i].synced
                    /\ files'[i].about[1] = k[1]
                    /\ k[2] # "local" => files'[i].about[2] = k[2]
    <3>1. CASE k = cacheKey[p]
      BY <1>3, <2>1, <2>2, <2>4, <3>1 DEF PublishedInv
    <3>2. CASE k # cacheKey[p]
      BY <1>3, <2>3, <3>2 DEF PublishedInv
    <3>3. QED
      BY <3>1, <3>2
  <2>6. QED
    BY <2>5 DEF PublishedInv
<1>4. QED
  BY <1>2, <1>3, NamesChange

(* Where a store's step leads, and from where.                             *)
LEMMA MakingSteps ==
  ASSUME Cache!InventoryCacheAssumption, CacheTypes, ProgramInv, MakerInv,
         NEW p \in Writers, Storing(p), step'[p] \in Making
  PROVE  \/ Cache!Creates(p)
         \/ /\ step[p] \in Making /\ cacheFile'[p] = cacheFile[p] /\ about'[p] = about[p]
            /\ Cache!Writes(p) \/ Cache!Syncs(p)
<1>0. p \in Cache!Programs /\ {"idle", "keyed", "removing"} \cap Making = {}
  BY DEF Cache!Programs, Making
<1>1. CASE Cache!TakeKey(p)
  BY <1>0, <1>1, TakesItsOwn
<1>2. CASE Cache!StoreFails(p) \/ Cache!Removes(p) \/ Cache!Crash(p) \/ Cache!Publishes(p)
  <2>1. ASSUME NEW source, Cache!Ends(p, source) PROVE FALSE
    BY <1>0, <2>1, EndsTypes
  <2>2. ASSUME NEW source, Cache!Goes(p, source, "removing") PROVE FALSE
    BY <1>0, <2>2 DEF Cache!Goes, CacheTypes
  <2>3. QED
    BY <1>2, <2>1, <2>2 DEF Cache!StoreFails, Cache!Removes, Cache!Crash, Cache!Publishes
<1>3. CASE Cache!Writes(p) \/ Cache!Syncs(p)
  BY <1>3 DEF Cache!Writes, Cache!Syncs, Cache!Goes, Making, Cache!held
<1>4. QED
  BY <1>1, <1>2, <1>3 DEF Storing, Cache!Store

(* The new file is at no name, and nobody else's.                          *)
LEMMA CreatesAlone ==
  ASSUME Cache!InventoryCacheAssumption, CacheTypes, ProgramInv, PublishedInv, MakerInv,
         NEW p \in Writers, Storing(p), Cache!Creates(p)
  PROVE  /\ cacheFile'[p] = Len(files) + 1 /\ Len(files) \in Nat /\ step'[p] = "created"
         /\ files'[cacheFile'[p]].about = about'[p]
         /\ \A k \in Cache!Keys : cacheFile'[p] \notin past'[k]
         /\ scratch' = scratch \cup {cacheFile'[p]} /\ about'[p] = about[p]
<1> DEFINE f == [about |-> about[p], whole |-> FALSE, synced |-> FALSE, at |-> now]
<1>0. p \in Cache!Programs /\ Len(files) \in Nat
  BY DEF Cache!Programs, CacheTypes
<1>1. f \in CacheFiles /\ f.about = about[p]
  BY <1>0 DEF Cache!Creates, Cache!Goes, ProgramInv, Owners, CacheTypes, CacheFiles,
             Cache!InventoryCacheAssumption
<1>2. files' = Append(files, f)
  BY DEF Cache!Creates
<1> HIDE DEF f
<1>3. Len(files') = Len(files) + 1 /\ files'[Len(files')] = f
  BY <1>1, <1>2, OneFileMore
<1>4. /\ cacheFile'[p] = Len(files') /\ scratch' = scratch \cup {Len(files')}
      /\ about' = about /\ past' = past /\ step'[p] = "created"
  BY <1>0 DEF Cache!Creates, Cache!Goes, CacheTypes
<1>5. ASSUME NEW k \in Cache!Keys PROVE Len(files) + 1 \notin past[k]
  BY <1>0 DEF PublishedInv
<1>6. QED
  BY <1>0, <1>1, <1>3, <1>4, <1>5

LEMMA MakersKeep ==
  ASSUME Cache!InventoryCacheAssumption, CacheTypes, ProgramInv, PublishedInv, MakerInv,
         NEW p \in Writers, Storing(p)
  PROVE  MakerInv'
<1> DEFINE Good(q) == /\ cacheFile'[q] # 0 /\ files'[cacheFile'[q]].about = about'[q]
                      /\ \A k \in Cache!Keys : cacheFile'[q] \notin past'[k]
                      /\ step'[q] # "created" => files'[cacheFile'[q]].whole
                      /\ step'[q] = "synced" => files'[cacheFile'[q]].synced
<1>0. /\ p \in Cache!Programs /\ \A q \in Writers : q \in Cache!Programs
      /\ Len(files) \in Nat
      /\ \A q \in Writers : step[q] \in Making => cacheFile[q] \in 1 .. Len(files)
  BY DEF Cache!Programs, CacheTypes, MakerInv
<1>1. DiskGrows(p)
  BY <1>0, StepGrowsDisk
<1>2. ASSUME NEW q \in Writers, q # p, step'[q] \in Making PROVE Good(q)
  <2>1. /\ step'[q] = step[q] /\ cacheFile'[q] = cacheFile[q] /\ about'[q] = about[q]
        /\ cacheFile[q] \in 1 .. Len(files)
    BY <1>0, <1>2, OtherPrograms
  <2>2. ASSUME NEW k \in Cache!Keys PROVE cacheFile[q] \notin past'[k]
    <3>1. CASE past' = past
      BY <1>2, <2>1, <3>1 DEF MakerInv
    <3>2. CASE step[p] = "synced" /\ past' = [past EXCEPT ![cacheKey[p]] = @ \cup {cacheFile[p]}]
      <4>1. cacheFile[q] # cacheFile[p] /\ cacheFile[q] \notin past[k]
        BY <1>2, <2>1, <3>2 DEF MakerInv, Making
      <4>2. QED
        BY <3>2, <4>1 DEF CacheTypes
    <3>3. QED
      BY <1>0, <3>1, <3>2, NamesChange
  <2>3. QED
    BY <1>1, <1>2, <2>1, <2>2 DEF MakerInv, DiskGrows
<1>3. ASSUME step'[p] \in Making PROVE Good(p)
  <2>1. CASE Cache!Creates(p)
    BY <2>1, CreatesAlone
  <2>2. CASE /\ step[p] \in Making /\ cacheFile'[p] = cacheFile[p] /\ about'[p] = about[p]
             /\ Cache!Writes(p) \/ Cache!Syncs(p)
    <3>1. past' = past
      BY <2>2 DEF Cache!Writes, Cache!Syncs
    <3>2. /\ Cache!Writes(p) => step[p] = "created" /\ step'[p] = "written"
          /\ Cache!Syncs(p) => step[p] = "written" /\ step'[p] = "synced"
      BY <1>0 DEF Cache!Writes, Cache!Syncs, Cache!Goes, CacheTypes
    <3>3. QED
      BY <1>0, <2>2, <3>1, <3>2, FileGrows DEF MakerInv
  <2>3. QED
    BY <1>3, <2>1, <2>2, MakingSteps
<1>4. ASSUME NEW q \in Writers, NEW r \in Writers,
             step'[q] \in Making, step'[r] \in Making, cacheFile'[q] = cacheFile'[r]
      PROVE  q = r
  <2>1. ASSUME NEW o \in Writers, o # p, step'[o] \in Making, step'[p] \in Making
        PROVE  cacheFile'[o] # cacheFile'[p]
    <3>1. step'[o] = step[o] /\ cacheFile'[o] = cacheFile[o] /\ cacheFile[o] \in 1 .. Len(files)
      BY <1>0, <2>1, OtherPrograms
    <3>2. CASE Cache!Creates(p)
      BY <3>1, <3>2, CreatesAlone
    <3>3. CASE step[p] \in Making /\ cacheFile'[p] = cacheFile[p]
      BY <2>1, <3>1, <3>3 DEF MakerInv
    <3>4. QED
      BY <2>1, <3>2, <3>3, MakingSteps
  <2>2. CASE q # p /\ r # p
    <3>1. step'[q] = step[q] /\ cacheFile'[q] = cacheFile[q] /\ step'[r] = step[r] /\ cacheFile'[r] = cacheFile[r]
      BY <1>0, <2>2, OtherPrograms
    <3>2. QED
      BY <1>4, <3>1 DEF MakerInv
  <2>3. QED
    BY <1>4, <2>1, <2>2
<1>5. ASSUME ~ crashed', NEW i \in scratch'
      PROVE  \E q \in Writers : cacheFile'[q] = i /\ step'[q] # "idle"
  <2>1. CASE Cache!Creates(p) /\ i \notin scratch
    BY <1>5, <2>1, CreatesAlone
  <2>2. CASE i \in scratch
    <3>1. ~ crashed
      BY <1>5 DEF Storing, Cache!Store, Cache!TakeKey, Cache!Creates, Cache!StoreFails,
                  Cache!Writes, Cache!Syncs, Cache!Publishes, Cache!Removes, Cache!Crash,
                  Cache!world
    <3>2. PICK q \in Writers : cacheFile[q] = i /\ step[q] # "idle"
      BY <2>2, <3>1 DEF MakerInv
    <3>3. CASE q # p
      BY <1>0, <3>2, <3>3, OtherPrograms
    <3>4. CASE q = p
      <4>0. i # 0
        BY <2>2 DEF CacheTypes
      <4>1. step[p] \in Making \cup {"removing"}
        BY <1>0, <3>2, <3>4, <4>0, StepNames DEF ProgramInv, CacheTypes, Making, Loading
      <4>2. CASE Cache!Removes(p)
        BY <1>5, <3>2, <3>4, <4>2 DEF Cache!Removes
      <4>3. CASE \E x \in {"created", "written", "synced"} :
                   Cache!Goes(p, x, "removing") /\ UNCHANGED Cache!held
        BY <1>0, <3>2, <3>4, <4>3 DEF Cache!Goes, Cache!held, CacheTypes
      <4>4. CASE Cache!Writes(p) \/ Cache!Syncs(p) \/ Cache!Publishes(p)
        BY <1>0, <3>2, <3>4, <4>4
           DEF Cache!Writes, Cache!Syncs, Cache!Publishes, Cache!Goes, Cache!held, CacheTypes
      <4>5. QED
        BY <1>5, <4>1, <4>2, <4>3, <4>4
           DEF Storing, Cache!Store, Cache!TakeKey, Cache!Creates, Cache!StoreFails,
               Cache!Crash, Cache!Ends, Cache!Goes, Making
    <3>5. QED
      BY <3>3, <3>4
  <2>3. QED
    <3>1. scratch' \subseteq scratch \/ Cache!Creates(p)
      BY DEF Storing, Cache!Store, Cache!TakeKey, Cache!StoreFails, Cache!Writes, Cache!Syncs,
             Cache!Publishes, Cache!Removes, Cache!Crash, Cache!disk
    <3>2. QED
      BY <2>1, <2>2, <3>1
<1>6. QED
  BY <1>2, <1>3, <1>4, <1>5 DEF MakerInv

LEMMA FileTypes ==
  ASSUME CacheTypes, PublishedInv, NEW k \in Cache!Keys, NEW i \in past[k] \ {0}
  PROVE  files[i].at \in Nat /\ files[i].about \in Owners
<1>1. i \in 1 .. Len(files) /\ files \in Seq(CacheFiles)
  BY DEF PublishedInv, CacheTypes
<1>2. files[i] \in CacheFiles
  BY <1>1
<1>3. QED
  BY <1>2 DEF CacheFiles

(* What a reader does leaves the makers and their files alone.             *)
LEMMA MakersUntouched ==
  ASSUME Cache!InventoryCacheAssumption, CacheTypes, ProgramInv, MakerInv,
         NEW p \in Readers, Fetching(p)
  PROVE  MakerInv'
<1>1. UNCHANGED Cache!disk /\ crashed' = crashed
  BY DEF Fetching, Cache!Load, Cache!TakeKey, Cache!Opens, Cache!FindsNothing, Cache!Checks,
         Cache!Reads, Cache!Uses, Cache!world
<1>2. ASSUME NEW q \in Writers
      PROVE  step'[q] = step[q] /\ cacheFile'[q] = cacheFile[q] /\ about'[q] = about[q]
  <2>1. q # p /\ q \in Cache!Programs /\ p \in Cache!Programs
    BY DEF Cache!InventoryCacheAssumption, Cache!Programs
  <2>2. QED
    BY <2>1, OtherPrograms
<1>3. QED
  BY <1>1, <1>2 DEF MakerInv, Cache!disk

(* A reader's file was at the name of its key when it opened it, and is no *)
(* maker's.                                                                *)
LEMMA LoadersKeep ==
  ASSUME Cache!InventoryCacheAssumption, CacheTypes, CacheTypes', ProgramInv, PublishedInv,
         MakerInv, LoaderInv, NEW p \in Cache!Programs, Storing(p) \/ Fetching(p)
  PROVE  LoaderInv'
<1> DEFINE Good(q) == /\ cacheFile'[q] \in past'[cacheKey'[q]] \ {0}
                      /\ step'[q] # "opened" => opened'[q] <= files'[cacheFile'[q]].at + Ttl
<1>0. DiskGrows(p) /\ \A q \in Readers : q \in Cache!Programs /\ q \notin Writers
  BY StepGrowsDisk DEF Cache!Programs, Cache!InventoryCacheAssumption
<1>1. ASSUME NEW q \in Readers, q # p, step'[q] \in Loading PROVE Good(q)
  <2>1. /\ step'[q] = step[q] /\ cacheFile'[q] = cacheFile[q] /\ cacheKey'[q] = cacheKey[q]
        /\ opened'[q] = opened[q]
    BY <1>0, <1>1, OtherPrograms
  <2>2. cacheKey[q] \in Cache!Keys /\ cacheFile[q] \in past[cacheKey[q]] \ {0}
    BY <1>0, <1>1, <2>1 DEF LoaderInv, ProgramInv, Loading
  <2>3. cacheFile[q] \in 1 .. Len(files) /\ cacheFile[q] \in past'[cacheKey[q]] \ {0}
    BY <1>0, <2>2 DEF PublishedInv, DiskGrows
  <2>4. ~ (Mine(p) /\ cacheFile[p] = cacheFile[q])
    <3>1. Mine(p) => p \in Writers
      BY DEF Mine, ProgramInv, Cache!Programs
    <3>2. QED
      BY <2>2, <3>1 DEF MakerInv, Mine
  <2>5. files'[cacheFile[q]] = files[cacheFile[q]]
    BY <1>0, <2>3, <2>4 DEF DiskGrows
  <2>6. QED
    BY <1>1, <2>1, <2>3, <2>5 DEF LoaderInv
<1>2. ASSUME p \in Readers, step'[p] \in Loading PROVE Good(p)
  <2> USE DEF Cache!disk, Cache!held
  <2>0. /\ Fetching(p) /\ UNCHANGED Cache!disk
        /\ now \in Nat /\ Ttl \in Nat /\ opened[p] \in Nat /\ opened[p] <= now
    <3>1. Fetching(p)
      BY <1>0, <1>2 DEF Storing
    <3>2. QED
      BY <3>1 DEF Fetching, Cache!Load, Cache!TakeKey, Cache!Opens, Cache!FindsNothing,
             Cache!Checks, Cache!Reads, Cache!Uses, ProgramInv, CacheTypes,
             Cache!InventoryCacheAssumption
  <2>1. ASSUME NEW source, Cache!Ends(p, source) PROVE FALSE
    BY <1>2, <2>1, EndsTypes DEF Loading
  <2>2. CASE Cache!TakeKey(p)
    BY <1>2, <2>2, TakesItsOwn DEF Loading
  <2>3. CASE Cache!Opens(p)
    <3>1. cacheKey[p] \in Cache!Keys /\ step'[p] = "opened" /\ cacheFile'[p] = entry[cacheKey[p]]
          /\ cacheKey' = cacheKey /\ entry[cacheKey[p]] # 0
      BY <2>3 DEF Cache!Opens, Cache!Goes, ProgramInv, CacheTypes
    <3>2. QED
      BY <2>0, <3>1 DEF PublishedInv
  <2>4. CASE Cache!Checks(p)
    <3>1. /\ step[p] = "opened" /\ now - files[cacheFile[p]].at <= Ttl
          /\ UNCHANGED Cache!held
      BY <2>1, <2>4 DEF Cache!Checks, Cache!Goes
    <3>2. cacheKey[p] \in Cache!Keys /\ cacheFile[p] \in past[cacheKey[p]] \ {0}
      BY <1>2, <3>1 DEF LoaderInv, Loading, ProgramInv
    <3>3. files[cacheFile[p]].at \in Nat
      BY <3>2, FileTypes
    <3>4. QED
      BY <2>0, <3>1, <3>2, <3>3
  <2>5. CASE Cache!Reads(p)
    <3>1. step[p] = "checked" /\ UNCHANGED Cache!held
      BY <2>1, <2>5 DEF Cache!Reads, Cache!Goes
    <3>2. QED
      BY <1>2, <2>0, <3>1 DEF LoaderInv, Loading
  <2>6. QED
    BY <2>0, <2>1, <2>2, <2>3, <2>4, <2>5
       DEF Fetching, Cache!Load, Cache!FindsNothing, Cache!Uses
<1>3. QED
  BY <1>1, <1>2 DEF LoaderInv

LEMMA AroundKeeps ==
  ASSUME CacheInv, Around
  PROVE  CacheInv'
<1>1. CacheTypes'
  BY AroundKeepsTypes DEF CacheInv
<1> USE DEF Cache!disk, Cache!held
<1>2. CASE Cache!Tick \/ Cache!Renames
  <2>1. /\ now \in Nat /\ now' \in Nat /\ now <= now' /\ crashed' = crashed
        /\ UNCHANGED <<Cache!disk, step, Cache!held>>
        /\ \A p \in Cache!Programs : opened[p] \in Nat
    BY <1>2 DEF Cache!Tick, Cache!Renames, CacheInv, CacheTypes
  <2>2. ProgramInv'
    <3>1. \A p \in Cache!Programs : opened'[p] <= now'
      BY <2>1 DEF CacheInv, ProgramInv
    <3>2. QED
      BY <2>1, <3>1 DEF CacheInv, ProgramInv
  <2>3. PublishedInv' /\ MakerInv' /\ LoaderInv'
    BY <2>1 DEF CacheInv, PublishedInv, MakerInv, LoaderInv
  <2>4. QED
    BY <1>1, <2>2, <2>3 DEF CacheInv
<1>3. CASE Cache!PowerLoss
  <2> USE <1>3, PowerKeeps DEF CacheInv
  <2>1. ProgramInv'
    BY <1>1 DEF ProgramInv, Cache!Programs, Making, Loading, CacheTypes
  <2>2. PublishedInv'
    BY DEF PublishedInv
  <2>3. MakerInv' /\ LoaderInv'
    BY DEF MakerInv, LoaderInv, Making, Loading, Cache!Programs, Cache!PowerLoss
  <2>4. QED
    BY <1>1, <2>1, <2>2, <2>3
<1>4. QED
  BY <1>2, <1>3 DEF Around

(* What is kept on disk under a key is a whole inventory; a load hands over *)
(* a whole one, of the source and host its key is of, and young enough when *)
(* it was opened: for any number of programs and stores, whichever stop or  *)
(* fail in the middle and whenever the power goes (inventory.rs).           *)
THEOREM CacheKeepsWhole ==
  ASSUME Cache!InventoryCacheAssumption
  PROVE  Cache!InventoryCacheSpec => []Cache!CacheAgrees
<1>1. Cache!InventoryCacheInit => CacheInv
  <2> SUFFICES ASSUME Cache!InventoryCacheInit PROVE CacheInv
    OBVIOUS
  <2> USE DEF Cache!InventoryCacheInit
  <2>1. CacheTypes
    BY DEF CacheTypes
  <2>2. ProgramInv /\ PublishedInv /\ MakerInv /\ LoaderInv
    BY DEF ProgramInv, PublishedInv, MakerInv, LoaderInv, Making, Loading, Cache!Programs
  <2>3. QED
    BY <2>1, <2>2 DEF CacheInv
<1>2. CacheInv /\ [Cache!InventoryCacheNext]_(Cache!cacheVars) => CacheInv'
  <2> SUFFICES ASSUME CacheInv, [Cache!InventoryCacheNext]_(Cache!cacheVars)
               PROVE  CacheInv'
    OBVIOUS
  <2>1. CASE UNCHANGED Cache!cacheVars
    BY <2>1 DEF Cache!cacheVars, CacheInv, CacheTypes, ProgramInv, PublishedInv, MakerInv,
               LoaderInv
  <2>2. CASE Around
    BY <2>2, AroundKeeps
  <2>3. ASSUME NEW p \in Writers, Storing(p) PROVE CacheInv'
    <3>1. p \in Cache!Programs
      BY DEF Cache!Programs
    <3>2. CacheTypes'
      BY <2>3, StoreKeepsTypes DEF CacheInv
    <3>3. ProgramInv' /\ PublishedInv' /\ MakerInv' /\ LoaderInv'
      BY <2>3, <3>1, <3>2, ProgramsKeep, NamesKeep, MakersKeep, LoadersKeep DEF CacheInv
    <3>4. QED
      BY <3>2, <3>3 DEF CacheInv
  <2>4. ASSUME NEW p \in Readers, Fetching(p) PROVE CacheInv'
    <3>1. p \in Cache!Programs
      BY DEF Cache!Programs
    <3>2. CacheTypes'
      BY <2>4, LoadKeepsTypes DEF CacheInv
    <3>3. ProgramInv' /\ PublishedInv' /\ MakerInv' /\ LoaderInv'
      BY <2>4, <3>1, <3>2, ProgramsKeep, NamesKeep, MakersUntouched, LoadersKeep DEF CacheInv
    <3>4. QED
      BY <3>2, <3>3 DEF CacheInv
  <2>5. QED
    BY <2>1, <2>2, <2>3, <2>4 DEF Cache!InventoryCacheNext, Around, Storing, Fetching
<1>3. CacheInv => Cache!CacheAgrees
  <2> SUFFICES ASSUME CacheInv PROVE Cache!CacheAgrees
    OBVIOUS
  <2>1. Cache!EntriesAreWhole
    BY DEF CacheInv, PublishedInv, MakerInv, Cache!EntriesAreWhole
  <2>2. ASSUME NEW p \in Readers, step[p] = "given"
        PROVE  /\ files[cacheFile[p]].whole
               /\ about[p][2] # None => files[cacheFile[p]].about = about[p]
               /\ opened[p] <= files[cacheFile[p]].at + Ttl
    <3>1. /\ p \in Cache!Programs /\ cacheKey[p] \in Cache!Keys
          /\ cacheFile[p] \in past[cacheKey[p]] \ {0} /\ opened[p] <= files[cacheFile[p]].at + Ttl
      BY <2>2 DEF CacheInv, LoaderInv, ProgramInv, Loading, Cache!Programs
    <3>2. /\ cacheFile[p] \in 1 .. Len(files) /\ files[cacheFile[p]].whole
          /\ files[cacheFile[p]].about[1] = cacheKey[p][1]
          /\ cacheKey[p][2] # "local" => files[cacheFile[p]].about[2] = cacheKey[p][2]
          /\ files[cacheFile[p]].about \in Owners
      BY <3>1, FileTypes DEF CacheInv, PublishedInv
    <3>3. ASSUME about[p][2] # None PROVE files[cacheFile[p]].about = about[p]
      <4>1. /\ about[p] \in Sources \X (Hosts \cup {None}) /\ about[p][1] = cacheKey[p][1]
            /\ cacheKey[p][2] = about[p][2]
        BY <2>2, <3>1, <3>3 DEF CacheInv, ProgramInv
      <4>2. about[p][2] # "local"
        BY <3>3, <4>1 DEF Cache!InventoryCacheAssumption
      <4>3. /\ files[cacheFile[p]].about = <<files[cacheFile[p]].about[1], files[cacheFile[p]].about[2]>>
            /\ about[p] = <<about[p][1], about[p][2]>>
        BY <3>2, <4>1 DEF Owners
      <4>4. QED
        BY <3>2, <4>1, <4>2, <4>3
    <3>4. QED
      BY <3>1, <3>2, <3>3
  <2>3. QED
    BY <2>1, <2>2 DEF Cache!CacheAgrees, Cache!LoadIsOwn
<1>4. QED
  BY <1>1, <1>2, <1>3, PTL DEF Cache!InventoryCacheSpec

-----------------------------------------------------------------------------
(* NoiseHandshake: both ends agree, and a failure has its reason.          *)

LEMMA LeastIndex ==
  ASSUME NEW T, T \subseteq Nat, T # {}
  PROVE  \E i \in T : \A j \in T : i <= j
<1> DEFINE B == {0 .. i : i \in T}
           R == StrictSubsetOrdering(Nat)
<1>1. IsWellFoundedOn(R, FiniteSubsetsOf(Nat))
  BY FS_StrictSubsetOrderingWellFounded
<1>2. B # {} /\ B \subseteq FiniteSubsetsOf(Nat)
  <2>1. \A i \in T : (0 .. i) \in SUBSET Nat /\ IsFiniteSet(0 .. i)
    BY FS_Interval
  <2>2. QED
    BY <2>1 DEF FiniteSubsetsOf
<1>3. \A x, y \in FiniteSubsetsOf(Nat) : x \subseteq y /\ x # y => <<x, y>> \in R
  BY DEF StrictSubsetOrdering, FiniteSubsetsOf
<1>4. PICK b \in B : \A c \in B : ~ (<<c, b>> \in R)
  <2> HIDE DEF B, R
  <2>1. QED
    BY <1>1, <1>2, WFMin
<1>5. PICK i \in T : b = 0 .. i
  BY <1>4
<1>6. ASSUME NEW j \in T, j < i PROVE FALSE
  <2> HIDE DEF R
  <2>1. (0 .. j) \in B /\ (0 .. j) \subseteq (0 .. i) /\ i \in 0 .. i /\ i \notin 0 .. j
    BY <1>6
  <2>2. QED
    BY <1>2, <1>3, <1>4, <1>5, <2>1
<1>7. QED
  BY <1>6

Hubs == [node : Nodes, key : HubKeys, patterns : SUBSET Shake!Patterns,
         suites : SUBSET Shake!Range(Suites), knows : BOOLEAN]

\* The suite is the first of this client's among the ones offered.
FirstOf(suite, suites) ==
  \E i \in DOMAIN Suites :
    /\ suite = Suites[i] /\ suite \in suites
    /\ \A j \in DOMAIN Suites : Suites[j] \in suites => i <= j

ShakeTypes ==
  /\ hub \in Hubs /\ hubPassword \in BOOLEAN /\ kkRefused \in BOOLEAN
  /\ pins \in [Nodes -> HubKeys \cup {None}]
  /\ psks \in [Nodes -> {None, "right", "wrong"}]
  /\ altered \in BOOLEAN /\ stale \in BOOLEAN
  /\ shaking \in {"rest", "failed", "hello", "offer", "sent", "answer", "done"}
  /\ shaking \in {"offer", "sent", "answer", "done"} => hello \in Nodes
  /\ shaking = "offer" => altered = (hello # hub.node)

Mutual == shaking \in {"sent", "answer", "done"}

(* What the client's messages depend on: p and s are what it read of the   *)
(* hub's offer, secret the PSK it used.  Nothing was altered exactly when   *)
(* all that is clear came as it was sent.                                  *)
Depends(p, s, secret) ==
  /\ offer \in {Shake!Offers(p, s), Shake!Reverse(Shake!Offers(p, s))}
  /\ mine.name.pattern \in p /\ FirstOf(mine.name.suite, s)
  /\ mine.name = [pattern |-> mine.name.pattern, suite |-> mine.name.suite]
  /\ mine.says.prologue = <<hello, Shake!Range(offer), mine.name>>
  /\ mine.says.psk = <<secret, hello>>
  /\ mine.name.pattern # "KKpsk0" => mine.says.key = None
  /\ secret = "wrong" => stale \/ ~ hubPassword
  /\ altered = (hello # hub.node \/ p # hub.patterns \/ s # hub.suites
                 \/ envelope # mine.name)

MessagesInv ==
  /\ Mutual =>
       /\ \E p \in SUBSET Shake!Patterns, s \in SUBSET Shake!Range(Suites),
             secret \in {"right", "wrong"} : Depends(p, s, secret)
       /\ mine.says = [prologue |-> mine.says.prologue, psk |-> mine.says.psk,
                       key |-> mine.says.key]
       /\ envelope = [pattern |-> envelope.pattern, suite |-> envelope.suite]
  /\ shaking \in {"answer", "done"} => answer = Shake!HubSays(envelope)
  /\ shaking = "done" => answer = mine.says /\ pins[hello] = hub.key
  /\ shaking # "failed" => shakeError = "none"

ShakeInv == ShakeTypes /\ MessagesInv /\ Shake!FailsForReason

LEMMA ChoiceIsFirst ==
  ASSUME Shake!HandshakeAssumption, NEW p \in SUBSET Shake!Patterns, NEW s, NEW pinned,
         NEW name, name = Shake!SelectNoiseOptions(p, s, pinned), name # None
  PROVE  /\ name = [pattern |-> name.pattern, suite |-> name.suite]
         /\ name.pattern \in p /\ FirstOf(name.suite, s)
<1> DEFINE common == {i \in DOMAIN Suites : Suites[i] \in s}
           offered == {x \in p : x = "KKpsk0" => pinned # None}
           least == CHOOSE i \in common : \A j \in common : i <= j
<1>1. /\ common # {} /\ offered # {}
      /\ name = [pattern |-> IF "KKpsk0" \in offered THEN "KKpsk0" ELSE "XXpsk2",
                 suite |-> Suites[least]]
  BY DEF Shake!SelectNoiseOptions
<1>2. common \subseteq Nat
  BY DEF Shake!HandshakeAssumption
<1>3. \E i \in common : \A j \in common : i <= j
  <2> HIDE DEF common
  <2>1. QED
    BY <1>1, <1>2, LeastIndex
<1>4. least \in common /\ \A j \in common : least <= j
  <2> HIDE DEF common
  <2>1. QED
    BY <1>3
<1>5. (IF "KKpsk0" \in offered THEN "KKpsk0" ELSE "XXpsk2") \in p
  BY <1>1 DEF Shake!Patterns
<1> DEFINE pat == IF "KKpsk0" \in offered THEN "KKpsk0" ELSE "XXpsk2"
<1>6. name = [pattern |-> pat, suite |-> Suites[least]] /\ pat \in p
  BY <1>1, <1>5
<1> HIDE DEF pat, least
<1>7. name.pattern = pat /\ name.suite = Suites[least]
  BY <1>6
<1>8. FirstOf(Suites[least], s)
  BY <1>4 DEF FirstOf
<1>9. QED
  BY <1>6, <1>7, <1>8

(* The same fields make the same bytes in whatever order, and others do    *)
(* not.                                                                    *)
LEMMA OffersAsFields ==
  ASSUME NEW p, NEW s,
         NEW o \in {Shake!Offers(p, s), Shake!Reverse(Shake!Offers(p, s))}
  PROVE  Shake!Range(o) = {<<"patterns", p>>, <<"suites", s>>}
<1> DEFINE a == <<"patterns", p>>
           b == <<"suites", s>>
<1>1. Shake!Offers(p, s) = <<a, b>>
  BY DEF Shake!Offers
<1> HIDE DEF a, b
<1>2. Shake!Reverse(<<a, b>>) = [i \in 1 .. 2 |-> <<a, b>>[2 - i + 1]]
  BY DEF Shake!Reverse
<1>3. Shake!Range(<<a, b>>) = {a, b}
  <2>1. DOMAIN <<a, b>> = {1, 2} /\ <<a, b>>[1] = a /\ <<a, b>>[2] = b
    OBVIOUS
  <2>2. QED
    BY <2>1 DEF Shake!Range
<1>4. Shake!Range(Shake!Reverse(<<a, b>>)) = {a, b}
  <2> DEFINE r == [i \in 1 .. 2 |-> <<a, b>>[2 - i + 1]]
  <2>1. DOMAIN r = {1, 2} /\ r[1] = b /\ r[2] = a
    OBVIOUS
  <2> HIDE DEF r
  <2>2. Shake!Range(r) = {a, b}
    BY <2>1 DEF Shake!Range
  <2>3. QED
    BY <1>2, <2>2 DEF r
<1>5. Shake!Range(o) = {a, b}
  BY <1>1, <1>3, <1>4
<1>6. QED
  BY <1>5 DEF a, b

(* What the client and the hub say is the same exactly when what both go by *)
(* is; in KK the keys have to be as well.                                  *)
LEMMA BothSaySame ==
  ASSUME ShakeTypes, MessagesInv, Mutual,
         NEW p \in SUBSET Shake!Patterns, NEW s \in SUBSET Shake!Range(Suites),
         NEW secret \in {"right", "wrong"}, Depends(p, s, secret)
  PROVE  /\ mine.says = Shake!HubSays(envelope) => ~ altered
         /\ (~ altered /\ secret = "right" /\ mine.name.pattern # "KKpsk0")
              => mine.says = Shake!HubSays(envelope)
<1> DEFINE theirs == Shake!HubSays(envelope)
<1>1. /\ Shake!Range(offer) = {<<"patterns", p>>, <<"suites", s>>}
      /\ Shake!Range(Shake!Offers(hub.patterns, hub.suites))
           = {<<"patterns", hub.patterns>>, <<"suites", hub.suites>>}
  BY OffersAsFields DEF Depends
<1>2. /\ theirs.prologue
           = <<hub.node, {<<"patterns", hub.patterns>>, <<"suites", hub.suites>>}, envelope>>
      /\ theirs.psk = <<"right", hub.node>>
      /\ theirs.key = IF envelope.pattern = "KKpsk0" THEN hub.key ELSE None
      /\ theirs = [prologue |-> theirs.prologue, psk |-> theirs.psk, key |-> theirs.key]
  BY <1>1 DEF Shake!HubSays, Shake!Handshake, Shake!BuildPrologue, Shake!CanonicalJson,
     Shake!DerivePsk
<1>3. /\ mine.says.prologue = <<hello, {<<"patterns", p>>, <<"suites", s>>}, mine.name>>
      /\ mine.says.psk = <<secret, hello>>
      /\ mine.name.pattern # "KKpsk0" => mine.says.key = None
      /\ mine.says = [prologue |-> mine.says.prologue, psk |-> mine.says.psk,
                      key |-> mine.says.key]
      /\ altered = (hello # hub.node \/ p # hub.patterns \/ s # hub.suites
                    \/ envelope # mine.name)
  BY <1>1 DEF Depends, MessagesInv, Mutual
<1> HIDE DEF theirs
<1>4. ASSUME mine.says = theirs PROVE ~ altered
  <2>1. /\ hello = hub.node /\ mine.name = envelope
        /\ {<<"patterns", p>>, <<"suites", s>>}
             = {<<"patterns", hub.patterns>>, <<"suites", hub.suites>>}
    BY <1>2, <1>3, <1>4
  <2>2. p = hub.patterns /\ s = hub.suites
    <3>1. /\ <<"patterns", p>> \in {<<"patterns", hub.patterns>>, <<"suites", hub.suites>>}
          /\ <<"suites", s>> \in {<<"patterns", hub.patterns>>, <<"suites", hub.suites>>}
      BY <2>1
    <3>2. QED
      BY <3>1
  <2>3. QED
    BY <1>3, <2>1, <2>2
<1>5. ASSUME ~ altered, secret = "right", mine.name.pattern # "KKpsk0"
      PROVE  mine.says = theirs
  BY <1>2, <1>3, <1>5
<1>6. QED
  BY <1>4, <1>5 DEF theirs

(* What a connect begins with.                                             *)
LEMMA AttemptKeeps ==
  ASSUME ShakeInv, NEW again \in BOOLEAN, Shake!Attempt(again)
  PROVE  ShakeInv'
BY DEF ShakeInv, ShakeTypes, MessagesInv, Mutual, Shake!FailsForReason, Shake!Attempt,
   Shake!storeVars

(* A handshake that ends in a failure leaves nothing to agree on.          *)
LEMMA FailureKeeps ==
  ASSUME ShakeInv, NEW why, Shake!Fails(why), UNCHANGED <<hub, hubPassword, pins>>,
         psks' \in [Nodes -> {None, "right", "wrong"}], kkRefused' \in BOOLEAN,
         altered' \in BOOLEAN, stale' \in BOOLEAN, Shake!FailsForReason'
  PROVE  ShakeInv'
BY DEF ShakeInv, ShakeTypes, MessagesInv, Mutual, Shake!Fails

LEMMA HelloKeeps ==
  ASSUME Shake!HandshakeAssumption, ShakeInv, Shake!ReadHello
  PROVE  ShakeInv'
<1>1. PICK node \in Nodes \cup {None} :
        /\ hello' = node /\ altered' = (node # hub.node)
        /\ IF node = None THEN Shake!Fails("no_node")
           ELSE shaking' = "offer" /\ UNCHANGED <<mine, envelope, answer, shakeError>>
  BY DEF Shake!ReadHello
<1>2. shaking = "hello" /\ UNCHANGED <<hub, hubPassword, pins, psks, kkRefused, stale>>
  BY DEF Shake!ReadHello, Shake!storeVars
<1>3. CASE node = None
  <2>1. Shake!Fails("no_node")
    BY <1>1, <1>3
  <2>2. Shake!FailsForReason'
    BY <2>1 DEF Shake!Fails, Shake!FailsForReason
  <2>3. QED
    BY <1>1, <1>2, <2>1, <2>2, FailureKeeps DEF ShakeInv, ShakeTypes
<1>4. CASE node # None
  BY <1>1, <1>2, <1>4 DEF ShakeInv, ShakeTypes, MessagesInv, Mutual, Shake!FailsForReason
<1>5. QED
  BY <1>3, <1>4

LEMMA StartKeeps ==
  ASSUME Shake!HandshakeAssumption, ShakeInv, Shake!Start
  PROVE  ShakeInv'
<1> DEFINE pinned == IF xxOnly THEN None ELSE pins[hello]
           name(p, s) == Shake!SelectNoiseOptions(p, s, pinned)
<1>0. PICK secret : secret = IF psks[hello] # None THEN psks[hello]
                             ELSE IF hubPassword THEN "right" ELSE "wrong"
  OBVIOUS
<1>1. PICK p \in SUBSET Shake!Patterns, s \in SUBSET Shake!Range(Suites) :
        /\ offer' \in {Shake!Offers(p, s), Shake!Reverse(Shake!Offers(p, s))}
        /\ altered => p = hub.patterns /\ s = hub.suites
        /\ altered' = (altered \/ p # hub.patterns \/ s # hub.suites)
        /\ IF name(p, s) = None
           THEN Shake!Fails("no_options") /\ UNCHANGED <<psks, stale>>
           ELSE /\ mine' = [name |-> name(p, s),
                      says |-> Shake!Handshake(hello, offer', name(p, s),
                                   Shake!DerivePsk(secret, hello), pins[hello])]
                /\ psks' \in {psks, [psks EXCEPT ![hello] = secret]}
                /\ stale' = (hubPassword /\ secret = "wrong")
                /\ envelope' = name(p, s)
                /\ shaking' = "sent" /\ UNCHANGED <<answer, shakeError>>
  BY <1>0 DEF Shake!Start
<1>2. /\ shaking = "offer" /\ UNCHANGED <<hub, hubPassword, pins, kkRefused, hello>>
      /\ hello \in Nodes /\ secret \in {"right", "wrong"}
      /\ altered = (hello # hub.node) /\ altered' \in BOOLEAN
  BY <1>0, <1>1 DEF Shake!Start, ShakeInv, ShakeTypes
<1>3. CASE name(p, s) = None
  <2>1. Shake!Fails("no_options") /\ UNCHANGED <<psks, stale>>
    BY <1>1, <1>3
  <2>2. Shake!FailsForReason'
    BY <2>1 DEF Shake!Fails, Shake!FailsForReason
  <2>3. QED
    BY <1>1, <1>2, <2>1, <2>2, FailureKeeps DEF ShakeInv, ShakeTypes
<1>4. CASE name(p, s) # None
  <2> DEFINE nm == name(p, s)
  <2>1. /\ nm = [pattern |-> nm.pattern, suite |-> nm.suite]
        /\ nm.pattern \in p /\ FirstOf(nm.suite, s)
    BY <1>4, ChoiceIsFirst
  <2>2. /\ mine' = [name |-> nm, says |-> Shake!Handshake(hello, offer', nm,
                               Shake!DerivePsk(secret, hello), pins[hello])]
        /\ psks' \in {psks, [psks EXCEPT ![hello] = secret]}
        /\ stale' = (hubPassword /\ secret = "wrong")
        /\ envelope' = nm /\ shaking' = "sent" /\ UNCHANGED <<answer, shakeError>>
    BY <1>1, <1>4
  <2> HIDE DEF nm, name
  <2>3. /\ mine'.name = nm
        /\ mine'.says.prologue = <<hello, Shake!Range(offer'), nm>>
        /\ mine'.says.psk = <<secret, hello>>
        /\ nm.pattern # "KKpsk0" => mine'.says.key = None
        /\ mine'.says = [prologue |-> mine'.says.prologue, psk |-> mine'.says.psk,
                         key |-> mine'.says.key]
    BY <2>2 DEF Shake!Handshake, Shake!BuildPrologue, Shake!CanonicalJson, Shake!DerivePsk
  <2>4. Depends(p, s, secret)'
    <3>1. altered' = (hello' # hub.node' \/ p # hub.patterns' \/ s # hub.suites'
                        \/ envelope' # mine'.name)
      BY <1>1, <1>2, <2>2, <2>3
    <3>2. secret = "wrong" => stale' \/ ~ hubPassword'
      BY <1>2, <2>2 DEF ShakeInv, ShakeTypes
    <3>3. QED
      BY <1>1, <1>2, <2>1, <2>3, <3>1, <3>2 DEF Depends
  <2>5. ShakeTypes'
    <3>1. psks' \in [Nodes -> {None, "right", "wrong"}]
      BY <1>2, <2>2 DEF ShakeInv, ShakeTypes
    <3>2. stale' \in BOOLEAN
      BY <2>2 DEF ShakeInv, ShakeTypes
    <3>3. QED
      BY <1>2, <2>2, <3>1, <3>2 DEF ShakeInv, ShakeTypes
  <2>6. MessagesInv'
    <3>1. \E p1 \in SUBSET Shake!Patterns, s1 \in SUBSET Shake!Range(Suites),
             secret1 \in {"right", "wrong"} : Depends(p1, s1, secret1)'
      BY <1>2, <2>4
    <3>2. shakeError' = "none"
      BY <1>2, <2>2 DEF ShakeInv, MessagesInv
    <3>3. QED
      BY <2>1, <2>2, <2>3, <3>1, <3>2 DEF MessagesInv, Mutual
  <2>7. Shake!FailsForReason'
    BY <2>6, <2>2 DEF MessagesInv, Shake!FailsForReason
  <2>8. QED
    BY <2>5, <2>6, <2>7 DEF ShakeInv
<1>5. QED
  BY <1>3, <1>4

LEMMA EnvelopeKeeps ==
  ASSUME ShakeInv, Shake!EnvelopeChanges
  PROVE  ShakeInv'
<1> USE DEF Shake!storeVars, Shake!heardVars
<1>1. PICK x \in Shake!Range(Suites) \ {envelope.suite} :
        envelope' = [envelope EXCEPT !.suite = x]
  BY DEF Shake!EnvelopeChanges
<1>2. PICK p \in SUBSET Shake!Patterns, s \in SUBSET Shake!Range(Suites),
           secret \in {"right", "wrong"} : Depends(p, s, secret)
  BY DEF ShakeInv, MessagesInv, Mutual, Shake!EnvelopeChanges
<1>3. envelope = [pattern |-> envelope.pattern, suite |-> envelope.suite]
  BY DEF ShakeInv, MessagesInv, Mutual, Shake!EnvelopeChanges
<1>4. /\ envelope' = [pattern |-> envelope.pattern, suite |-> x]
      /\ envelope'.pattern = envelope.pattern /\ envelope'.suite = x
  BY <1>1, <1>3
<1>5. envelope' # mine.name
  BY <1>1, <1>2, <1>4 DEF Depends, Shake!EnvelopeChanges
<1>6. Depends(p, s, secret)'
  BY <1>2, <1>5 DEF Depends, Shake!EnvelopeChanges
<1>7. ShakeTypes' /\ Shake!FailsForReason'
  BY DEF ShakeInv, ShakeTypes, MessagesInv, Shake!FailsForReason, Shake!EnvelopeChanges
<1>8. MessagesInv'
  <2>1. shaking = "sent" /\ UNCHANGED <<shaking, mine, shakeError>>
    BY DEF Shake!EnvelopeChanges
  <2>2. \E p1 \in SUBSET Shake!Patterns, s1 \in SUBSET Shake!Range(Suites),
           secret1 \in {"right", "wrong"} : Depends(p1, s1, secret1)'
    BY <1>6
  <2>3. QED
    BY <1>4, <2>1, <2>2 DEF ShakeInv, MessagesInv, Mutual
<1>9. QED
  BY <1>7, <1>8 DEF ShakeInv

LEMMA AnswerKeeps ==
  ASSUME ShakeInv, Shake!HubAnswers
  PROVE  ShakeInv'
<1> USE DEF Shake!storeVars, Shake!heardVars
<1>1. \A p, s, secret : Depends(p, s, secret) => Depends(p, s, secret)'
  BY DEF Depends, Shake!HubAnswers
<1>2. ShakeTypes' /\ Shake!FailsForReason'
  BY DEF ShakeInv, ShakeTypes, MessagesInv, Shake!FailsForReason, Shake!HubAnswers
<1>3. answer' = Shake!HubSays(envelope)'
  BY DEF Shake!HubAnswers, Shake!HubSays, Shake!Handshake, Shake!Offers, Shake!DerivePsk,
     Shake!BuildPrologue, Shake!CanonicalJson
<1>4. QED
  BY <1>1, <1>2, <1>3 DEF ShakeInv, MessagesInv, Mutual, Shake!HubAnswers

(* The hub refuses a handshake of XX, whose first message says nothing yet, *)
(* only if the offer or the envelope was altered.                          *)
LEMMA ClosedKeeps ==
  ASSUME ShakeInv, Shake!HubCloses
  PROVE  ShakeInv'
<1> USE DEF Shake!storeVars, Shake!heardVars
<1>1. PICK refuses \in BOOLEAN :
        /\ refuses => shaking = "sent" /\ ~ Shake!HubAccepts
        /\ Shake!Fails(IF refuses THEN "refused" ELSE "dropped")
        /\ kkRefused' = (refuses /\ mine.name.pattern = "KKpsk0")
  BY DEF Shake!HubCloses
<1>2. /\ hello \in Nodes /\ shaking \in {"sent", "answer"}
      /\ UNCHANGED <<hub, hubPassword, pins, altered, stale>>
      /\ psks' = [psks EXCEPT ![hello] = None]
  BY DEF Shake!HubCloses, ShakeInv, ShakeTypes
<1>3. ASSUME refuses, ~ kkRefused' PROVE altered
  <2>1. PICK p \in SUBSET Shake!Patterns, s \in SUBSET Shake!Range(Suites),
             secret \in {"right", "wrong"} : Depends(p, s, secret)
    BY <1>2 DEF ShakeInv, MessagesInv, Mutual
  <2>2. mine.name.pattern # "KKpsk0" /\ ~ Shake!HubAccepts
    BY <1>1, <1>3
  <2>3. ASSUME ~ altered PROVE FALSE
    <3>1. /\ envelope = mine.name /\ p = hub.patterns /\ s = hub.suites
          /\ mine.name.pattern \in p /\ mine.name.suite \in s
      BY <2>1, <2>3 DEF Depends, FirstOf
    <3>2. QED
      BY <2>2, <3>1 DEF Shake!HubAccepts
  <2>4. QED
    BY <2>3
<1>4. Shake!FailsForReason'
  BY <1>1, <1>2, <1>3 DEF Shake!FailsForReason, Shake!Fails
<1>5. /\ psks' \in [Nodes -> {None, "right", "wrong"}] /\ kkRefused' \in BOOLEAN
      /\ altered' \in BOOLEAN /\ stale' \in BOOLEAN
  BY <1>1, <1>2 DEF ShakeInv, ShakeTypes
<1>6. QED
  BY <1>1, <1>2, <1>4, <1>5, FailureKeeps

(* An answer that is not this handshake's has one of three reasons.        *)
LEMMA UnauthenticKeeps ==
  ASSUME ShakeInv, Shake!Unauthentic
  PROVE  ShakeInv'
<1> USE DEF Shake!storeVars, Shake!heardVars
<1>1. /\ hello \in Nodes /\ shaking = "answer" /\ answer = Shake!HubSays(envelope)
      /\ answer # mine.says /\ Shake!Fails("unauthentic")
      /\ kkRefused' = (mine.name.pattern = "KKpsk0")
      /\ UNCHANGED <<hub, hubPassword, pins, hello, altered, stale>>
      /\ psks' = [psks EXCEPT ![hello] = None]
  BY DEF Shake!Unauthentic, ShakeInv, ShakeTypes, MessagesInv
<1>2. PICK p \in SUBSET Shake!Patterns, s \in SUBSET Shake!Range(Suites),
           secret \in {"right", "wrong"} : Depends(p, s, secret)
  BY <1>1 DEF ShakeInv, MessagesInv, Mutual
<1>3. ASSUME ~ kkRefused' PROVE altered \/ ~ hubPassword \/ stale
  <2>1. altered \/ secret # "right"
    <3>1. Mutual /\ ShakeTypes /\ MessagesInv
      BY <1>1 DEF ShakeInv, Mutual
    <3>2. QED
      BY <1>1, <1>2, <1>3, <3>1, BothSaySame
  <2>2. QED
    BY <1>2, <2>1 DEF Depends
<1>4. psks'[hello] = None /\ psks' \in [Nodes -> {None, "right", "wrong"}]
  BY <1>1 DEF ShakeInv, ShakeTypes
<1>5. Shake!FailsForReason'
  BY <1>1, <1>3, <1>4 DEF Shake!FailsForReason, Shake!Fails
<1>6. kkRefused' \in BOOLEAN /\ altered' \in BOOLEAN /\ stale' \in BOOLEAN
  BY <1>1 DEF ShakeInv, ShakeTypes
<1>7. QED
  BY <1>1, <1>4, <1>5, <1>6, FailureKeeps

LEMMA KeyChangedKeeps ==
  ASSUME ShakeInv, Shake!KeyChanged
  PROVE  ShakeInv'
<1> USE DEF Shake!storeVars, Shake!heardVars
<1>1. Shake!Fails("key_changed") /\ UNCHANGED <<hub, hubPassword, pins>>
  BY DEF Shake!KeyChanged
<1>2. /\ psks' \in [Nodes -> {None, "right", "wrong"}] /\ kkRefused' \in BOOLEAN
      /\ altered' \in BOOLEAN /\ stale' \in BOOLEAN
  BY DEF Shake!KeyChanged, ShakeInv, ShakeTypes
<1>3. Shake!FailsForReason'
  BY <1>1 DEF Shake!FailsForReason, Shake!KeyChanged, Shake!Fails
<1>4. QED
  BY <1>1, <1>2, <1>3, FailureKeeps

LEMMA FinishKeeps ==
  ASSUME ShakeInv, Shake!Finish
  PROVE  ShakeInv'
<1> USE DEF Shake!storeVars, Shake!heardVars
<1>1. PICK heard \in BOOLEAN : hub' = [hub EXCEPT !.knows = hub.knows \/ heard]
  BY DEF Shake!Finish
<1>2. /\ hub' \in Hubs /\ hub'.node = hub.node /\ hub'.key = hub.key
      /\ hub'.patterns = hub.patterns /\ hub'.suites = hub.suites
  BY <1>1 DEF ShakeInv, ShakeTypes, Hubs
<1>3. /\ shaking = "answer" /\ shaking' = "done" /\ answer = mine.says /\ hello \in Nodes
      /\ pins' = [pins EXCEPT ![hello] = hub.key]
      /\ UNCHANGED <<hubPassword, psks, kkRefused, hello, offer, mine, envelope, answer, shakeError,
                     altered, stale>>
  BY DEF Shake!Finish, ShakeInv, ShakeTypes
<1>4. hub.key \in HubKeys
  BY DEF ShakeInv, ShakeTypes, Hubs
<1>5. pins' \in [Nodes -> HubKeys \cup {None}] /\ pins'[hello] = hub.key
  BY <1>3, <1>4 DEF ShakeInv, ShakeTypes
<1>6. ShakeTypes'
  BY <1>2, <1>3, <1>5 DEF ShakeInv, ShakeTypes
<1>7. Shake!HubSays(envelope)' = Shake!HubSays(envelope)
  BY <1>2, <1>3 DEF Shake!HubSays, Shake!Handshake, Shake!Offers, Shake!DerivePsk,
     Shake!BuildPrologue, Shake!CanonicalJson
<1>8. \A p, s, secret : Depends(p, s, secret) => Depends(p, s, secret)'
  BY <1>2, <1>3 DEF Depends
<1>9. MessagesInv'
  BY <1>2, <1>3, <1>5, <1>7, <1>8 DEF ShakeInv, MessagesInv, Mutual
<1>10. Shake!FailsForReason'
  BY <1>3, <1>9 DEF Shake!FailsForReason, MessagesInv
<1>11. QED
  BY <1>6, <1>9, <1>10 DEF ShakeInv

(* A session runs over the pattern, the suite and the offer of both ends,   *)
(* with the hub's key pinned; and a connect that fails to authenticate says *)
(* why: for any suites, nodes and keys, whatever was cached or pinned and   *)
(* whatever was made of the clear messages (select_noise_options,           *)
(* build_prologue, start and continue_handshake).                           *)
THEOREM BothEndsAgree ==
  ASSUME Shake!HandshakeAssumption
  PROVE  Shake!HandshakeSpec => []Shake!NegotiationAgrees
<1>1. Shake!HandshakeInit => ShakeInv
  <2> SUFFICES ASSUME Shake!HandshakeInit PROVE ShakeInv
    OBVIOUS
  <2> USE DEF Shake!HandshakeInit
  <2>1. ShakeTypes
    BY DEF ShakeTypes, Hubs
  <2>2. MessagesInv /\ Shake!FailsForReason
    BY DEF MessagesInv, Mutual, Shake!FailsForReason
  <2>3. QED
    BY <2>1, <2>2 DEF ShakeInv
<1>2. ShakeInv /\ [Shake!HandshakeNext]_(Shake!handshakeVars) => ShakeInv'
  <2> SUFFICES ASSUME ShakeInv, [Shake!HandshakeNext]_(Shake!handshakeVars)
               PROVE  ShakeInv'
    OBVIOUS
  <2>1. CASE UNCHANGED Shake!handshakeVars
    <3> USE <2>1 DEF Shake!handshakeVars
    <3>1. \A p, s, secret : Depends(p, s, secret) => Depends(p, s, secret)'
      BY DEF Depends
    <3>2. Shake!HubSays(envelope)' = Shake!HubSays(envelope)
      BY DEF Shake!HubSays, Shake!Handshake, Shake!Offers, Shake!DerivePsk,
         Shake!BuildPrologue, Shake!CanonicalJson
    <3>3. QED
      BY <3>1, <3>2 DEF ShakeInv, ShakeTypes, MessagesInv, Mutual, Shake!FailsForReason
  <2>2. CASE Shake!Connect \/ Shake!ThenXX
    BY <2>2, AttemptKeeps DEF Shake!Connect, Shake!ThenXX
  <2>3. QED
    BY <2>1, <2>2, HelloKeeps, StartKeeps, EnvelopeKeeps, AnswerKeeps, ClosedKeeps,
       UnauthenticKeeps, KeyChangedKeeps, FinishKeeps DEF Shake!HandshakeNext
<1>3. ShakeInv => Shake!NegotiationAgrees
  <2> SUFFICES ASSUME ShakeInv PROVE Shake!NegotiationAgrees
    OBVIOUS
  <2>1. ASSUME shaking = "done" PROVE Shake!NoDowngrade
    <3>1. PICK p \in SUBSET Shake!Patterns, s \in SUBSET Shake!Range(Suites),
               secret \in {"right", "wrong"} : Depends(p, s, secret)
      BY <2>1 DEF ShakeInv, MessagesInv, Mutual
    <3>2. ~ altered
      <4>1. Mutual /\ ShakeTypes /\ MessagesInv
        BY <2>1 DEF ShakeInv, Mutual
      <4>2. mine.says = Shake!HubSays(envelope)
        BY <2>1, <4>1 DEF MessagesInv
      <4>3. QED
        BY <3>1, <4>1, <4>2, BothSaySame
    <3>3. /\ hello = hub.node /\ envelope = mine.name
          /\ mine.name.pattern \in hub.patterns /\ FirstOf(mine.name.suite, hub.suites)
      BY <3>1, <3>2 DEF Depends
    <3>4. ASSUME NEW i \in DOMAIN Suites, Suites[i] \in hub.suites
          PROVE  \E j \in 1 .. i : Suites[j] = mine.name.suite
      BY <3>3, <3>4 DEF FirstOf, Shake!HandshakeAssumption
    <3>5. QED
      BY <2>1, <3>2, <3>3, <3>4 DEF Shake!NoDowngrade, ShakeInv, MessagesInv
  <2>2. QED
    BY <2>1 DEF Shake!NegotiationAgrees, Shake!NoDowngrade, ShakeInv
<1>4. QED
  BY <1>1, <1>2, <1>3, PTL DEF Shake!HandshakeSpec

-----------------------------------------------------------------------------
(* NoiseFraming: a bad network made a channel that delivers what was sent. *)

Bytes == Nat \X Nat
FramedMessages == [payload : Seq(Bytes), isJson : BOOLEAN]
Markers == {"json", "binary", "first_json", "first_binary", "more", "last"}
Frames == [marker : Markers, body : Seq(Bytes), counter : Nat]

Pieces(m) == Framing!ChunkCount(Len(m.payload))

\* The k-th frame of message m, whose first has counter c.
FrameAt(m, k, c) ==
  [marker |-> Framing!Marker((k - 1) * ChunkSize, Len(m.payload), m.isJson),
   body |-> Framing!Chunk(m.payload, k - 1),
   counter |-> c + k - 1]

(* Where each message's counters begin; the next message's begin at nonce. *)
Begins(base) ==
  /\ base \in [1 .. Len(encoded) + 1 -> Nat]
  /\ base[1] = 0 /\ base[Len(encoded) + 1] = nonce
  /\ \A i \in 1 .. Len(encoded) : base[i + 1] = base[i] + Pieces(encoded[i])
  /\ \A i \in 1 .. Len(encoded), j \in 1 .. Len(encoded) + 1 :
       i < j => base[i] + Pieces(encoded[i]) <= base[j]

Genuine(f, base) ==
  \E i \in 1 .. Len(encoded) : \E k \in 1 .. Pieces(encoded[i]) : f = FrameAt(encoded[i], k, base[i])

(* The receiver has the messages before the one whose frames it expects,   *)
(* and of that the chunks it has taken.                                    *)
Between(base) == open = Framing!Closed /\ expected = base[Len(delivered) + 1]

Within(base) ==
  /\ Len(delivered) < Len(encoded)
  /\ \E k \in 1 .. Pieces(encoded[Len(delivered) + 1]) - 1 :
       LET m == encoded[Len(delivered) + 1] IN
       /\ expected = base[Len(delivered) + 1] + k
       /\ open = [buffer |-> SubSeq(m.payload, 1, k * ChunkSize), isJson |-> m.isJson, there |-> TRUE]

FramingTypes ==
  /\ encoded \in Seq(FramedMessages) /\ delivered \in Seq(FramedMessages)
  /\ transit \in Seq(Frames) /\ nonce \in Nat /\ expected \in Nat
  /\ framingFailed \in BOOLEAN

Received(base) ==
  /\ Len(delivered) <= Len(encoded)
  /\ ~ framingFailed => Between(base) \/ Within(base)

FramingInv ==
  /\ FramingTypes
  /\ \E base : /\ Begins(base) /\ Received(base)
               /\ \A i \in 1 .. Len(transit) : Genuine(transit[i], base)

LEMMA FramingConstants == ChunkSize \in Nat \ {0} /\ MaxReassembly \in Nat /\ MaxLength \in Nat /\ MaxMessages \in Nat
  BY ComponentAssumptions DEF Framing!FramingAssumption

(* The chunks of a message cover it, the last of them not in vain.         *)
LEMMA ChunksCover ==
  ASSUME NEW length \in Nat
  PROVE  /\ Framing!ChunkCount(length) \in Nat \ {0}
         /\ length <= ChunkSize => Framing!ChunkCount(length) = 1
         /\ length > ChunkSize =>
              /\ Framing!ChunkCount(length) >= 2
              /\ (Framing!ChunkCount(length) - 1) * ChunkSize < length
              /\ length <= Framing!ChunkCount(length) * ChunkSize
<1> DEFINE n == (length + ChunkSize - 1) \div ChunkSize
<1>1. CASE length <= ChunkSize
  BY <1>1, FramingConstants DEF Framing!ChunkCount
<1>2. CASE length > ChunkSize
  <2>1. /\ n \in Int /\ n * ChunkSize <= length + ChunkSize - 1
        /\ length + ChunkSize - 1 < (n + 1) * ChunkSize
    BY FramingConstants
  <2>2. Framing!ChunkCount(length) = n
    BY <1>2, FramingConstants DEF Framing!ChunkCount
  <2> HIDE DEF n
  <2>3. n >= 2
    BY <1>2, <2>1, FramingConstants
  <2>. QED
    BY <1>2, <2>1, <2>2, <2>3, FramingConstants
<1>. QED
  BY <1>1, <1>2, FramingConstants

(* A chunk is a part of the payload.                                       *)
LEMMA ChunkIsPart ==
  ASSUME NEW m \in FramedMessages, NEW k \in 1 .. Pieces(m)
  PROVE  /\ (k - 1) * ChunkSize \in Nat /\ k * ChunkSize \in Nat
         /\ (k - 1) * ChunkSize <= Len(m.payload)
         /\ k * ChunkSize = (k - 1) * ChunkSize + ChunkSize
         /\ k < Pieces(m) => /\ k * ChunkSize < Len(m.payload) /\ Len(m.payload) > ChunkSize
                             /\ Framing!Chunk(m.payload, k - 1) =
                                  SubSeq(m.payload, (k - 1) * ChunkSize + 1, k * ChunkSize)
         /\ k = Pieces(m) => /\ Len(m.payload) <= k * ChunkSize
                             /\ Framing!Chunk(m.payload, k - 1) =
                                  SubSeq(m.payload, (k - 1) * ChunkSize + 1, Len(m.payload))
<1>1. Len(m.payload) \in Nat /\ Pieces(m) \in Nat \ {0}
  BY ChunksCover DEF FramedMessages, Pieces
<1>2. k \in Nat /\ k - 1 \in Nat /\ k <= Pieces(m)
  BY <1>1
<1>3. \A x \in Nat : x * ChunkSize \in Nat
  BY FramingConstants
<1>4. (k - 1) * ChunkSize \in Nat /\ k * ChunkSize \in Nat /\ k * ChunkSize = (k - 1) * ChunkSize + ChunkSize
  BY <1>2, <1>3, FramingConstants
<1>5. Len(m.payload) > ChunkSize =>
        /\ (Pieces(m) - 1) * ChunkSize < Len(m.payload) /\ Len(m.payload) <= Pieces(m) * ChunkSize
  BY <1>1, ChunksCover DEF Pieces
<1>6. Len(m.payload) <= ChunkSize => Pieces(m) = 1
  BY <1>1, ChunksCover DEF Pieces
<1>7. k < Pieces(m) => k * ChunkSize <= (Pieces(m) - 1) * ChunkSize
  BY <1>1, <1>2, FramingConstants
<1>8. (k - 1) * ChunkSize <= (Pieces(m) - 1) * ChunkSize
  BY <1>1, <1>2, FramingConstants
<1>9. k < Pieces(m) => k * ChunkSize < Len(m.payload) /\ Len(m.payload) > ChunkSize
  BY <1>1, <1>2, <1>4, <1>5, <1>6, <1>7, FramingConstants
<1>10. k = Pieces(m) => Len(m.payload) <= k * ChunkSize
  BY <1>1, <1>2, <1>5, <1>6, FramingConstants
<1>11. (k - 1) * ChunkSize <= Len(m.payload)
  BY <1>1, <1>2, <1>4, <1>5, <1>6, <1>8, FramingConstants
<1>12. Framing!Chunk(m.payload, k - 1) =
         SubSeq(m.payload, (k - 1) * ChunkSize + 1,
                IF k * ChunkSize < Len(m.payload) THEN k * ChunkSize ELSE Len(m.payload))
  <2>1. (k - 1) + 1 = k
    BY <1>2
  <2>. QED
    BY <2>1 DEF Framing!Chunk
<1>13. k = Pieces(m) => ~ (k * ChunkSize < Len(m.payload))
  BY <1>1, <1>4, <1>10
<1>. QED
  BY <1>4, <1>9, <1>10, <1>11, <1>12, <1>13

(* How the frames of a message are marked.                                 *)
LEMMA MarkedSo ==
  ASSUME NEW m \in FramedMessages, NEW k \in 1 .. Pieces(m)
  PROVE  LET marker == Framing!Marker((k - 1) * ChunkSize, Len(m.payload), m.isJson) IN
         /\ Pieces(m) = 1 => marker = IF m.isJson THEN "json" ELSE "binary"
         /\ Pieces(m) # 1 /\ k = 1 => marker = IF m.isJson THEN "first_json" ELSE "first_binary"
         /\ k # 1 /\ k # Pieces(m) => marker = "more"
         /\ k # 1 /\ k = Pieces(m) => marker = "last"
         /\ marker \in Markers
<1>1. Len(m.payload) \in Nat /\ Pieces(m) \in Nat \ {0}
  BY ChunksCover DEF FramedMessages, Pieces
<1>2. Pieces(m) = 1 <=> Len(m.payload) <= ChunkSize
  <2>1. /\ Len(m.payload) <= ChunkSize => Pieces(m) = 1
        /\ Len(m.payload) > ChunkSize => Pieces(m) >= 2
    BY <1>1, ChunksCover DEF Pieces
  <2>. QED
    BY <1>1, <2>1, FramingConstants
<1>3. k - 1 \in Nat /\ (k = 1 <=> (k - 1) * ChunkSize = 0)
  BY FramingConstants
<1>6. /\ (k - 1) * ChunkSize \in Nat /\ k * ChunkSize \in Nat
      /\ k * ChunkSize = (k - 1) * ChunkSize + ChunkSize
      /\ k < Pieces(m) => k * ChunkSize < Len(m.payload)
      /\ k = Pieces(m) => Len(m.payload) <= k * ChunkSize
  BY ChunkIsPart
<1>7. k # Pieces(m) => k < Pieces(m)
  BY <1>1
<1>4. k # Pieces(m) => (k - 1) * ChunkSize < Len(m.payload) - ChunkSize
  BY <1>1, <1>6, <1>7, FramingConstants
<1>5. k = Pieces(m) => (k - 1) * ChunkSize >= Len(m.payload) - ChunkSize
  BY <1>1, <1>6, FramingConstants
<1>. QED
  BY <1>1, <1>2, <1>3, <1>4, <1>5, <1>6, FramingConstants DEF Framing!Marker, Markers, FramedMessages

(* What a message, and the list of those encrypted, consist of.            *)
LEMMA MessageSo ==
  ASSUME NEW m \in FramedMessages
  PROVE  /\ m.payload \in Seq(Bytes) /\ m.isJson \in BOOLEAN /\ Len(m.payload) \in Nat
         /\ Pieces(m) \in Nat \ {0}
         /\ m = [payload |-> m.payload, isJson |-> m.isJson]
<1>1. m.payload \in Seq(Bytes) /\ m.isJson \in BOOLEAN /\ m = [payload |-> m.payload, isJson |-> m.isJson]
  BY DEF FramedMessages
<1>2. Len(m.payload) \in Nat
  BY <1>1
<1>3. Pieces(m) \in Nat \ {0}
  BY <1>2, ChunksCover DEF Pieces
<1>. QED
  BY <1>1, <1>2, <1>3

LEMMA EncodedSo ==
  ASSUME FramingTypes
  PROVE  /\ Len(encoded) \in Nat /\ Len(delivered) \in Nat
         /\ \A n \in 1 .. Len(encoded) : encoded[n] \in FramedMessages /\ Pieces(encoded[n]) \in Nat \ {0}
<1>1. encoded \in Seq(FramedMessages) /\ delivered \in Seq(FramedMessages)
  BY DEF FramingTypes
<1>2. \A n \in 1 .. Len(encoded) : encoded[n] \in FramedMessages
  BY <1>1
<1>. QED
  BY <1>1, <1>2, MessageSo


LEMMA PartsJoin ==
  ASSUME NEW s \in Seq(Bytes), NEW x \in 0 .. Len(s), NEW y \in x .. Len(s)
  PROVE  SubSeq(s, 1, x) \o SubSeq(s, x + 1, y) = SubSeq(s, 1, y)
<1>1. 1 \in 1 .. Len(s) + 1 /\ x \in 1 - 1 .. Len(s)
  OBVIOUS
<1>. QED
  BY <1>1, ConcatAdjacentSubSeq

(* A genuine frame that comes at its turn continues the message expected;  *)
(* what it carries is what follows.                                        *)
LEMMA NextInTurn ==
  ASSUME FramingTypes, NEW base, Begins(base), Len(delivered) <= Len(encoded),
         NEW i \in 1 .. Len(encoded), NEW k \in 1 .. Pieces(encoded[i]),
         base[i] + k - 1 = expected, base[Len(delivered) + 1] <= expected,
         \/ expected = base[Len(delivered) + 1]
         \/ /\ Len(delivered) < Len(encoded)
            /\ expected < base[Len(delivered) + 1] + Pieces(encoded[Len(delivered) + 1])
  PROVE  i = Len(delivered) + 1 /\ expected = base[Len(delivered) + 1] + k - 1
<1> DEFINE d == Len(delivered) + 1
<1>1. /\ Len(encoded) \in Nat /\ Len(delivered) \in Nat /\ d \in 1 .. Len(encoded) + 1
      /\ \A n \in 1 .. Len(encoded) : encoded[n] \in FramedMessages
  BY EncodedSo
<1>2. \A n \in 1 .. Len(encoded) : Pieces(encoded[n]) \in Nat \ {0}
  BY EncodedSo
<1>3. base[i] \in Nat /\ base[d] \in Nat /\ Pieces(encoded[i]) \in Nat \ {0} /\ i \in Nat /\ k \in Nat
  <2>1. \A x \in 1 .. Len(encoded) + 1 : base[x] \in Nat
    BY DEF Begins
  <2>2. i \in 1 .. Len(encoded) + 1 /\ i \in Nat
    BY <1>1
  <2>3. Pieces(encoded[i]) \in Nat \ {0} /\ k \in Nat
    BY <1>2
  <2>. QED
    BY <1>1, <2>1, <2>2, <2>3
<1>4. CASE i < d
  <2>1. base[i] + Pieces(encoded[i]) <= base[d]
    BY <1>1, <1>4 DEF Begins
  <2>. QED
    BY <1>3, <2>1
<1>5. CASE d < i
  <2>1. d \in 1 .. Len(encoded) /\ base[d] + Pieces(encoded[d]) <= base[i]
    BY <1>1, <1>3, <1>5 DEF Begins
  <2>. QED
    BY <1>2, <1>3, <2>1
<1>6. CASE i = d
  BY <1>3, <1>6
<1>. QED
  BY <1>1, <1>3, <1>4, <1>5, <1>6

(* What decrypting a genuine frame does: the next message is handed on,    *)
(* the channel fails, or nothing is seen of it yet.                        *)
LEMMA DecryptsInOrder ==
  ASSUME FramingTypes, NEW base, Begins(base), Received(base), ~ framingFailed,
         NEW f, Genuine(f, base), Framing!DecryptFrame(f), UNCHANGED <<encoded, nonce>>
  PROVE  /\ Received(base)'
         /\ delivered' \in Seq(FramedMessages) /\ expected' \in Nat /\ framingFailed' \in BOOLEAN
         /\ \/ UNCHANGED <<delivered, framingFailed>>
            \/ UNCHANGED delivered /\ framingFailed' = TRUE
            \/ /\ Len(delivered) < Len(encoded) /\ UNCHANGED framingFailed
               /\ delivered' = Append(delivered, encoded[Len(delivered) + 1])
<1> DEFINE Done ==
      /\ Received(base)'
      /\ delivered' \in Seq(FramedMessages) /\ expected' \in Nat /\ framingFailed' \in BOOLEAN
      /\ \/ UNCHANGED <<delivered, framingFailed>>
         \/ UNCHANGED delivered /\ framingFailed' = TRUE
         \/ /\ Len(delivered) < Len(encoded) /\ UNCHANGED framingFailed
            /\ delivered' = Append(delivered, encoded[Len(delivered) + 1])
<1>00. PICK i \in 1 .. Len(encoded) : \E k \in 1 .. Pieces(encoded[i]) : f = FrameAt(encoded[i], k, base[i])
  BY DEF Genuine
<1>0. PICK k \in 1 .. Pieces(encoded[i]) : f = FrameAt(encoded[i], k, base[i])
  BY <1>00
<1> DEFINE m == encoded[i]
           d == Len(delivered)
           L == Len(m.payload)
<1>1. /\ Len(encoded) \in Nat /\ d \in Nat /\ d <= Len(encoded)
      /\ m \in FramedMessages /\ m.payload \in Seq(Bytes) /\ m.isJson \in BOOLEAN /\ L \in Nat
      /\ m = [payload |-> m.payload, isJson |-> m.isJson]
  <2>1. m \in FramedMessages /\ Len(encoded) \in Nat /\ d \in Nat
    BY EncodedSo
  <2>. QED
    BY <2>1, MessageSo DEF Received
<1>2. Pieces(m) \in Nat \ {0} /\ k \in Nat /\ k >= 1 /\ k <= Pieces(m)
  BY <1>1, MessageSo
<1>3. /\ f.marker = Framing!Marker((k - 1) * ChunkSize, L, m.isJson)
      /\ f.body = Framing!Chunk(m.payload, k - 1) /\ f.counter = base[i] + k - 1
  BY <1>0 DEF FrameAt
<1>4. ASSUME Framing!Fail, expected' \in Nat PROVE Done
  BY <1>1, <1>4 DEF Framing!Fail, FramingTypes, Received
<1>5. CASE f.counter # expected
  BY <1>4, <1>5 DEF Framing!DecryptFrame, FramingTypes
<1>6. CASE f.counter = expected
  <2>1. /\ expected' = expected + 1 /\ expected' \in Nat
        /\ Framing!TakeComplete(f) \/ Framing!TakeFirst(f) \/ Framing!TakeMore(f) \/ Framing!TakeLast(f)
    BY <1>6 DEF Framing!DecryptFrame, FramingTypes
  <2>2. (k - 1) * ChunkSize \in Nat /\ k * ChunkSize \in Nat /\ (k - 1) * ChunkSize <= L
    BY <1>1, <1>2, ChunkIsPart
  <2>3. (base[d + 1] \in Nat /\ base[d + 2] \in Nat /\ base[i] \in Nat) \/ d = Len(encoded)
    <3>1. \A x \in 1 .. Len(encoded) + 1 : base[x] \in Nat
      BY DEF Begins
    <3>2. /\ i \in 1 .. Len(encoded) + 1 /\ d + 1 \in 1 .. Len(encoded) + 1
          /\ d = Len(encoded) \/ d + 2 \in 1 .. Len(encoded) + 1
      BY <1>1
    <3>. QED
      BY <3>1, <3>2
  <2>4. ASSUME i = d + 1, f.marker \in {"json", "binary", "last"}, k = Pieces(m),
               Framing!HandOn(m.payload, m.isJson), expected' = base[d + 1] + k
        PROVE  Done
    <3>1. d < Len(encoded) /\ base[d + 2] = base[d + 1] + Pieces(m)
      BY <1>1, <2>4 DEF Begins
    <3>2. /\ delivered' = Append(delivered, m) /\ open' = Framing!Closed /\ UNCHANGED framingFailed
          /\ m = encoded[d + 1]
      BY <1>1, <2>4 DEF Framing!HandOn
    <3>3. delivered' \in Seq(FramedMessages) /\ Len(delivered') = d + 1
      BY <1>1, <3>2 DEF FramingTypes
    <3>4. Received(base)'
      BY <1>1, <2>4, <3>1, <3>2, <3>3 DEF Received, Between
    <3>. QED
      BY <2>1, <3>1, <3>2, <3>3, <3>4 DEF FramingTypes
  <2>5. ASSUME i = d + 1, k < Pieces(m), expected' = base[d + 1] + k,
               Framing!Buffer(SubSeq(m.payload, 1, k * ChunkSize), m.isJson)
        PROVE  Done
    <3>1. CASE Framing!Fail
      BY <1>4, <2>1, <3>1
    <3>2. CASE ~ Framing!Fail
      <4>1. /\ open' = [buffer |-> SubSeq(m.payload, 1, k * ChunkSize), isJson |-> m.isJson, there |-> TRUE]
            /\ UNCHANGED <<delivered, framingFailed>>
        BY <2>5, <3>2 DEF Framing!Buffer
      <4>2. d < Len(encoded) /\ k \in 1 .. Pieces(m) - 1
        BY <1>1, <1>2, <2>5
      <4>3. Within(base)'
        BY <2>5, <4>1, <4>2 DEF Within
      <4>. QED
        BY <1>1, <2>1, <4>1, <4>3 DEF Received, FramingTypes
    <3>. QED
      BY <3>1, <3>2
  <2>6. CASE Between(base)
    <3>1. i = d + 1 /\ k = 1
      <4>1. Len(delivered) <= Len(encoded) /\ k \in 1 .. Pieces(encoded[i])
        BY <1>0, <1>1
      <4>2. base[i] + k - 1 = expected
        BY <1>3, <1>6
      <4>3. expected = base[Len(delivered) + 1] /\ base[Len(delivered) + 1] \in Nat
        BY <1>1, <2>6 DEF Between, FramingTypes
      <4>4. i = Len(delivered) + 1 /\ expected = base[Len(delivered) + 1] + k - 1
        BY <4>1, <4>2, <4>3, NextInTurn
      <4>. QED
        BY <1>2, <4>3, <4>4
    <3>2. ~ open.there
      BY <2>6 DEF Between, Framing!Closed
    <3>3. expected' = base[d + 1] + k /\ (k - 1) * ChunkSize + 1 = 1
      BY <2>1, <2>6, <3>1, FramingConstants DEF Between
    <3>4. CASE Pieces(m) = 1
      <4>1. f.marker = IF m.isJson THEN "json" ELSE "binary"
        BY <1>1, <1>3, <3>4, MarkedSo
      <4>2. f.body = m.payload
        <5>1. f.body = SubSeq(m.payload, 1, L)
          BY <1>1, <1>3, <3>1, <3>3, <3>4, ChunkIsPart
        <5>. QED
          BY <1>1, <5>1, SubSeqFull
      <4>3. Framing!HandOn(f.body, f.marker = "json")
        BY <2>1, <3>2, <4>1 DEF Framing!TakeComplete, Framing!TakeFirst, Framing!TakeMore, Framing!TakeLast
      <4>4. (f.marker = "json") = m.isJson
        BY <1>1, <4>1
      <4>5. Framing!HandOn(m.payload, m.isJson)
        BY <4>2, <4>3, <4>4
      <4>. QED
        BY <2>4, <3>1, <3>3, <3>4, <4>1, <4>5
    <3>5. CASE Pieces(m) # 1
      <4>1. f.marker = IF m.isJson THEN "first_json" ELSE "first_binary"
        BY <1>1, <1>3, <3>1, <3>5, MarkedSo
      <4>2. k < Pieces(m)
        BY <1>2, <3>1, <3>5
      <4>3. f.body = SubSeq(m.payload, 1, k * ChunkSize)
        BY <1>1, <1>3, <3>3, <4>2, ChunkIsPart
      <4>4. Framing!Buffer(f.body, f.marker = "first_json")
        BY <2>1, <3>2, <4>1 DEF Framing!TakeComplete, Framing!TakeFirst, Framing!TakeMore, Framing!TakeLast
      <4>5. (f.marker = "first_json") = m.isJson
        BY <1>1, <4>1
      <4>. QED
        BY <2>5, <3>1, <3>3, <4>2, <4>3, <4>4, <4>5
    <3>. QED
      BY <3>4, <3>5
  <2>7. CASE Within(base)
    <3>1. PICK j \in 1 .. Pieces(encoded[d + 1]) - 1 :
            /\ expected = base[d + 1] + j
            /\ open = [buffer |-> SubSeq(encoded[d + 1].payload, 1, j * ChunkSize),
                       isJson |-> encoded[d + 1].isJson, there |-> TRUE]
      BY <2>7 DEF Within
    <3>2. d < Len(encoded) /\ encoded[d + 1] \in FramedMessages
      BY <1>1, <2>7 DEF Within, FramingTypes
    <3>3. Pieces(encoded[d + 1]) \in Nat
      BY <3>2, MessageSo
    <3>4. i = d + 1 /\ k = j + 1
      <4>1. d + 1 \in 1 .. Len(encoded) + 1 /\ base \in [1 .. Len(encoded) + 1 -> Nat]
        BY <1>1, <3>2 DEF Begins
      <4>2. base[d + 1] \in Nat /\ j \in Nat /\ j < Pieces(encoded[d + 1])
        BY <3>3, <4>1
      <4>3. /\ Len(delivered) <= Len(encoded) /\ k \in 1 .. Pieces(encoded[i])
            /\ base[i] + k - 1 = expected
        BY <1>0, <1>1, <1>3, <1>6
      <4>4. /\ Len(delivered) < Len(encoded) /\ base[Len(delivered) + 1] <= expected
            /\ expected < base[Len(delivered) + 1] + Pieces(encoded[Len(delivered) + 1])
        BY <3>1, <3>2, <3>3, <4>2
      <4>5. i = Len(delivered) + 1 /\ expected = base[Len(delivered) + 1] + k - 1
        BY <4>3, <4>4, NextInTurn
      <4>. QED
        BY <1>2, <3>1, <4>2, <4>5
    <3>5. /\ open.there = TRUE /\ open.isJson = m.isJson
          /\ open.buffer = SubSeq(m.payload, 1, (k - 1) * ChunkSize)
      <4>1. j = k - 1
        BY <3>3, <3>4
      <4>. QED
        BY <3>1, <3>4, <4>1
    <3>6. expected' = base[d + 1] + k
      <4>1. base \in [1 .. Len(encoded) + 1 -> Nat] /\ d + 1 \in 1 .. Len(encoded) + 1
        BY <1>1, <3>2 DEF Begins
      <4>2. base[d + 1] \in Nat
        BY <4>1
      <4>. QED
        <5>1. expected' = expected + 1
          BY <2>1
        <5>2. j \in Int /\ expected = base[d + 1] + j /\ k = j + 1
          BY <3>1, <3>3, <3>4
        <5>. QED
          BY <4>2, <5>1, <5>2
    <3>7. CASE k = Pieces(m)
      <4>1. f.marker = "last"
        BY <1>1, <1>3, <3>3, <3>4, <3>7, MarkedSo
      <4>2. open.buffer \o f.body = m.payload
        <5>1. f.body = SubSeq(m.payload, (k - 1) * ChunkSize + 1, L)
          BY <1>1, <1>3, <3>7, ChunkIsPart
        <5>2. SubSeq(m.payload, 1, (k - 1) * ChunkSize) \o SubSeq(m.payload, (k - 1) * ChunkSize + 1, L)
                = SubSeq(m.payload, 1, L)
          <6>1. (k - 1) * ChunkSize \in 0 .. L /\ L \in (k - 1) * ChunkSize .. L
            BY <1>1, <2>2
          <6>. QED
            BY <1>1, <6>1, PartsJoin
        <5>. QED
          BY <1>1, <3>5, <5>1, <5>2, SubSeqFull
      <4>3. Framing!Fail \/ Framing!HandOn(m.payload, m.isJson)
        BY <2>1, <3>5, <4>1, <4>2
           DEF Framing!TakeComplete, Framing!TakeFirst, Framing!TakeMore, Framing!TakeLast
      <4>. QED
        BY <1>4, <2>1, <2>4, <3>4, <3>6, <3>7, <4>1, <4>3
    <3>8. CASE k # Pieces(m)
      <4>1. f.marker = "more" /\ k < Pieces(m)
        <5>1. k # 1
          BY <3>4
        <5>2. m \in FramedMessages /\ k \in 1 .. Pieces(m)
          BY <1>1
        <5>3. f.marker = "more"
          BY <1>3, <3>8, <5>1, <5>2, MarkedSo
        <5>. QED
          BY <1>2, <3>8, <5>3
      <4>2. open.buffer \o f.body = SubSeq(m.payload, 1, k * ChunkSize)
        <5>1. f.body = SubSeq(m.payload, (k - 1) * ChunkSize + 1, k * ChunkSize)
          BY <1>1, <1>3, <4>1, ChunkIsPart
        <5>2. k * ChunkSize < L /\ (k - 1) * ChunkSize <= k * ChunkSize
          <6>1. k * ChunkSize < L /\ k * ChunkSize = (k - 1) * ChunkSize + ChunkSize
            BY <1>1, <4>1, ChunkIsPart
          <6>. QED
            BY <2>2, <6>1, FramingConstants
        <5>3. SubSeq(m.payload, 1, (k - 1) * ChunkSize) \o
                SubSeq(m.payload, (k - 1) * ChunkSize + 1, k * ChunkSize)
                = SubSeq(m.payload, 1, k * ChunkSize)
          <6>1. (k - 1) * ChunkSize \in 0 .. L /\ k * ChunkSize \in (k - 1) * ChunkSize .. L
            BY <1>1, <2>2, <5>2
          <6>. QED
            BY <1>1, <6>1, PartsJoin
        <5>. QED
          BY <3>5, <5>1, <5>3
      <4>3. Framing!Buffer(SubSeq(m.payload, 1, k * ChunkSize), m.isJson)
        BY <2>1, <3>5, <4>1, <4>2
           DEF Framing!TakeComplete, Framing!TakeFirst, Framing!TakeMore, Framing!TakeLast
      <4>. QED
        BY <2>5, <3>4, <3>6, <4>1, <4>3
    <3>. QED
      BY <3>7, <3>8
  <2>. QED
    BY <2>6, <2>7 DEF Received
<1>. QED
  BY <1>5, <1>6

LEMMA FramingStarts == ASSUME Framing!Init PROVE FramingInv
<1>0. <<>> \in Seq(FramedMessages) /\ <<>> \in Seq(Frames) /\ 0 \in Nat /\ FALSE \in BOOLEAN
  OBVIOUS
<1>1. FramingTypes
  BY <1>0 DEF Framing!Init, FramingTypes
<1>2. /\ encoded = <<>> /\ delivered = <<>> /\ transit = <<>> /\ nonce = 0 /\ expected = 0
      /\ open = Framing!Closed /\ framingFailed = FALSE
      /\ Len(encoded) = 0 /\ Len(delivered) = 0 /\ Len(transit) = 0
  BY DEF Framing!Init
<1>3. PICK base : base = [i \in 1 .. 1 |-> 0]
  OBVIOUS
<1>4. Begins(base)
  BY <1>2, <1>3 DEF Begins
<1>5. Received(base)
  BY <1>2, <1>3 DEF Received, Between
<1>. QED
  BY <1>1, <1>2, <1>4, <1>5 DEF FramingInv

(* What encrypt_message makes of a message.                                *)
LEMMA FramesAre ==
  ASSUME NEW m \in FramedMessages, nonce \in Nat
  PROVE  /\ Framing!FramesOf(m) \in Seq(Frames) /\ Len(Framing!FramesOf(m)) = Pieces(m)
         /\ \A k \in 1 .. Pieces(m) : Framing!FramesOf(m)[k] = FrameAt(m, k, nonce)
<1>1. Pieces(m) \in Nat
  BY MessageSo
<1>2. Framing!FramesOf(m) = [k \in 1 .. Pieces(m) |-> FrameAt(m, k, nonce)]
  BY DEF Framing!FramesOf, FrameAt, Pieces
<1>3. ASSUME NEW k \in 1 .. Pieces(m) PROVE FrameAt(m, k, nonce) \in Frames
  <2> DEFINE start == (k - 1) * ChunkSize
             body == Framing!Chunk(m.payload, k - 1)
  <2>1. /\ m.payload \in Seq(Bytes) /\ Len(m.payload) \in Nat /\ start \in Nat /\ k * ChunkSize \in Nat
        /\ start <= Len(m.payload)
    BY MessageSo, ChunkIsPart
  <2>2. PICK stop \in Nat : stop <= Len(m.payload) /\ body = SubSeq(m.payload, start + 1, stop)
    <3>1. CASE k < Pieces(m)
      BY <2>1, <3>1, ChunkIsPart
    <3>2. CASE k = Pieces(m)
      <4>1. body = SubSeq(m.payload, start + 1, Len(m.payload))
        BY <3>2, ChunkIsPart
      <4>2. Len(m.payload) <= Len(m.payload)
        BY <2>1
      <4>. QED
        BY <2>1, <4>1, <4>2
    <3>. QED
      BY <1>1, <3>1, <3>2
  <2> HIDE DEF start
  <2>3. \A i \in start + 1 .. stop : m.payload[i] \in Bytes
    BY <2>1, <2>2
  <2>4. SubSeq(m.payload, start + 1, stop) \in Seq(Bytes)
    BY <2>1, <2>2, <2>3, SubSeqProperties
  <2>5. body \in Seq(Bytes)
    BY <2>2, <2>4
  <2>6. Framing!Marker((k - 1) * ChunkSize, Len(m.payload), m.isJson) \in Markers
    BY MarkedSo
  <2>7. nonce + k - 1 \in Nat
    BY <1>1
  <2>. QED
    BY <2>5, <2>6, <2>7 DEF FrameAt, Frames
<1>. QED
  BY <1>1, <1>2, <1>3

LEMMA EncryptKeeps == ASSUME FramingInv, Framing!Encrypt PROVE FramingInv' /\ Framing!Channel!Send
<1>1. PICK length \in 0 .. MaxLength, isJson \in BOOLEAN :
        LET m == [payload |-> Framing!Payload(Len(encoded) + 1, length), isJson |-> isJson] IN
        /\ encoded' = Append(encoded, m)
        /\ transit' = transit \o Framing!FramesOf(m)
        /\ nonce' = nonce + Len(Framing!FramesOf(m))
  BY DEF Framing!Encrypt
<1> DEFINE n == Len(encoded)
           m == [payload |-> Framing!Payload(n + 1, length), isJson |-> isJson]
<1>2. /\ encoded' = Append(encoded, m)
      /\ transit' = transit \o Framing!FramesOf(m)
      /\ nonce' = nonce + Len(Framing!FramesOf(m))
  BY <1>1
<1>3. /\ n \in Nat /\ n + 1 \in 1 .. MaxMessages /\ length \in Nat
      /\ UNCHANGED <<expected, open, delivered, framingFailed>> /\ FramingTypes
  BY FramingConstants, EncodedSo DEF Framing!Encrypt, FramingInv
<1>4. m \in FramedMessages /\ m \in Framing!AllMessages
  <2>1. Framing!Payload(n + 1, length) \in Seq(Bytes)
    BY <1>3 DEF Framing!Payload, Bytes
  <2>2. Framing!Payload(n + 1, length) \in Framing!Payloads
    BY <1>3 DEF Framing!Payloads
  <2>. QED
    BY <2>1, <2>2 DEF FramedMessages, Framing!AllMessages
<1> HIDE DEF m
<1>5. /\ Framing!FramesOf(m) \in Seq(Frames) /\ Len(Framing!FramesOf(m)) = Pieces(m) /\ Pieces(m) \in Nat
      /\ \A k \in 1 .. Pieces(m) : Framing!FramesOf(m)[k] = FrameAt(m, k, nonce)
  BY <1>3, <1>4, FramesAre, MessageSo DEF FramingTypes
<1>6. Framing!Channel!Send
  BY <1>2, <1>3, <1>4 DEF Framing!Channel!Send
<1>7. /\ encoded' \in Seq(FramedMessages) /\ Len(encoded') = n + 1 /\ encoded'[n + 1] = m
      /\ \A i \in 1 .. n : encoded'[i] = encoded[i]
  <2>1. encoded \in Seq(FramedMessages)
    BY <1>3 DEF FramingTypes
  <2>. QED
    BY <1>2, <1>4, <2>1, AppendProperties
<1>8. /\ transit' \in Seq(Frames) /\ Len(transit') = Len(transit) + Pieces(m) /\ Len(transit) \in Nat
      /\ \A i \in 1 .. Len(transit) : transit'[i] = transit[i]
      /\ \A k \in 1 .. Pieces(m) : transit'[Len(transit) + k] = FrameAt(m, k, nonce)
  <2>1. transit \in Seq(Frames) /\ Len(transit) \in Nat
    BY <1>3 DEF FramingTypes
  <2> DEFINE new == Framing!FramesOf(m)
  <2>2. /\ new \in Seq(Frames) /\ transit' = transit \o new /\ Len(new) = Pieces(m) /\ Len(new) \in Nat
        /\ \A k \in 1 .. Pieces(m) : new[k] = FrameAt(m, k, nonce)
    BY <1>2, <1>5
  <2> HIDE DEF new
  <2>3. /\ transit' \in Seq(Frames) /\ Len(transit') = Len(transit) + Len(new)
        /\ \A i \in 1 .. Len(transit) + Len(new) :
             transit'[i] = IF i <= Len(transit) THEN transit[i] ELSE new[i - Len(transit)]
    BY <2>1, <2>2, ConcatProperties
  <2>. QED
    BY <2>1, <2>2, <2>3
<1>9. FramingTypes'
  BY <1>2, <1>3, <1>5, <1>7, <1>8 DEF FramingTypes
<1>10. PICK base : /\ Begins(base) /\ Received(base)
                   /\ \A i \in 1 .. Len(transit) : Genuine(transit[i], base)
  BY DEF FramingInv
<1>11. PICK after : after = [i \in 1 .. n + 2 |-> IF i <= n + 1 THEN base[i] ELSE nonce + Pieces(m)]
  OBVIOUS
<1>12. /\ base \in [1 .. n + 1 -> Nat] /\ base[1] = 0 /\ base[n + 1] = nonce
       /\ \A i \in 1 .. n : base[i + 1] = base[i] + Pieces(encoded[i])
       /\ \A i \in 1 .. n, j \in 1 .. n + 1 : i < j => base[i] + Pieces(encoded[i]) <= base[j]
  BY <1>10 DEF Begins
<1>13. /\ after \in [1 .. n + 2 -> Nat] /\ after[n + 2] = nonce + Pieces(m) /\ nonce \in Nat
       /\ \A i \in 1 .. n + 1 : after[i] = base[i]
  BY <1>3, <1>5, <1>11, <1>12 DEF FramingTypes
<1>14. Begins(after)'
  <2>1. /\ after \in [1 .. Len(encoded') + 1 -> Nat] /\ after[1] = 0
        /\ after[Len(encoded') + 1] = nonce'
    BY <1>2, <1>3, <1>5, <1>7, <1>12, <1>13
  <2>2. ASSUME NEW i \in 1 .. n + 1 PROVE after[i + 1] = after[i] + Pieces(encoded'[i])
    <3>1. CASE i <= n
      BY <1>3, <1>7, <1>12, <1>13, <3>1
    <3>2. CASE i = n + 1
      BY <1>3, <1>7, <1>12, <1>13, <3>2
    <3>. QED
      BY <1>3, <3>1, <3>2
  <2>3. ASSUME NEW i \in 1 .. n + 1, NEW j \in 1 .. n + 2, i < j
        PROVE  after[i] + Pieces(encoded'[i]) <= after[j]
    <3>1. CASE i = n + 1
      BY <1>3, <1>7, <1>12, <1>13, <2>3, <3>1
    <3>2. CASE i <= n /\ j <= n + 1
      BY <1>3, <1>7, <1>12, <1>13, <2>3, <3>2
    <3>3. CASE i <= n /\ j = n + 2
      <4>1. base[i] + Pieces(encoded[i]) <= base[n + 1]
        BY <1>3, <1>12, <3>3
      <4>2. i \in 1 .. n /\ encoded'[i] = encoded[i] /\ after[i] = base[i] /\ base[i] \in Nat
        BY <1>3, <1>7, <1>12, <1>13, <3>3
      <4>3. Pieces(encoded[i]) \in Nat
        BY <1>3, <4>2, EncodedSo
      <4>. QED
        BY <1>5, <1>12, <1>13, <3>3, <4>1, <4>2, <4>3
    <3>. QED
      BY <1>3, <3>1, <3>2, <3>3
  <2>. QED
    BY <1>3, <1>7, <2>1, <2>2, <2>3 DEF Begins, Pieces
<1>15. Received(after)'
  <2>1. Len(delivered) \in Nat /\ Len(delivered) <= n
    BY <1>3, <1>10, EncodedSo DEF Received
  <2>2. after[Len(delivered) + 1] = base[Len(delivered) + 1]
    BY <1>3, <1>13, <2>1
  <2>3. Between(base) => Between(after)'
    BY <1>3, <2>2 DEF Between
  <2>4. ASSUME Within(base) PROVE Within(after)'
    <3>1. Len(delivered) < n /\ encoded'[Len(delivered) + 1] = encoded[Len(delivered) + 1]
      BY <1>3, <1>7, <2>1, <2>4 DEF Within
    <3>. QED
      <4>1. PICK k \in 1 .. Pieces(encoded[Len(delivered) + 1]) - 1 :
              /\ expected = base[Len(delivered) + 1] + k
              /\ open = [buffer |-> SubSeq(encoded[Len(delivered) + 1].payload, 1, k * ChunkSize),
                         isJson |-> encoded[Len(delivered) + 1].isJson, there |-> TRUE]
        BY <2>4 DEF Within
      <4>2. /\ expected' = expected /\ open' = open /\ delivered' = delivered
            /\ Len(delivered) < Len(encoded')
        BY <1>3, <1>7, <2>1, <3>1
      <4>. QED
        BY <2>2, <3>1, <4>1, <4>2 DEF Within, Pieces
  <2>. QED
    BY <1>3, <1>7, <1>10, <2>1, <2>3, <2>4 DEF Received
<1>16. ASSUME NEW i \in 1 .. Len(transit') PROVE Genuine(transit[i], after)'
  <2>1. CASE i <= Len(transit)
    <3>1. i \in 1 .. Len(transit) /\ transit'[i] = transit[i]
      BY <1>8, <2>1
    <3>2. PICK e \in 1 .. n : \E k \in 1 .. Pieces(encoded[e]) : transit[i] = FrameAt(encoded[e], k, base[e])
      BY <1>10, <3>1 DEF Genuine
    <3>3. PICK k \in 1 .. Pieces(encoded[e]) : transit[i] = FrameAt(encoded[e], k, base[e])
      BY <3>2
    <3>4. e \in 1 .. Len(encoded') /\ encoded'[e] = encoded[e] /\ after[e] = base[e]
      BY <1>3, <1>7, <1>13
    <3>5. k \in 1 .. Pieces(encoded'[e]) /\ transit'[i] = FrameAt(encoded'[e], k, after[e])
      BY <3>1, <3>3, <3>4
    <3>. QED
      BY <3>4, <3>5 DEF Genuine, Pieces, FrameAt
  <2>2. CASE i > Len(transit)
    <3>1. PICK k \in 1 .. Pieces(m) : i = Len(transit) + k
      <4>1. i - Len(transit) \in 1 .. Pieces(m) /\ i = Len(transit) + (i - Len(transit))
        BY <1>5, <1>8, <2>2
      <4>. QED
        BY <4>1
    <3>2. n + 1 \in 1 .. Len(encoded') /\ encoded'[n + 1] = m /\ after[n + 1] = nonce
      BY <1>3, <1>7, <1>12, <1>13
    <3>3. k \in 1 .. Pieces(encoded'[n + 1]) /\ transit'[i] = FrameAt(encoded'[n + 1], k, after[n + 1])
      BY <1>8, <3>1, <3>2
    <3>. QED
      BY <3>2, <3>3 DEF Genuine, Pieces, FrameAt
  <2>. QED
    BY <1>8, <2>1, <2>2
<1>. QED
  BY <1>6, <1>9, <1>14, <1>15, <1>16 DEF FramingInv

(* A frame taken from those on their way, wherever it stood.               *)
LEMMA TakingKeeps ==
  ASSUME FramingInv, ~ framingFailed, NEW n \in 1 .. Len(transit), Framing!DecryptFrame(transit[n]),
         UNCHANGED <<encoded, nonce>>, transit' \in Seq(Frames),
         \A i \in 1 .. Len(transit') : \E j \in 1 .. Len(transit) : transit'[i] = transit[j]
  PROVE  /\ FramingInv'
         /\ Framing!Channel!Next \/ UNCHANGED <<encoded, delivered, framingFailed>>
<1>1. PICK base : /\ Begins(base) /\ Received(base)
                  /\ \A i \in 1 .. Len(transit) : Genuine(transit[i], base)
  BY DEF FramingInv
<1>2. FramingTypes /\ encoded' = encoded /\ nonce' = nonce
  BY DEF FramingInv
<1>3. Genuine(transit[n], base)
  BY <1>1
<1>4. /\ Received(base)'
      /\ delivered' \in Seq(FramedMessages) /\ expected' \in Nat /\ framingFailed' \in BOOLEAN
      /\ \/ UNCHANGED <<delivered, framingFailed>>
         \/ UNCHANGED delivered /\ framingFailed' = TRUE
         \/ /\ Len(delivered) < Len(encoded) /\ UNCHANGED framingFailed
            /\ delivered' = Append(delivered, encoded[Len(delivered) + 1])
  BY <1>1, <1>2, <1>3, DecryptsInOrder
<1>5. FramingTypes'
  BY <1>2, <1>4 DEF FramingTypes
<1>6. Begins(base)'
  BY <1>1, <1>2 DEF Begins, Pieces
<1>7. ASSUME NEW i \in 1 .. Len(transit') PROVE Genuine(transit[i], base)'
  <2>1. PICK j \in 1 .. Len(transit) : transit'[i] = transit[j]
    OBVIOUS
  <2>2. Genuine(transit[j], base)
    BY <1>1
  <2>. QED
    BY <1>2, <2>1, <2>2 DEF Genuine, Pieces, FrameAt
<1>8. Framing!Channel!Next \/ UNCHANGED <<encoded, delivered, framingFailed>>
  <2>1. CASE UNCHANGED <<delivered, framingFailed>>
    BY <1>2, <2>1
  <2>2. CASE UNCHANGED delivered /\ framingFailed' = TRUE
    BY <1>2, <2>2 DEF Framing!Channel!Next, Framing!Channel!Break
  <2>3. CASE /\ Len(delivered) < Len(encoded) /\ UNCHANGED framingFailed
             /\ delivered' = Append(delivered, encoded[Len(delivered) + 1])
    BY <1>2, <2>3 DEF Framing!Channel!Next, Framing!Channel!Deliver
  <2>. QED
    BY <1>4, <2>1, <2>2, <2>3
<1>. QED
  BY <1>4, <1>5, <1>6, <1>7, <1>8 DEF FramingInv

LEMMA WithoutIsPart ==
  ASSUME NEW s \in Seq(Frames), NEW n \in 1 .. Len(s)
  PROVE  /\ Framing!Without(s, n) \in Seq(Frames)
         /\ \A i \in 1 .. Len(Framing!Without(s, n)) : \E j \in 1 .. Len(s) : Framing!Without(s, n)[i] = s[j]
<1> DEFINE a == SubSeq(s, 1, n - 1)
           b == SubSeq(s, n + 1, Len(s))
<1>1. Len(s) \in Nat /\ n \in Nat /\ \A i \in 1 .. Len(s) : s[i] \in Frames
  OBVIOUS
<1>2. /\ a \in Seq(Frames) /\ Len(a) = n - 1
      /\ \A i \in 1 .. n - 1 : a[i] = s[i]
  <2>1. 1 \in Int /\ n - 1 \in Int /\ \A i \in 1 .. n - 1 : s[i] \in Frames
    BY <1>1
  <2>2. /\ a \in Seq(Frames) /\ Len(a) = IF 1 <= n - 1 THEN (n - 1) - 1 + 1 ELSE 0
        /\ \A i \in 1 .. (n - 1) - 1 + 1 : a[i] = s[1 + i - 1]
    BY <2>1, SubSeqProperties
  <2>. QED
    BY <1>1, <2>2
<1>3. /\ b \in Seq(Frames) /\ Len(b) = Len(s) - n
      /\ \A i \in 1 .. Len(s) - n : b[i] = s[n + i]
  <2>1. n + 1 \in Int /\ Len(s) \in Int /\ \A i \in n + 1 .. Len(s) : s[i] \in Frames
    BY <1>1
  <2>2. /\ b \in Seq(Frames) /\ Len(b) = IF n + 1 <= Len(s) THEN Len(s) - (n + 1) + 1 ELSE 0
        /\ \A i \in 1 .. Len(s) - (n + 1) + 1 : b[i] = s[n + 1 + i - 1]
    BY <2>1, SubSeqProperties
  <2>. QED
    BY <1>1, <2>2
<1> HIDE DEF a, b
<1>4. Framing!Without(s, n) = a \o b
  BY DEF Framing!Without, a, b
<1>5. /\ a \o b \in Seq(Frames) /\ Len(a \o b) = Len(a) + Len(b)
      /\ \A i \in 1 .. Len(a) + Len(b) : (a \o b)[i] = IF i <= Len(a) THEN a[i] ELSE b[i - Len(a)]
  BY <1>2, <1>3, ConcatProperties
<1>6. ASSUME NEW i \in 1 .. Len(a \o b) PROVE \E j \in 1 .. Len(s) : (a \o b)[i] = s[j]
  <2>1. CASE i <= n - 1
    <3>1. i \in 1 .. Len(s) /\ (a \o b)[i] = s[i]
      BY <1>1, <1>2, <1>3, <1>5, <2>1
    <3>. QED
      BY <3>1
  <2>2. CASE i > n - 1
    <3>1. /\ i - Len(a) \in 1 .. Len(s) - n /\ (a \o b)[i] = b[i - Len(a)]
      <4>1. i \in Nat /\ i <= Len(a) + Len(b) /\ Len(a) \in Nat /\ Len(b) \in Nat
        BY <1>1, <1>2, <1>3, <1>5
      <4>2. ~ (i <= Len(a)) /\ i \in 1 .. Len(a) + Len(b)
        BY <1>1, <1>2, <2>2, <4>1
      <4>3. (a \o b)[i] = b[i - Len(a)]
        BY <1>5, <4>2
      <4>. QED
        BY <1>1, <1>3, <4>1, <4>2, <4>3
    <3>2. i + 1 \in 1 .. Len(s) /\ n + (i - Len(a)) = i + 1
      BY <1>1, <1>2, <3>1
    <3>3. (a \o b)[i] = s[i + 1]
      BY <1>3, <3>1, <3>2
    <3>. QED
      BY <3>2, <3>3
  <2>. QED
    BY <1>1, <1>2, <1>3, <1>5, <2>1, <2>2
<1>. QED
  BY <1>4, <1>5, <1>6

LEMMA FramingKeeps ==
  ASSUME FramingInv, Framing!Next
  PROVE  /\ FramingInv'
         /\ Framing!Channel!Next \/ UNCHANGED <<encoded, delivered, framingFailed>>
<1>1. transit \in Seq(Frames) /\ Len(transit) \in Nat
  BY DEF FramingInv, FramingTypes
<1>2. CASE Framing!Encrypt
  BY <1>2, EncryptKeeps DEF Framing!Channel!Next
<1>3. CASE Framing!Receive
  <2>1. /\ ~ framingFailed /\ transit # <<>> /\ transit' = Tail(transit)
        /\ Framing!DecryptFrame(Head(transit)) /\ UNCHANGED <<encoded, nonce>>
    BY <1>3 DEF Framing!Receive
  <2>2. /\ Head(transit) = transit[1] /\ 1 \in 1 .. Len(transit)
    BY <1>1, <2>1
  <2>3. /\ transit' \in Seq(Frames) /\ Len(transit') = Len(transit) - 1
        /\ \A i \in 1 .. Len(transit') : transit'[i] = transit[i + 1]
    BY <1>1, <2>1, HeadTailProperties
  <2>4. \A i \in 1 .. Len(transit') : \E j \in 1 .. Len(transit) : transit'[i] = transit[j]
    <3>1. \A i \in 1 .. Len(transit') : i + 1 \in 1 .. Len(transit)
      BY <1>1, <2>3
    <3>. QED
      BY <2>3, <3>1
  <2>. QED
    BY <2>1, <2>2, <2>3, <2>4, TakingKeeps
<1>4. CASE Framing!Overtake
  <2>1. PICK n \in 2 .. Len(transit) : /\ transit' = Framing!Without(transit, n)
                                       /\ Framing!DecryptFrame(transit[n])
    BY <1>4 DEF Framing!Overtake
  <2>2. ~ framingFailed /\ UNCHANGED <<encoded, nonce>> /\ n \in 1 .. Len(transit)
    BY <1>1, <1>4 DEF Framing!Overtake
  <2>3. /\ transit' \in Seq(Frames)
        /\ \A i \in 1 .. Len(transit') : \E j \in 1 .. Len(transit) : transit'[i] = transit[j]
    BY <1>1, <2>1, <2>2, WithoutIsPart
  <2>. QED
    BY <2>1, <2>2, <2>3, TakingKeeps
<1>5. CASE Framing!Repeat
  <2>1. /\ ~ framingFailed /\ transit # <<>> /\ transit' = transit
        /\ Framing!DecryptFrame(Head(transit)) /\ UNCHANGED <<encoded, nonce>>
    BY <1>5 DEF Framing!Repeat
  <2>2. /\ Head(transit) = transit[1] /\ 1 \in 1 .. Len(transit)
    BY <1>1, <2>1
  <2>3. /\ transit' \in Seq(Frames)
        /\ \A i \in 1 .. Len(transit') : \E j \in 1 .. Len(transit) : transit'[i] = transit[j]
    BY <1>1, <2>1
  <2>. QED
    BY <2>1, <2>2, <2>3, TakingKeeps
<1>6. CASE Framing!Lose
  <2>1. PICK n \in DOMAIN transit : transit' = Framing!Without(transit, n)
    BY <1>6 DEF Framing!Lose
  <2>2. /\ UNCHANGED <<encoded, nonce, expected, open, delivered, framingFailed>>
        /\ n \in 1 .. Len(transit)
    BY <1>1, <1>6 DEF Framing!Lose
  <2>3. /\ transit' \in Seq(Frames)
        /\ \A i \in 1 .. Len(transit') : \E j \in 1 .. Len(transit) : transit'[i] = transit[j]
    BY <1>1, <2>1, <2>2, WithoutIsPart
  <2>4. PICK base : /\ Begins(base) /\ Received(base)
                    /\ \A i \in 1 .. Len(transit) : Genuine(transit[i], base)
    BY DEF FramingInv
  <2>5. FramingTypes'
    BY <2>2, <2>3 DEF FramingInv, FramingTypes
  <2>6. Begins(base)' /\ Received(base)'
    BY <2>2, <2>4 DEF Begins, Received, Between, Within, Pieces
  <2>7. ASSUME NEW i \in 1 .. Len(transit') PROVE Genuine(transit[i], base)'
    <3>1. PICK j \in 1 .. Len(transit) : transit'[i] = transit[j]
      BY <2>3
    <3>2. Genuine(transit[j], base)
      BY <2>4
    <3>. QED
      BY <2>2, <3>1, <3>2 DEF Genuine, Pieces, FrameAt
  <2>. QED
    BY <2>2, <2>5, <2>6, <2>7 DEF FramingInv
<1>. QED
  BY <1>2, <1>3, <1>4, <1>5, <1>6 DEF Framing!Next

LEMMA FramingRests == ASSUME FramingInv, UNCHANGED Framing!framingVars PROVE FramingInv'
<1>1. UNCHANGED <<encoded, transit, nonce, expected, open, delivered, framingFailed>>
  BY DEF Framing!framingVars
<1>2. PICK base : /\ Begins(base) /\ Received(base)
                  /\ \A i \in 1 .. Len(transit) : Genuine(transit[i], base)
  BY DEF FramingInv
<1>3. FramingTypes'
  BY <1>1 DEF FramingInv, FramingTypes
<1>4. Begins(base)' /\ Received(base)'
  BY <1>1, <1>2 DEF Begins, Received, Between, Within, Pieces
<1>5. \A i \in 1 .. Len(transit') : Genuine(transit[i], base)'
  BY <1>1, <1>2 DEF Genuine, Pieces, FrameAt
<1>. QED
  BY <1>3, <1>4, <1>5 DEF FramingInv

-----------------------------------------------------------------------------
(* The whole: its components share no step, so that what holds of each by  *)
(* its own specification holds of all of them together.                    *)

LEMMA SendsIsAComponent == TransportSpec => Sends!Init /\ [][Sends!Next]_(Sends!sendsVars)
<1>1. TransportInit => Sends!Init
  BY DEF TransportInit
<1>2. [TransportNext]_TransportVars => [Sends!Next]_(Sends!sendsVars)
  BY DEF TransportNext, TransportVars, sendsVars, Sends!sendsVars,
         Sends!sendVars, Sends!channelVars
<1>3. QED
  BY <1>1, <1>2, PTL DEF TransportSpec

LEMMA StoreIsAComponent == TransportSpec => Store!Spec
<1>1. TransportInit => Store!Init
  BY DEF TransportInit
<1>2. [TransportNext]_TransportVars => [Store!Next]_(Store!storeVars)
  BY DEF TransportNext, TransportVars, storeVars, Store!storeVars,
         Store!procVars
<1>3. QED
  BY <1>1, <1>2, PTL DEF TransportSpec, Store!Spec

LEMMA CacheIsAComponent == TransportSpec => Cache!InventoryCacheSpec
<1>1. TransportInit => Cache!InventoryCacheInit
  BY DEF TransportInit
<1>2. [TransportNext]_TransportVars => [Cache!InventoryCacheNext]_(Cache!cacheVars)
  BY DEF TransportNext, TransportVars, cacheVars, Cache!cacheVars
<1>3. QED
  BY <1>1, <1>2, PTL DEF TransportSpec, Cache!InventoryCacheSpec

LEMMA ShakeIsAComponent == TransportSpec => Shake!HandshakeSpec
<1>1. TransportInit => Shake!HandshakeInit
  BY DEF TransportInit
<1>2. [TransportNext]_TransportVars => [Shake!HandshakeNext]_(Shake!handshakeVars)
  BY DEF TransportNext, TransportVars, shakeVars, Shake!handshakeVars
<1>3. QED
  BY <1>1, <1>2, PTL DEF TransportSpec, Shake!HandshakeSpec

(* Whatever else goes on, the hub receives whole messages only, in order   *)
(* (send_detached).                                                        *)
THEOREM WholeMessagesOnly == TransportSpec => []SendsAreWhole
<1>1. Sends!Init /\ [][Sends!Next]_(Sends!sendsVars) => []Sends!SendsAreWhole
  BY OnlyWholeMessages, ComponentAssumptions
<1>2. QED
  BY <1>1, SendsIsAComponent, PTL DEF SendsAreWhole

(* What is kept on disk stays whole: the store of keys and pins            *)
(* (noise_store.rs) and the cache of inventories (inventory.rs).           *)
THEOREM DiskStaysWhole == TransportSpec => []StoreAgrees
<1>1. Store!Spec => []Store!StoreAgrees
  BY FolderAgrees, ComponentAssumptions
<1>2. Cache!InventoryCacheSpec => []Cache!CacheAgrees
  BY CacheKeepsWhole, ComponentAssumptions
<1>3. QED
  BY <1>1, <1>2, StoreIsAComponent, CacheIsAComponent, PTL DEF StoreAgrees

(* Both ends choose as one, and a connect says why its handshake failed    *)
(* (build_prologue, select_noise_options).                                 *)
THEOREM NegotiationsAgree == TransportSpec => []NegotiationAgrees
<1>1. Shake!HandshakeSpec => []Shake!NegotiationAgrees
  BY BothEndsAgree, ComponentAssumptions
<1>2. QED
  BY <1>1, ShakeIsAComponent, PTL DEF NegotiationAgrees

(* What decrypting hands on are the messages encrypted, whole, in order    *)
(* and once, whatever is lost, repeated or overtaken, and however long the *)
(* messages and the chunks are (encrypt_message, decrypt_frame): the       *)
(* framing implements MessageChannel.                                      *)
THEOREM MessagesArriveInOrder == TransportSpec => DeliversInOrder
<1>1. TransportInit => FramingInv /\ Framing!Channel!Init
  BY FramingStarts DEF TransportInit, Framing!Init, Framing!Channel!Init
<1>2. [TransportNext]_TransportVars => [Framing!Next]_(Framing!framingVars)
  BY DEF TransportNext, TransportVars, framingVars, Framing!framingVars
<1>3. FramingInv /\ [Framing!Next]_(Framing!framingVars) => FramingInv'
  BY FramingKeeps, FramingRests
<1>4. FramingInv /\ [TransportNext]_TransportVars
      => [component = "framing" => Framing!Channel!Next]_<<encoded, delivered, framingFailed>>
  <2>1. ASSUME FramingInv, Framing!Next
        PROVE  [component = "framing" => Framing!Channel!Next]_<<encoded, delivered, framingFailed>>
    BY <2>1, FramingKeeps
  <2>2. ASSUME UNCHANGED Framing!framingVars
        PROVE  [component = "framing" => Framing!Channel!Next]_<<encoded, delivered, framingFailed>>
    BY <2>2 DEF Framing!framingVars
  <2>. QED
    BY <1>2, <2>1, <2>2
<1>. QED
  BY <1>1, <1>2, <1>3, <1>4, PTL DEF TransportSpec, DeliversInOrder
=============================================================================
