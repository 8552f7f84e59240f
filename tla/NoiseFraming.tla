---------------------------- MODULE NoiseFraming ----------------------------
(***************************************************************************)
(* NoiseSession of src/noise.rs, and the use NoiseChannel::receive makes   *)
(* of it: a message longer than a chunk is cut into frames, each encrypted *)
(* under the next counter, and put together again by the receiver.         *)
(*                                                                         *)
(* Between the two the frames may be lost, repeated or reordered, as a     *)
(* broker or a retried poll can.  The cipher is the library's: a frame     *)
(* opens under its own counter only, and one that does not open ends the   *)
(* session.                                                                *)
(***************************************************************************)
EXTENDS Integers, Sequences

CONSTANTS
  ChunkSize,      \* NOISE_CHUNK_SIZE
  MaxReassembly,  \* NOISE_MAX_REASSEMBLY
  MaxLength,      \* bound: length of a message
  MaxMessages     \* bound: messages sent

FramingAssumption ==
  /\ ChunkSize \in Nat \ {0} /\ MaxReassembly \in Nat
  /\ MaxLength \in Nat /\ MaxMessages \in Nat

VARIABLES
  encoded,    \* messages encrypted so far
  transit,    \* frames on their way
  nonce,      \* the sender's next counter
  expected,   \* the receiver's next counter
  open,       \* NoiseSession.reassembly: a message being put together
  delivered,  \* messages the receiver handed on
  failed,     \* NoiseChannel.failed
  disturbed   \* history: a frame was lost, repeated or overtaken

framingVars ==
  <<encoded, transit, nonce, expected, open, delivered, failed, disturbed>>

Closed == [buffer |-> <<>>, isJson |-> FALSE, there |-> FALSE]

Init ==
  /\ encoded = <<>> /\ transit = <<>> /\ nonce = 0 /\ expected = 0
  /\ open = Closed /\ delivered = <<>> /\ failed = FALSE
  /\ disturbed = FALSE

-----------------------------------------------------------------------------
(* encrypt_message.                                                        *)

(* The last chunk is the first to start within a chunk of the end.         *)
Marker(offset, length, isJson) ==
  IF length <= ChunkSize THEN (IF isJson THEN "json" ELSE "binary")
  ELSE IF offset = 0 THEN (IF isJson THEN "first_json" ELSE "first_binary")
  ELSE IF offset >= length - ChunkSize THEN "last"
  ELSE "more"

ChunkCount(length) ==
  IF length <= ChunkSize THEN 1 ELSE (length + ChunkSize - 1) \div ChunkSize

Chunk(payload, k) ==
  SubSeq(payload, k * ChunkSize + 1,
         IF (k + 1) * ChunkSize < Len(payload) THEN (k + 1) * ChunkSize
         ELSE Len(payload))

FramesOf(m) ==
  [k \in 1 .. ChunkCount(Len(m.payload)) |->
     [marker  |-> Marker((k - 1) * ChunkSize, Len(m.payload), m.isJson),
      body    |-> Chunk(m.payload, k - 1),
      counter |-> nonce + k - 1]]

(* The n-th message of some length: its bytes are told apart.              *)
Payload(n, length) == [i \in 1 .. length |-> <<n, i>>]

Payloads == {Payload(n, l) : n \in 1 .. MaxMessages, l \in 0 .. MaxLength}

AllMessages == [payload : Payloads, isJson : BOOLEAN]

Encrypt ==
  /\ Len(encoded) < MaxMessages
  /\ \E length \in 0 .. MaxLength, isJson \in BOOLEAN :
       LET m == [payload |-> Payload(Len(encoded) + 1, length),
                 isJson  |-> isJson]
       IN /\ encoded' = Append(encoded, m)
          /\ transit' = transit \o FramesOf(m)
          /\ nonce' = nonce + Len(FramesOf(m))
  /\ UNCHANGED <<expected, open, delivered, failed, disturbed>>

-----------------------------------------------------------------------------
(* decrypt_frame and NoiseChannel::receive: any error ends the session.    *)

Fail ==
  /\ failed' = TRUE
  /\ UNCHANGED <<open, delivered>>

HandOn(payload, isJson) ==
  /\ delivered' = Append(delivered, [payload |-> payload, isJson |-> isJson])
  /\ open' = Closed
  /\ UNCHANGED failed

(* guard_reassembly_cap.                                                   *)
Buffer(buffer, isJson) ==
  IF Len(buffer) <= MaxReassembly
  THEN /\ open' = [buffer |-> buffer, isJson |-> isJson, there |-> TRUE]
       /\ UNCHANGED <<delivered, failed>>
  ELSE Fail

TakeComplete(f) ==
  /\ f.marker \in {"json", "binary"}
  /\ IF open.there THEN Fail ELSE HandOn(f.body, f.marker = "json")

TakeFirst(f) ==
  /\ f.marker \in {"first_json", "first_binary"}
  /\ IF open.there THEN Fail ELSE Buffer(f.body, f.marker = "first_json")

TakeMore(f) ==
  /\ f.marker = "more"
  /\ IF ~open.there THEN Fail ELSE Buffer(open.buffer \o f.body, open.isJson)

TakeLast(f) ==
  /\ f.marker = "last"
  /\ IF ~open.there \/ Len(open.buffer \o f.body) > MaxReassembly THEN Fail
     ELSE HandOn(open.buffer \o f.body, open.isJson)

DecryptFrame_Unordered(f) ==
  /\ expected' = f.counter + 1
  /\ TakeComplete(f) \/ TakeFirst(f) \/ TakeMore(f) \/ TakeLast(f)

DecryptFrame(f) ==
  IF f.counter # expected
  THEN Fail /\ UNCHANGED expected
  ELSE /\ expected' = expected + 1
       /\ TakeComplete(f) \/ TakeFirst(f) \/ TakeMore(f) \/ TakeLast(f)

Without(frames, i) == SubSeq(frames, 1, i - 1) \o SubSeq(frames, i + 1, Len(frames))

Receive ==
  /\ ~failed /\ transit # <<>>
  /\ transit' = Tail(transit)
  /\ DecryptFrame(Head(transit))
  /\ UNCHANGED <<encoded, nonce, disturbed>>

(* The network: a frame overtakes others, comes twice, or does not come.   *)
Overtake ==
  /\ ~failed
  /\ \E i \in 2 .. Len(transit) :
       /\ transit' = Without(transit, i)
       /\ DecryptFrame(transit[i])
  /\ disturbed' = TRUE
  /\ UNCHANGED <<encoded, nonce>>

Repeat ==
  /\ ~failed /\ transit # <<>>
  /\ DecryptFrame(Head(transit))
  /\ disturbed' = TRUE
  /\ UNCHANGED <<encoded, nonce, transit>>

Lose ==
  /\ ~failed
  /\ \E i \in DOMAIN transit : transit' = Without(transit, i)
  /\ disturbed' = TRUE
  /\ UNCHANGED <<encoded, nonce, expected, open, delivered, failed>>

Next == Encrypt \/ Receive \/ Overtake \/ Repeat \/ Lose

Spec == Init /\ [][Next]_framingVars

-----------------------------------------------------------------------------
TypeOK ==
  /\ encoded \in Seq(AllMessages) /\ delivered \in Seq(AllMessages)
  /\ nonce \in Nat /\ expected \in 0 .. nonce
  /\ Len(open.buffer) <= MaxReassembly
  /\ failed \in BOOLEAN /\ disturbed \in BOOLEAN

(* Framing, encryption and reassembly make of a bad network a channel that *)
(* delivers what was sent, in order, until it breaks: no message is put    *)
(* together from the chunks of two, none is cut short, skipped or handed   *)
(* on twice.                                                               *)
Channel ==
  INSTANCE MessageChannel WITH
    Messages <- AllMessages, input <- encoded, output <- delivered,
    broken <- failed

DeliversInOrder == Channel!Spec

(* Without the network's doing the link does not break over a message the  *)
(* receiver has room for, and everything arrives: a message that ends on a *)
(* chunk boundary too.                                                     *)
CleanLinkDelivers ==
  /\ ~disturbed
  /\ \A i \in DOMAIN encoded : Len(encoded[i].payload) <= MaxReassembly
  => ~failed /\ (transit = <<>> => delivered = encoded)
=============================================================================
