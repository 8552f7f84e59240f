--------------------------- MODULE MessageChannel ---------------------------
(***************************************************************************)
(* What an encrypted link promises, whatever happens to its frames: the    *)
(* messages delivered are those sent, in the order they were sent, up to   *)
(* where the link broke.                                                   *)
(***************************************************************************)
EXTENDS Integers, Sequences

CONSTANT Messages

VARIABLES
  input,   \* messages given to the sender
  output,  \* messages the receiver handed on
  broken   \* the receiver has given the link up

channelVars == <<input, output, broken>>

Init == input = <<>> /\ output = <<>> /\ broken = FALSE

Send ==
  /\ \E m \in Messages : input' = Append(input, m)
  /\ UNCHANGED <<output, broken>>

Deliver ==
  /\ ~broken /\ Len(output) < Len(input)
  /\ output' = Append(output, input[Len(output) + 1])
  /\ UNCHANGED <<input, broken>>

Break ==
  /\ broken' = TRUE
  /\ UNCHANGED <<input, output>>

Next == Send \/ Deliver \/ Break

Spec == Init /\ [][Next]_channelVars
=============================================================================
