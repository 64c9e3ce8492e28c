----------------------------- MODULE MessageQueue -----------------------------
(***************************************************************************)
(* What one direction of a bridge promises: the messages that are put in   *)
(* at one end are taken out at the other, whole, in order and once each.   *)
(***************************************************************************)
EXTENDS Integers, Sequences

VARIABLES
    sent,       \* everything put in so far
    received    \* everything taken out so far

vars == <<sent, received>>

Init == sent = <<>> /\ received = <<>>

\* One or several messages, as one write may carry a whole transfer buffer.
Put ==
    /\ Len(sent') > Len(sent)
    /\ \A i \in 1 .. Len(sent) : sent'[i] = sent[i]
    /\ UNCHANGED received

Get ==
    /\ Len(received) < Len(sent)
    /\ received' = Append(received, sent[Len(received) + 1])
    /\ UNCHANGED sent

Next == Put \/ Get

Spec == Init /\ [][Next]_vars
==============================================================================
