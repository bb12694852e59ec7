---------------------------- MODULE FifoChannel ----------------------------
(***************************************************************************)
(* What one direction of a data link connection promises: the messages     *)
(* the service thread sends come out at the other end, each once, in the   *)
(* order of the sends, and every one of them eventually does.              *)
(***************************************************************************)
EXTENDS Naturals, Sequences

CONSTANT Message
VARIABLES sent, received

Init == sent = <<>> /\ received = <<>>

Send == /\ \E m \in Message : sent' = Append(sent, m)
        /\ UNCHANGED received

Receive == /\ Len(received) < Len(sent)
           /\ received' = Append(received, sent[Len(received) + 1])
           /\ UNCHANGED sent

Next == Send \/ Receive

\* Nothing is invented, repeated or reordered; and nothing is kept back.
Safety == Init /\ [][Next]_<<sent, received>>
Spec   == Safety /\ WF_<<sent, received>>(Receive)
=============================================================================
