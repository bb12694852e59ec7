----------------------------- MODULE MCLlcPair -----------------------------
(***************************************************************************)
(* LlcPair for TLC: endpoints a and b, messages numbered from 1.           *)
(***************************************************************************)
EXTENDS LlcPair

CONSTANTS a, b, RwrA, RwrB, ProgA, ProgB

MCEnd      == {a, b}
MCPayload  == 1..4
MCOversize == {}
MCWindow   == [e \in End |-> IF e = a THEN RwrA ELSE RwrB]
MCProgram  == [e \in End |-> IF e = a THEN ProgA ELSE ProgB]

(***************************************************************************)
(* Each direction of the connection is a FIFO channel: what one service    *)
(* thread sends (llc_connection_send) the other receives                   *)
(* (llc_connection_recv), once, in order, and eventually.  Requests go     *)
(* from a to b, answers from b to a.                                       *)
(***************************************************************************)
RequestChannel == INSTANCE FifoChannel WITH
    Message <- Payload, sent <- sent[a], received <- Infos(got[b])
AnswerChannel == INSTANCE FifoChannel WITH
    Message <- Payload, sent <- sent[b], received <- Infos(got[a])

\* The requests of the client reach the echo server, and its answers the client, each through
\* a FIFO channel.
BothAreChannels == RequestChannel!Spec /\ AnswerChannel!Spec
=============================================================================
