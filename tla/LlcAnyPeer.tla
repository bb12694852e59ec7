----------------------------- MODULE LlcAnyPeer -----------------------------
(***************************************************************************)
(* LlcDataLink against a remote peer of which nothing is assumed: whenever *)
(* the engine waits for a PDU, any member of Incoming may arrive.  The     *)
(* service thread may send and receive at any time; the messages it sends  *)
(* are numbered in the order in which llc_connection_send accepts them.    *)
(***************************************************************************)
EXTENDS LlcDataLink

CONSTANTS
    Incoming,   \* the PDUs the peer may send
    MaxAccept   \* bound: I PDUs accepted per endpoint

ASSUME IncomingAssumption == Incoming \subseteq Pdu
ASSUME AcceptAssumption   == MaxAccept \in Nat

AnyPeerInit == LinkInit

\* An accepted I PDU carries information: the bound is on those only.
AnyPeerArrive(e) ==
    \E p \in Incoming :
        /\ p.ptype = "I" => p.info \in Payload /\ Len(Accepted(e)) < MaxAccept
        /\ HandlePdu(e, p)

AnyPeerEngine(e) == AnyPeerArrive(e) \/ Deliver(e) \/ Sweep(e) \/ HandOver(e)

AnyPeerService(e) ==
    \/ SendCall(e, Len(sent[e]) + 1)
    \/ SendStamp(e)
    \/ SendEnqueue(e)
    \/ SendFails(e)
    \/ Recv(e)

\* abort() ends the process, its service thread included.
AnyPeerNext == \E e \in End : AnyPeerEngine(e) \/ (pc[e] # "aborted" /\ AnyPeerService(e))

AnyPeerSpec == AnyPeerInit /\ [][AnyPeerNext]_linkVars

-----------------------------------------------------------------------------
(***************************************************************************)
(* Every variable stays in its type and no queue exceeds mq_maxmsg.        *)
(***************************************************************************)
AnyPeerTypeOK == LinkTypeOK

(***************************************************************************)
(* Whatever the peer sends - replays, gaps, PDUs that are too long - the   *)
(* PDUs handed to the service thread, queued for it or about to be queued  *)
(* carry consecutive N(S) values from the first one on, and V(R) is the    *)
(* number of the next one, across the wrap at 16 and across the engine     *)
(* blocking on a full queue after it has advanced V(R).                    *)
(***************************************************************************)
Gapless ==
    \A e \in End :
        /\ \A k \in 1..Len(Accepted(e)) : Accepted(e)[k].ns = (Start + k - 1) % 16
        /\ dlc[e].r = (Start + Len(Accepted(e))) % 16

(***************************************************************************)
(* A message is transmitted at most once and never overtaken: transmitted, *)
(* postponed and queued messages carry increasing numbers, although a      *)
(* postponed message goes back to a queue the service thread keeps filling.*)
(***************************************************************************)
SendOrder ==
    \A e \in End :
        \A i, j \in 1..Len(Outgoing(e)) :
            i < j => Outgoing(e)[i].info < Outgoing(e)[j].info

(***************************************************************************)
(* "Postponing message delivery" (llc_service_llc.c:409): a message the    *)
(* service thread has sent is transmitted, postponed or queued - until     *)
(* then it is delayed, not dropped.                                        *)
(***************************************************************************)
PostponedIsKept ==
    \A e \in End :
        \A m \in 1..Len(sent[e]) :
            \E i \in 1..Len(Outgoing(e)) : Outgoing(e)[i].info = m
=============================================================================
