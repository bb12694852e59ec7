---------------------------- MODULE LlcDataLink ----------------------------
(***************************************************************************)
(* One established LLCP data link connection of libllcp, seen from each    *)
(* endpoint in End: the struct llc_connection the LLC engine thread        *)
(* (llc_service_llc.c) and the service thread (llc_connection.c) share.    *)
(*                                                                         *)
(* The engine runs one loop: it receives a PDU from the link, handles it,  *)
(* sweeps the connection's down queue and hands at most one PDU back to    *)
(* the link.  The service thread calls llc_connection_send and             *)
(* llc_connection_recv.  Every blocking call and every pair of steps       *)
(* between which the other thread may run is a step of its own here.       *)
(*                                                                         *)
(* This module has the steps; LlcAnyPeer closes it with an arbitrary       *)
(* remote peer, LlcPair with a second endpoint running the same code.      *)
(***************************************************************************)
EXTENDS Integers, Sequences

CONSTANTS
    End,        \* the endpoints
    Payload,    \* information fields of I PDUs
    Oversize,   \* those longer than connection->local_miu
    Window,     \* connection->rwr of each endpoint
    Start,      \* sequence number both directions have reached initially
    MaxSend,    \* bound: calls of llc_connection_send per endpoint
    NoInfo      \* the information field of a PDU that has none

ASSUME EndAssumption     == NoInfo \notin Payload
ASSUME PayloadAssumption == Oversize \subseteq Payload
ASSUME WindowAssumption  == Window \in [End -> 0..255]
ASSUME StartAssumption   == Start \in 0..15
ASSUME BoundAssumption   == MaxSend \in Nat
ASSUME NumberAssumption  == 1..MaxSend \subseteq Payload

VARIABLES
    dlc,    \* connection->state: V(S), V(SA), V(R), V(RA)
    up,     \* connection->llc_up, from the engine to the service thread
    down,   \* connection->llc_down, from the service thread to the engine
    pc,     \* where the engine thread is
    buf,    \* the PDU the engine holds in its local buffer, Symm when none
    app,    \* the service thread's call in progress
    sent,   \* history: information fields llc_connection_send accepted
    wire,   \* history: I PDUs the sweep took for transmission
    got     \* history: PDUs llc_connection_recv returned

linkVars == <<dlc, up, down, pc, buf, app, sent, wire, got>>

(***************************************************************************)
(* POSIX message queues are created with mq_maxmsg = 2.  INC_MOD_16 is the *)
(* only arithmetic on the state variables: they are 4-bit counters.        *)
(***************************************************************************)
MaxMsg == 2
Seq16  == 0..15

\* Mutant of Inc16: the wrap forgotten.
Inc16NoWrap(n) == n + 1

Inc16(n) == (n + 1) % 16

State  == [s : Seq16, sa : Seq16, r : Seq16, ra : Seq16]

PduType == {"SYMM", "I", "RR", "RNR", "FRMR"}
Pdu == [ptype : PduType, ns : Seq16, nr : Seq16, info : Payload \cup {NoInfo}]

Symm == [ptype |-> "SYMM", ns |-> 0, nr |-> 0, info |-> NoInfo]
Frmr == [ptype |-> "FRMR", ns |-> 0, nr |-> 0, info |-> NoInfo]
Ack(type, state) ==
    [ptype |-> type, ns |-> state.s, nr |-> state.r, info |-> NoInfo]

EnginePc == {"recv", "reply", "deliver", "sweep", "ack", "postpone",
             "transmit", "aborted"}

\* A call of llc_connection_send in progress, and none.
Call == [pc : {"stamp", "enqueue"}, ns : Seq16, nr : Seq16, info : Payload]
Idle == [pc |-> "idle", ns |-> 0, nr |-> 0, info |-> NoInfo]

LinkInit ==
    /\ dlc  = [e \in End |-> [s |-> Start, sa |-> Start, r |-> Start, ra |-> Start]]
    /\ up   = [e \in End |-> <<>>]
    /\ down = [e \in End |-> <<>>]
    /\ pc   = [e \in End |-> "recv"]
    /\ buf  = [e \in End |-> Symm]
    /\ app  = [e \in End |-> Idle]
    /\ sent = [e \in End |-> <<>>]
    /\ wire = [e \in End |-> <<>>]
    /\ got  = [e \in End |-> <<>>]

-----------------------------------------------------------------------------
(***************************************************************************)
(* The engine thread, first half of an iteration: dispatch of the PDU p    *)
(* that mq_receive returned.                                               *)
(***************************************************************************)

\* SYMM carries nothing; FRMR is only logged.
HandleInert(e, p) ==
    /\ pc[e] = "recv"
    /\ p.ptype \in {"SYMM", "FRMR"}
    /\ pc' = [pc EXCEPT ![e] = "sweep"]
    /\ UNCHANGED <<dlc, up, down, buf, app, sent, wire, got>>

\* Mutant of HandleRR: N(R) taken as the last PDU received, not the next expected.
HandleRRLastReceived(e, p) ==
    /\ pc[e] = "recv"
    /\ p.ptype = "RR"
    /\ dlc' = [dlc EXCEPT ![e].sa = Inc16(p.nr)]
    /\ pc' = [pc EXCEPT ![e] = "sweep"]
    /\ UNCHANGED <<up, down, buf, app, sent, wire, got>>

HandleRR(e, p) ==
    /\ pc[e] = "recv"
    /\ p.ptype = "RR"
    /\ dlc' = [dlc EXCEPT ![e].sa = p.nr]
    /\ pc' = [pc EXCEPT ![e] = "sweep"]
    /\ UNCHANGED <<up, down, buf, app, sent, wire, got>>

\* An I PDU out of sequence, or too long: a FRMR is sent, nothing else changes.
RefuseI(e, p) ==
    /\ pc[e] = "recv"
    /\ p.ptype = "I"
    /\ p.ns # dlc[e].r \/ p.info \in Oversize
    /\ buf' = [buf EXCEPT ![e] = Frmr]
    /\ pc' = [pc EXCEPT ![e] = "reply"]
    /\ UNCHANGED <<dlc, up, down, app, sent, wire, got>>

\* Mutant of AcceptI: the length is tested, the sequence number is not.
AcceptIUnchecked(e, p) ==
    /\ pc[e] = "recv"
    /\ p.ptype = "I"
    /\ p.info \notin Oversize
    /\ dlc' = [dlc EXCEPT ![e].r = Inc16(@), ![e].sa = p.nr]
    /\ buf' = [buf EXCEPT ![e] = p]
    /\ pc' = [pc EXCEPT ![e] = "deliver"]
    /\ UNCHANGED <<up, down, app, sent, wire, got>>

\* An I PDU in sequence: counted and its N(R) taken before it is queued.
AcceptI(e, p) ==
    /\ pc[e] = "recv"
    /\ p.ptype = "I"
    /\ p.ns = dlc[e].r /\ p.info \notin Oversize
    /\ dlc' = [dlc EXCEPT ![e].r = Inc16(@), ![e].sa = p.nr]
    /\ buf' = [buf EXCEPT ![e] = p]
    /\ pc' = [pc EXCEPT ![e] = "deliver"]
    /\ UNCHANGED <<up, down, app, sent, wire, got>>

\* Any PDU type the switch does not name, RNR among them: abort().
HandleUnsupported(e, p) ==
    /\ pc[e] = "recv"
    /\ p.ptype = "RNR"
    /\ pc' = [pc EXCEPT ![e] = "aborted"]
    /\ UNCHANGED <<dlc, up, down, buf, app, sent, wire, got>>

HandlePdu(e, p) ==
    \/ HandleInert(e, p)
    \/ HandleRR(e, p)
    \/ RefuseI(e, p)
    \/ AcceptI(e, p)
    \/ HandleUnsupported(e, p)

\* mq_send to connection->llc_up blocks while the queue is full.
Deliver(e) ==
    /\ pc[e] = "deliver"
    /\ Len(up[e]) < MaxMsg
    /\ up' = [up EXCEPT ![e] = Append(@, buf[e])]
    /\ buf' = [buf EXCEPT ![e] = Symm]
    /\ pc' = [pc EXCEPT ![e] = "sweep"]
    /\ UNCHANGED <<dlc, down, app, sent, wire, got>>

-----------------------------------------------------------------------------
(***************************************************************************)
(* Second half of an iteration: one look at connection->llc_down.          *)
(* The window test compares V(S) with the plain sum V(SA) + rwr.           *)
(***************************************************************************)
WindowFull(e) == dlc[e].s = dlc[e].sa + Window[e]

\* A queued I PDU leaves as it was packed by llc_connection_send.
SweepTransmit(e) ==
    /\ pc[e] = "sweep"
    /\ down[e] # <<>>
    /\ ~WindowFull(e)
    /\ buf' = [buf EXCEPT ![e] = Head(down[e])]
    /\ down' = [down EXCEPT ![e] = Tail(@)]
    /\ wire' = [wire EXCEPT ![e] = Append(@, Head(down[e]))]
    /\ dlc' = [dlc EXCEPT ![e].s = Inc16(@)]
    /\ pc' = [pc EXCEPT ![e] = "transmit"]
    /\ UNCHANGED <<up, app, sent, got>>

SweepPostpone(e) ==
    /\ pc[e] = "sweep"
    /\ down[e] # <<>>
    /\ WindowFull(e)
    /\ buf' = [buf EXCEPT ![e] = Head(down[e])]
    /\ down' = [down EXCEPT ![e] = Tail(@)]
    /\ pc' = [pc EXCEPT ![e] = "postpone"]
    /\ UNCHANGED <<dlc, up, app, sent, wire, got>>

\* Mutant of Requeue: priority 0, behind the messages queued meanwhile.
RequeueLast(e) ==
    /\ pc[e] = "postpone"
    /\ down' = [down EXCEPT ![e] = IF Len(@) < MaxMsg THEN Append(@, buf[e]) ELSE @]
    /\ buf' = [buf EXCEPT ![e] = Symm]
    /\ pc' = [pc EXCEPT ![e] = "recv"]
    /\ UNCHANGED <<dlc, up, app, sent, wire, got>>

\* mq_send with priority 1 on a non-blocking queue: first in line, or lost.
Requeue(e) ==
    /\ pc[e] = "postpone"
    /\ down' = [down EXCEPT ![e] = IF Len(@) < MaxMsg THEN <<buf[e]>> \o @ ELSE @]
    /\ buf' = [buf EXCEPT ![e] = Symm]
    /\ pc' = [pc EXCEPT ![e] = "recv"]
    /\ UNCHANGED <<dlc, up, app, sent, wire, got>>

\* Down queue empty and data not yet acknowledged.
SweepUnacknowledged(e) ==
    /\ pc[e] = "sweep"
    /\ down[e] = <<>>
    /\ dlc[e].ra # dlc[e].r
    /\ pc' = [pc EXCEPT ![e] = "ack"]
    /\ UNCHANGED <<dlc, up, down, buf, app, sent, wire, got>>

\* Mutant of Acknowledge: RNR as soon as anything is queued for the service.
AcknowledgeNotReady(e) ==
    /\ pc[e] = "ack"
    /\ buf' = [buf EXCEPT ![e] = Ack(IF up[e] # <<>> THEN "RNR" ELSE "RR", dlc[e])]
    /\ dlc' = [dlc EXCEPT ![e].ra = dlc[e].r]
    /\ pc' = [pc EXCEPT ![e] = "transmit"]
    /\ UNCHANGED <<up, down, app, sent, wire, got>>

\* Mutant of Acknowledge: V(RA) is not set.
AcknowledgeForgotten(e) ==
    /\ pc[e] = "ack"
    /\ buf' = [buf EXCEPT ![e] =
                 Ack(IF Len(up[e]) = MaxMsg THEN "RNR" ELSE "RR", dlc[e])]
    /\ pc' = [pc EXCEPT ![e] = "transmit"]
    /\ UNCHANGED <<dlc, up, down, app, sent, wire, got>>

\* The type of acknowledgement depends on mq_getattr of llc_up.
Acknowledge(e) ==
    /\ pc[e] = "ack"
    /\ buf' = [buf EXCEPT ![e] =
                 Ack(IF Len(up[e]) = MaxMsg THEN "RNR" ELSE "RR", dlc[e])]
    /\ dlc' = [dlc EXCEPT ![e].ra = dlc[e].r]
    /\ pc' = [pc EXCEPT ![e] = "transmit"]
    /\ UNCHANGED <<up, down, app, sent, wire, got>>

SweepNothing(e) ==
    /\ pc[e] = "sweep"
    /\ down[e] = <<>>
    /\ dlc[e].ra = dlc[e].r
    /\ pc' = [pc EXCEPT ![e] = "recv"]
    /\ UNCHANGED <<dlc, up, down, buf, app, sent, wire, got>>

Sweep(e) ==
    \/ SweepTransmit(e)
    \/ SweepPostpone(e)
    \/ Requeue(e)
    \/ SweepUnacknowledged(e)
    \/ Acknowledge(e)
    \/ SweepNothing(e)

\* The blocking mq_send to link->llc_down: a FRMR inside the dispatch, which the
\* sweep follows, or the PDU the sweep chose, which ends the iteration.
HandOver(e) ==
    /\ pc[e] \in {"reply", "transmit"}
    /\ pc' = [pc EXCEPT ![e] = IF @ = "reply" THEN "sweep" ELSE "recv"]
    /\ buf' = [buf EXCEPT ![e] = Symm]
    /\ UNCHANGED <<dlc, up, down, app, sent, wire, got>>

-----------------------------------------------------------------------------
(***************************************************************************)
(* The service thread.  pdu_new_i reads state.r and state.s one after the  *)
(* other, in an order the compiler chooses and without a lock: SendCall is *)
(* the first read, SendStamp the second, SendEnqueue the mq_send.          *)
(***************************************************************************)
SendCall(e, m) ==
    /\ app[e].pc = "idle"
    /\ Len(sent[e]) < MaxSend
    /\ app' = [app EXCEPT ![e] =
                 [pc |-> "stamp", ns |-> dlc[e].s, nr |-> dlc[e].r, info |-> m]]
    /\ UNCHANGED <<dlc, up, down, pc, buf, sent, wire, got>>

SendStamp(e) ==
    /\ app[e].pc = "stamp"
    /\ \/ app' = [app EXCEPT ![e] = [@ EXCEPT !.pc = "enqueue", !.ns = dlc[e].s]]
       \/ app' = [app EXCEPT ![e] = [@ EXCEPT !.pc = "enqueue", !.nr = dlc[e].r]]
    /\ UNCHANGED <<dlc, up, down, pc, buf, sent, wire, got>>

Stamped(e) == [ptype |-> "I", ns |-> app[e].ns, nr |-> app[e].nr, info |-> app[e].info]

SendEnqueue(e) ==
    /\ app[e].pc = "enqueue"
    /\ Len(down[e]) < MaxMsg
    /\ down' = [down EXCEPT ![e] = Append(@, Stamped(e))]
    /\ sent' = [sent EXCEPT ![e] = Append(@, app[e].info)]
    /\ app' = [app EXCEPT ![e] = Idle]
    /\ UNCHANGED <<dlc, up, pc, buf, wire, got>>

\* llc_down is non-blocking for the service thread too: EAGAIN, the call returns -1.
SendFails(e) ==
    /\ app[e].pc = "enqueue"
    /\ Len(down[e]) = MaxMsg
    /\ app' = [app EXCEPT ![e] = Idle]
    /\ UNCHANGED <<dlc, up, down, pc, buf, sent, wire, got>>

\* Mutant of Recv: the PDU stays queued.
RecvAgain(e) ==
    /\ app[e].pc = "idle"
    /\ up[e] # <<>>
    /\ got' = [got EXCEPT ![e] = Append(@, Head(up[e]))]
    /\ UNCHANGED <<dlc, up, down, pc, buf, app, sent, wire>>

\* mq_receive on llc_up blocks while the queue is empty.
Recv(e) ==
    /\ app[e].pc = "idle"
    /\ up[e] # <<>>
    /\ got' = [got EXCEPT ![e] = Append(@, Head(up[e]))]
    /\ up' = [up EXCEPT ![e] = Tail(@)]
    /\ UNCHANGED <<dlc, down, pc, buf, app, sent, wire>>

-----------------------------------------------------------------------------
(***************************************************************************)
(* What the invariants speak of: the PDUs endpoint e has accepted, from    *)
(* the first one the service thread read to the one in the engine's hand.  *)
(***************************************************************************)
InHand(e)   == IF pc[e] = "deliver" THEN <<buf[e]>> ELSE <<>>
Accepted(e) == got[e] \o up[e] \o InHand(e)

\* And the I PDUs on their way out, from the first one transmitted to the last
\* one queued; a postponed PDU is in the engine's hand between the two.
Postponed(e) == IF pc[e] = "postpone" THEN <<buf[e]>> ELSE <<>>
Outgoing(e)  == wire[e] \o Postponed(e) \o down[e]

LinkTypeOK ==
    /\ dlc  \in [End -> State]
    /\ up   \in [End -> Seq(Pdu)]
    /\ down \in [End -> Seq(Pdu)]
    /\ pc   \in [End -> EnginePc]
    /\ buf  \in [End -> Pdu]
    /\ app  \in [End -> {Idle} \cup Call]
    /\ sent \in [End -> Seq(Payload)]
    /\ wire \in [End -> Seq(Pdu)]
    /\ got  \in [End -> Seq(Pdu)]
    /\ \A e \in End : Len(up[e]) <= MaxMsg /\ Len(down[e]) <= MaxMsg
=============================================================================
