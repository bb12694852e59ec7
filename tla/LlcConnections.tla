--------------------------- MODULE LlcConnections ---------------------------
(***************************************************************************)
(* The life of the data link connections of one LLC link: the engine       *)
(* thread (llc_service_llc.c) that creates, serves and frees them, the     *)
(* accept and service threads it starts, a client's main thread            *)
(* (llc_connection_connect, llc_connection_wait) and the remote peers.     *)
(*                                                                         *)
(* The order of data is the business of LlcDataLink; here a PDU is its     *)
(* numbers, and the peers keep to the window of 1 that pdu_new_cc          *)
(* advertises and ask for the same, so that Modulus numbers need to be     *)
(* told apart.  Connections and threads that are gone are used again, as   *)
(* malloc and pthread_create do.                                           *)
(***************************************************************************)
EXTENDS Integers, Sequences, FiniteSets

CONSTANTS
    MaxSap,     \* MAX_LLC_LINK_SERVICE: the highest service access point
    Service,    \* SAPs with a service bound
    Accepting,  \* those whose service has an accept routine
    Peer,       \* the SAPs of the remote side
    Target,     \* SAPs the peers ask for, bound or not
    Outgoing,   \* local SAP the client connects from, 0 when there is none
    Talker,     \* the peers that send data
    FirstStep,  \* whether a service thread starts with "recv" or "send"
    May,        \* what the environment may do: see Choice
    Modulus,    \* bound: sequence numbers told apart (1: an answer acknowledges all)
    MaxConn     \* bound: struct llc_connection objects allocated at a time

\* "answer": services may send; "reject": accept routines may refuse; "stop": services may end by themselves;
\* "close": peers may disconnect; "drop": peers may answer DM on an open connection,
\* as libllcp does once its service has ended; "overlap": a peer may connect while another's
\* CONNECT is pending; "early": the peer may answer before the client's
\* llc_connection_connect has returned.
Choice == {"answer", "reject", "stop", "close", "drop", "overlap", "early"}

Slot   == 1..MaxSap
Conn   == 1..MaxConn
Thread == 1..(2 * MaxConn)
SeqNo   == 0..(Modulus - 1)

\* Mutant of NextNo: the wrap forgotten.
NextNoNoWrap(n) == n + 1

NextNo(n) == (n + 1) % Modulus
None   == [ptype |-> "none"]
MaxMsg == 2
Rwr    == 1   \* LLCP_DEFAULT_RW: the CONNECT of the peers has no RW parameter

ASSUME SapAssumption ==
    /\ {MaxSap, MaxConn, Modulus} \subseteq Nat \ {0}
    /\ Accepting \subseteq Service /\ Service \subseteq Slot /\ Target \subseteq Slot
    /\ Outgoing \in Service \cup {0}
ASSUME ChoiceAssumption == Talker \subseteq Peer /\ FirstStep \in {"recv", "send"} /\ May \subseteq Choice

VARIABLES
    handler,    \* link->transmission_handlers, 0 for NULL
    conn,       \* the struct llc_connection objects
    thr,        \* the accept and service threads
    pc, slot, cur, out,   \* the engine: where it is, its loop index, the local
                          \* `connection`, and the PDU in its buffer
    llcUp, llcDown,       \* the message queues between engine and MAC
    main,       \* the client's main thread
    peer,       \* the remote side
    fault       \* "none", or why the process is gone

engine == <<pc, slot, cur, out>>
vars   == <<handler, conn, thr, engine, llcUp, llcDown, main, peer, fault>>

Status == {"NEW", "ACCEPTED", "RECEIVED_CC", "REJECTED", "CONNECTED",
           "DISCONNECTED", "TERMINATED"}

\* llc_connection_new and its callers: `thread` and the state variables are zero.
NewConn(local, service, remote) ==
    [life |-> "live", status |-> "NEW", thread |-> 0, local |-> local,
     service |-> service, remote |-> remote, s |-> 0, sa |-> 0, r |-> 0, owed |-> FALSE,
     up |-> 0, down |-> <<>>]

Freed    == [NewConn(0, 0, 0) EXCEPT !.life = "freed"]
NoThread == [conn |-> 0, pc |-> "exited", cancelled |-> FALSE]
NoPeer   == [st |-> "idle", at |-> 0, vs |-> 0, vr |-> 0, unacked |-> FALSE,
             busy |-> FALSE, owes |-> "none"]

\* What malloc and pthread_create may return next: the first that is not in use.
\* (At most one, and none only if all are.)
Least(free) == {x \in free : \A y \in free : x <= y}
FreshConn   == Least({c \in Conn : conn[c].life = "freed"})
FreshThread == Least({t \in Thread : thr[t].pc = "exited" /\ \A c \in Conn : conn[c].thread # t})
Started(c, at) == [conn |-> c, pc |-> at, cancelled |-> FALSE]

\* The client has its connection before the link is up (snep-client.c:225).
Init ==
    /\ handler = [i \in Slot |-> IF i = Outgoing THEN 1 ELSE 0]
    /\ \E q \in Peer : conn = [c \in Conn |->
            IF c = 1 /\ Outgoing # 0 THEN NewConn(Outgoing, Outgoing, q) ELSE Freed]
    /\ thr = [t \in Thread |-> NoThread]
    /\ pc = "recv" /\ slot = 1 /\ cur = 0 /\ out = None
    /\ llcUp = <<>> /\ llcDown = <<>>
    /\ main = IF Outgoing = 0 THEN "none" ELSE "connect"
    /\ peer = [q \in Peer |-> NoPeer]
    /\ fault = "none"

\* A failed assertion, a NULL or freed pointer: the process is gone.
Crash(why) ==
    /\ fault' = why
    /\ UNCHANGED <<handler, conn, thr, engine, llcUp, llcDown, main, peer>>
-----------------------------------------------------------------------------
(***************************************************************************)
(* The engine, first half of an iteration: dispatch of a received PDU.     *)
(***************************************************************************)
Dm(q, i)  == [ptype |-> "DM", dsap |-> q, ssap |-> i]

Take(type) ==
    /\ pc = "recv" /\ llcUp # <<>> /\ Head(llcUp).ptype = type
    /\ llcUp' = Tail(llcUp)
    /\ UNCHANGED <<llcDown, main, peer, fault>>
Pdu == Head(llcUp)

Reply(pdu) == pc' = "reply" /\ out' = pdu
ToSweep    == pc' = "sweep" /\ slot' = 1 /\ out' = None

Symmetry ==
    /\ pc = "recv" /\ llcUp = <<>>
    /\ ToSweep
    /\ UNCHANGED <<handler, conn, thr, cur, llcUp, llcDown, main, peer, fault>>

\* The slots a connection to SAP i may take: from i upwards, whatever is bound there.
FreeSlots(i) == {j \in i..MaxSap : handler[j] = 0}

\* Mutant of FirstFree: the slot of the service, taken or not.
SlotOfService(i) == {i}

FirstFree(i) == Least(FreeSlots(i))

ConnectUnbound ==
    /\ Take("CONNECT")
    /\ Pdu.dsap \notin Service
    /\ Reply(Dm(Pdu.ssap, Pdu.dsap))
    /\ UNCHANGED <<handler, conn, thr, slot, cur>>

\* llc_data_link_connection_new returns NULL, into `connection`.
ConnectNoSlot ==
    /\ Take("CONNECT")
    /\ Pdu.dsap \in Service /\ FreeSlots(Pdu.dsap) = {}
    /\ cur' = 0
    /\ Reply(Dm(Pdu.ssap, Pdu.dsap))
    /\ UNCHANGED <<handler, conn, thr, slot>>

ConnectSpawn ==
    /\ Take("CONNECT")
    /\ Pdu.dsap \in Service /\ FreeSlots(Pdu.dsap) # {}
    /\ \E i \in FirstFree(Pdu.dsap), c \in FreshConn, t \in FreshThread :
        LET new == NewConn(i, Pdu.dsap, Pdu.ssap)
        IN  /\ handler' = [handler EXCEPT ![i] = c]
            /\ cur' = c
            /\ IF Pdu.dsap \in Accepting
               THEN /\ conn' = [conn EXCEPT ![c] = [new EXCEPT !.thread = t]]
                    /\ thr' = [thr EXCEPT ![t] = Started(c, "accept")]
               ELSE /\ conn' = [conn EXCEPT ![c] = [new EXCEPT !.status = "ACCEPTED"]]
                    /\ UNCHANGED thr
    /\ ToSweep

\* llc_connection_stop on the handler of a DISC or DM: its thread, unless it has
\* ended already, is cancelled.
CancelHandler ==
    /\ handler[Pdu.dsap] # 0
    /\ LET t == conn[handler[Pdu.dsap]].thread
       IN  t # 0 /\ thr' = [thr EXCEPT ![t].cancelled = thr[t].pc # "exited"]
    /\ slot' = Pdu.dsap

ReceiveDisc ==
    /\ Take("DISC")
    /\ CancelHandler
    /\ pc' = "slayDisc" /\ out' = Dm(Pdu.ssap, Pdu.dsap)
    /\ UNCHANGED <<handler, conn, cur>>

ReceiveDm ==
    /\ Take("DM")
    /\ CancelHandler
    /\ pc' = "slayDm"
    /\ UNCHANGED <<handler, conn, cur, out>>

\* llcp_threadslayer returns once the thread has been joined.
Slain(label) ==
    /\ pc = label
    /\ \A t \in Thread : ~thr[t].cancelled

\* Mutant of FinishDisc: llc_connection_free without waiting for the thread.
FinishDiscEarly ==
    /\ pc = "slayDisc"
    /\ conn' = [conn EXCEPT ![handler[slot]] = Freed]
    /\ handler' = [handler EXCEPT ![slot] = 0]
    /\ Reply(out)
    /\ UNCHANGED <<thr, slot, cur, llcUp, llcDown, main, peer, fault>>

\* Mutant of FinishDisc: the handler keeps the freed connection.
FinishDiscKeep ==
    /\ Slain("slayDisc")
    /\ conn' = [conn EXCEPT ![handler[slot]] = Freed]
    /\ Reply(out)
    /\ UNCHANGED <<handler, thr, slot, cur, llcUp, llcDown, main, peer, fault>>

\* Mutant of FinishDisc: no DM.
FinishDiscSilent ==
    /\ Slain("slayDisc")
    /\ conn' = [conn EXCEPT ![handler[slot]] = Freed]
    /\ handler' = [handler EXCEPT ![slot] = 0]
    /\ ToSweep
    /\ UNCHANGED <<thr, cur, llcUp, llcDown, main, peer, fault>>

FinishDisc ==
    /\ Slain("slayDisc")
    /\ conn' = [conn EXCEPT ![handler[slot]] = Freed]
    /\ handler' = [handler EXCEPT ![slot] = 0]
    /\ Reply(out)
    /\ UNCHANGED <<thr, slot, cur, llcUp, llcDown, main, peer, fault>>

FinishDm ==
    /\ Slain("slayDm")
    /\ conn' = [conn EXCEPT ![handler[slot]].status = "REJECTED", ![handler[slot]].thread = 0]
    /\ ToSweep
    /\ UNCHANGED <<handler, thr, cur, llcUp, llcDown, main, peer, fault>>

\* Mutant of ReceiveCc: the status is left alone.
ReceiveCcUnmarked ==
    /\ Take("CC")
    /\ handler[Pdu.dsap] # 0
    /\ cur' = handler[Pdu.dsap]
    /\ conn' = [conn EXCEPT ![handler[Pdu.dsap]].remote = Pdu.ssap]
    /\ ToSweep
    /\ UNCHANGED <<handler, thr>>

ReceiveCc ==
    /\ Take("CC")
    /\ handler[Pdu.dsap] # 0
    /\ cur' = handler[Pdu.dsap]
    /\ conn' = [conn EXCEPT ![handler[Pdu.dsap]].remote = Pdu.ssap,
                            ![handler[Pdu.dsap]].status = "RECEIVED_CC"]
    /\ ToSweep
    /\ UNCHANGED <<handler, thr>>

ReceiveI ==
    /\ Take("I")
    /\ handler[Pdu.dsap] # 0
    /\ conn' = [conn EXCEPT ![handler[Pdu.dsap]].owed = TRUE,
                            ![handler[Pdu.dsap]].r = NextNo(@),
                            ![handler[Pdu.dsap]].sa = Pdu.nr]
    /\ pc' = "deliver" /\ slot' = Pdu.dsap
    /\ UNCHANGED <<handler, thr, cur, out>>


ReceiveRr ==
    /\ Take("RR")
    /\ handler[Pdu.dsap] # 0
    /\ conn' = [conn EXCEPT ![handler[Pdu.dsap]].sa = Pdu.nr]
    /\ ToSweep
    /\ UNCHANGED <<handler, thr, cur>>

\* It is logged.
ReceiveFrmr ==
    /\ Take("FRMR")
    /\ ToSweep
    /\ UNCHANGED <<handler, conn, thr, cur>>

\* The branches above take the slot's connection for granted; CancelHandler also its
\* thread, since pthread_cancel(0) goes through a null pointer.
NoHandler == Pdu.ptype \in {"DISC", "DM", "CC", "I", "RR"} /\ handler[Pdu.dsap] = 0
NoVictim  == /\ Pdu.ptype \in {"DISC", "DM"} /\ handler[Pdu.dsap] # 0
             /\ conn[handler[Pdu.dsap]].thread = 0

ReceiveFails ==
    /\ pc = "recv" /\ llcUp # <<>>
    /\ NoHandler \/ NoVictim
    /\ Crash(IF NoHandler /\ Pdu.ptype # "CC" THEN "assert" ELSE "null")

\* connection->llc_up is a blocking queue for the engine.
Deliver ==
    /\ pc = "deliver"
    /\ conn[handler[slot]].up < MaxMsg
    /\ conn' = [conn EXCEPT ![handler[slot]].up = @ + 1]
    /\ ToSweep
    /\ UNCHANGED <<handler, thr, cur, llcUp, llcDown, main, peer, fault>>

Dispatch ==
    \/ Symmetry
    \/ ConnectUnbound \/ ConnectNoSlot \/ ConnectSpawn
    \/ ReceiveDisc \/ ReceiveDm \/ FinishDisc \/ FinishDm
    \/ ReceiveCc \/ ReceiveI \/ ReceiveRr \/ ReceiveFrmr \/ ReceiveFails \/ Deliver
-----------------------------------------------------------------------------
(***************************************************************************)
(* Second half: the sweep of transmission_handlers, one slot per step.     *)
(* Only queued data ends the sweep; what any other slot had to send stays  *)
(* in `length` until the mq_receive of the next used slot overwrites it.   *)
(***************************************************************************)
Visited  == handler[slot]
Visiting == pc = "sweep"

Advance(pdu) ==
    /\ out' = pdu
    /\ IF slot < MaxSap THEN pc' = "sweep" /\ slot' = slot + 1
       ELSE slot' = 1 /\ pc' = (IF pdu = None THEN "recv" ELSE "transmit")

VisitEmpty ==
    /\ Visiting /\ Visited = 0
    /\ Advance(out)
    /\ UNCHANGED <<handler, conn, thr, cur>>

\* A plain sum: between 15 and 16 the window is never full.
WindowFull(c) == conn[c].s = conn[c].sa + Rwr

\* mq_receive: the I PDU that has waited longest, with the numbers of its llc_connection_send.
Unqueue ==
    /\ Visiting /\ Visited # 0 /\ conn[Visited].down # <<>>
    /\ LET m == Head(conn[Visited].down)
       IN  out' = [ptype |-> "I", dsap |-> conn[Visited].remote, ssap |-> slot,
                   ns |-> m.ns, nr |-> m.nr]

VisitData ==
    /\ Unqueue /\ ~WindowFull(Visited)
    /\ conn' = [conn EXCEPT ![Visited].down = Tail(@), ![Visited].s = NextNo(@)]
    /\ pc' = "transmit" /\ slot' = 1
    /\ UNCHANGED <<handler, thr, cur>>

VisitPostpone ==
    /\ Unqueue /\ WindowFull(Visited)
    /\ conn' = [conn EXCEPT ![Visited].down = Tail(@)]
    /\ pc' = "postpone"
    /\ UNCHANGED <<handler, thr, slot, cur>>

\* mq_send with priority 1 on a non-blocking queue: first in line, or lost.
Requeue ==
    /\ pc = "postpone"
    /\ LET m == [ns |-> out.ns, nr |-> out.nr]
       IN  conn' = [conn EXCEPT ![Visited].down = IF Len(@) < MaxMsg THEN <<m>> \o @ ELSE @]
    /\ Advance(None)
    /\ UNCHANGED <<handler, thr, cur>>

Quiet(c) == c # 0 /\ conn[c].down = <<>>

Acknowledgement ==
    [ptype |-> IF conn[Visited].up = MaxMsg THEN "RNR" ELSE "RR",
     dsap |-> conn[Visited].remote, ssap |-> slot, nr |-> conn[Visited].r]

VisitRunning ==
    /\ Visiting /\ Quiet(Visited) /\ conn[Visited].thread # 0
    /\ Advance(IF conn[Visited].owed THEN Acknowledgement ELSE None)
    /\ conn' = [conn EXCEPT ![Visited].owed = FALSE]
    /\ UNCHANGED <<handler, thr, cur>>

VisitWaiting ==
    /\ Visiting /\ Quiet(Visited) /\ conn[Visited].thread = 0
    /\ conn[Visited].status \in {"NEW", "CONNECTED"}
    /\ Advance(None)
    /\ UNCHANGED <<handler, conn, thr, cur>>

Usable(c) == c # 0 /\ conn[c].life = "live"

\* Mutant of VisitEstablished: whatever the accept thread left behind is established.
VisitEstablishedAny ==
    /\ Visiting /\ Quiet(Visited) /\ conn[Visited].thread = 0
    /\ conn[Visited].status \in {"ACCEPTED", "RECEIVED_CC", "REJECTED"} /\ Usable(cur)
    /\ out' = [ptype |-> "CC", dsap |-> conn[cur].remote, ssap |-> conn[cur].local]
    /\ \E t \in FreshThread :
        /\ conn' = [conn EXCEPT ![cur].thread = t]
        /\ thr' = [thr EXCEPT ![t] = Started(cur, FirstStep)]
    /\ pc' = "spawned"
    /\ UNCHANGED <<handler, slot, cur>>

\* The CC and the service thread are those of the local `connection`.
VisitEstablished ==
    /\ Visiting /\ Quiet(Visited) /\ conn[Visited].thread = 0
    /\ conn[Visited].status \in {"ACCEPTED", "RECEIVED_CC"} /\ Usable(cur)
    /\ out' = IF conn[Visited].status = "ACCEPTED"
              THEN [ptype |-> "CC", dsap |-> conn[cur].remote, ssap |-> conn[cur].local]
              ELSE None
    /\ \E t \in FreshThread :
        /\ conn' = [conn EXCEPT ![cur].thread = t]
        /\ thr' = [thr EXCEPT ![t] = Started(cur, FirstStep)]
    /\ pc' = "spawned"
    /\ UNCHANGED <<handler, slot, cur>>

\* The thread runs already when the status is written.
MarkConnected ==
    /\ pc = "spawned"
    /\ conn' = [conn EXCEPT ![Visited].status = "CONNECTED"]
    /\ Advance(out)
    /\ UNCHANGED <<handler, thr, cur>>

\* The DM too is addressed by `connection`; TERMINATED is overwritten by the free.
VisitEnded ==
    /\ Visiting /\ Quiet(Visited) /\ conn[Visited].thread = 0
    /\ conn[Visited].status \in {"REJECTED", "DISCONNECTED"} /\ Usable(cur)
    /\ conn' = [conn EXCEPT ![Visited] = Freed]
    /\ handler' = [handler EXCEPT ![slot] = 0]
    /\ Advance(Dm(conn[cur].remote, conn[cur].local))
    /\ UNCHANGED <<thr, cur>>

\* `connection` is NULL or freed when one of the two above needs it.
VisitDangling ==
    /\ Visiting /\ Quiet(Visited) /\ conn[Visited].thread = 0
    /\ conn[Visited].status \in {"ACCEPTED", "RECEIVED_CC", "REJECTED", "DISCONNECTED"}
    /\ ~Usable(cur)
    /\ Crash(IF cur = 0 THEN "null" ELSE "freed")

Sweep ==
    \/ /\ \/ VisitEmpty \/ VisitData \/ VisitPostpone \/ Requeue
          \/ VisitRunning \/ VisitWaiting
          \/ VisitEstablished \/ MarkConnected \/ VisitEnded
       /\ UNCHANGED <<llcUp, llcDown, main, peer, fault>>
    \/ VisitDangling

\* The blocking mq_send to link->llc_down.
HandOver ==
    /\ pc \in {"reply", "transmit"} /\ Len(llcDown) < MaxMsg
    /\ llcDown' = Append(llcDown, out)
    /\ IF pc = "reply" THEN ToSweep ELSE pc' = "recv" /\ out' = None /\ UNCHANGED slot
    /\ UNCHANGED <<handler, conn, thr, cur, llcUp, main, peer, fault>>

Engine == Dispatch \/ Sweep \/ HandOver
-----------------------------------------------------------------------------
(***************************************************************************)
(* The threads the engine starts.                                          *)
(***************************************************************************)
On(t) == thr[t].conn
At(t, label) == thr[t].pc = label /\ UNCHANGED <<handler, engine, llcUp, llcDown, main, peer>>
Goto(t, label) == thr' = [thr EXCEPT ![t] = IF label = "exited" THEN NoThread ELSE [@ EXCEPT !.pc = label]]
Set(t, new)  == conn' = [conn EXCEPT ![On(t)] = new] /\ UNCHANGED fault

\* llc_connection_accept and llc_connection_reject: the status first ...
Decide(t) ==
    /\ At(t, "accept") /\ conn[On(t)].thread = t
    /\ \E status \in {"ACCEPTED"} \cup (IF "reject" \in May THEN {"REJECTED"} ELSE {}) :
        Set(t, [conn[On(t)] EXCEPT !.status = status])
    /\ Goto(t, "leave")

\* Mutant of Leave: connection->thread keeps the accept thread.
LeaveKeep(t) ==
    /\ At(t, "leave")
    /\ Goto(t, "exited")
    /\ UNCHANGED <<conn, fault>>

\* ... then connection->thread, and the thread is gone.
Leave(t) ==
    /\ At(t, "leave")
    /\ Set(t, [conn[On(t)] EXCEPT !.thread = 0])
    /\ Goto(t, "exited")

\* What a service does after a call: its own choice.
Leaving == IF "stop" \in May THEN {"stop"} ELSE {}
Replying == IF "answer" \in May THEN {"send"} ELSE {}

Recv(t) ==
    /\ At(t, "recv") /\ conn[On(t)].up > 0
    /\ Set(t, [conn[On(t)] EXCEPT !.up = @ - 1])
    /\ \E next \in {"recv"} \cup Replying \cup Leaving : Goto(t, next)

\* EAGAIN on a full llc_down: the call fails and the service goes on.
Send(t) ==
    /\ At(t, "send") /\ conn[On(t)].status = "CONNECTED"
    /\ LET m == [ns |-> conn[On(t)].s, nr |-> conn[On(t)].r]
       IN  Set(t, [conn[On(t)] EXCEPT !.down = IF Len(@) < MaxMsg THEN Append(@, m) ELSE @])
    /\ \E next \in {"recv"} \cup Leaving : Goto(t, next)

\* assert(connection->status == DLC_CONNECTED), assert(thread == pthread_self()).
Misplaced(t) ==
    /\ UNCHANGED <<handler, conn, thr, engine, llcUp, llcDown, main, peer>>
    /\ \/ thr[t].pc = "send" /\ conn[On(t)].status # "CONNECTED"
       \/ thr[t].pc = "accept" /\ conn[On(t)].thread # t
    /\ fault' = "assert"

\* llc_connection_stop called by the service thread itself: `thread` is left set.
Stop(t) ==
    /\ At(t, "stop") /\ conn[On(t)].thread = t
    /\ Set(t, [conn[On(t)] EXCEPT !.status = "DISCONNECTED"])
    /\ Goto(t, "exited")

\* pthread_cancel takes effect in sleep, mq_receive and mq_send.
Cancelled(t) ==
    /\ thr[t].cancelled /\ thr[t].pc \in {"accept", "recv", "send"}
    /\ At(t, thr[t].pc) /\ Goto(t, "exited")
    /\ UNCHANGED <<conn, fault>>

Run(t) == Decide(t) \/ Leave(t) \/ Recv(t) \/ Send(t) \/ Stop(t) \/ Misplaced(t) \/ Cancelled(t)
-----------------------------------------------------------------------------
(***************************************************************************)
(* The client's main thread: llc_connection_connect sends the CONNECT      *)
(* first and initialises the connection after, llc_connection_wait polls.  *)
(***************************************************************************)
Connect ==
    /\ main = "connect" /\ Len(llcDown) < MaxMsg
    /\ llcDown' = Append(llcDown,
            [ptype |-> "CONNECT", dsap |-> conn[1].remote, ssap |-> Outgoing])
    /\ main' = "reset"
    /\ UNCHANGED <<handler, conn, thr, engine, llcUp, peer, fault>>

Reset ==
    /\ main = "reset"
    /\ handler' = [handler EXCEPT ![Outgoing] = 1]
    /\ conn' = [conn EXCEPT ![1].status = "NEW"]
    /\ main' = "wait"
    /\ UNCHANGED <<thr, engine, llcUp, llcDown, peer, fault>>

Wait ==
    /\ main = "wait" /\ conn[1].life = "live"
    /\ main' = CASE conn[1].status = "CONNECTED" -> "join"
                 [] conn[1].status \in {"NEW", "ACCEPTED", "RECEIVED_CC"} -> "wait"
                 [] OTHER -> "failed"
    /\ UNCHANGED <<handler, conn, thr, engine, llcUp, llcDown, peer, fault>>

Join ==
    /\ main = "join" /\ conn[1].life = "live" /\ conn[1].thread # 0
    /\ thr[conn[1].thread].pc = "exited"
    /\ main' = "joined"
    /\ UNCHANGED <<handler, conn, thr, engine, llcUp, llcDown, peer, fault>>

Client == Connect \/ Reset \/ Wait \/ Join
-----------------------------------------------------------------------------
(***************************************************************************)
(* The remote side: a peer that keeps to the protocol.  Each SAP holds at  *)
(* most one connection, sends one I PDU at a time and none while the other *)
(* side is not ready.  It acknowledges what it takes, with its own data if *)
(* it has any; an I PDU out of sequence it refuses, and the connection is  *)
(* then broken for it: it may only disconnect.                             *)
(***************************************************************************)
PeerSends(q, pdu, new) ==
    /\ Len(llcUp) < MaxMsg
    /\ llcUp' = Append(llcUp, pdu)
    /\ peer' = [peer EXCEPT ![q] = new]
    /\ UNCHANGED <<handler, conn, thr, engine, llcDown, main, fault>>

\* Objects the CONNECTs under way will take.
Pending == Cardinality({q \in Peer : peer[q].st = "connecting"})

PeerConnect(q) ==
    /\ peer[q].st = "idle"
    /\ Pending = 0 \/ "overlap" \in May
    /\ Cardinality({c \in Conn : conn[c].life = "freed"}) > Pending
    /\ \E i \in Target :
        PeerSends(q, [ptype |-> "CONNECT", dsap |-> i, ssap |-> q],
                  [NoPeer EXCEPT !.st = "connecting"])

PeerData(q) ==
    /\ q \in Talker
    /\ peer[q].st = "open" /\ ~peer[q].unacked /\ ~peer[q].busy
    /\ PeerSends(q, [ptype |-> "I", dsap |-> peer[q].at, ssap |-> q, nr |-> peer[q].vr],
                 [peer[q] EXCEPT !.unacked = TRUE, !.vs = NextNo(@), !.owes = "none"])

\* Its answer to our I PDU: an RR, or the FRMR of a broken connection.
PeerAck(q) ==
    /\ peer[q].st \in {"open", "broken"} /\ peer[q].owes # "none"
    /\ PeerSends(q, [ptype |-> peer[q].owes, dsap |-> peer[q].at, ssap |-> q, nr |-> peer[q].vr],
                 [peer[q] EXCEPT !.owes = "none"])

PeerClose(q) ==
    /\ peer[q].st \in {"open", "broken"} /\ "close" \in May
    /\ PeerSends(q, [ptype |-> "DISC", dsap |-> peer[q].at, ssap |-> q],
                 [peer[q] EXCEPT !.st = "closing", !.owes = "none"])

PeerDrop(q) ==
    /\ peer[q].st = "open" /\ "drop" \in May
    /\ PeerSends(q, Dm(peer[q].at, q), NoPeer)

\* What q makes of the answers to its own PDUs.
After(q, p) ==
    CASE p.ptype = "CC" /\ peer[q].st = "connecting" ->
            [NoPeer EXCEPT !.st = "open", !.at = p.ssap]
      [] p.ptype = "DM" -> NoPeer
      [] p.ptype \in {"RR", "RNR"} /\ peer[q].st = "open" ->
            [peer[q] EXCEPT !.unacked = @ /\ p.nr # peer[q].vs, !.busy = p.ptype = "RNR"]
      [] p.ptype = "I" /\ peer[q].st = "open" ->
            IF p.ns = peer[q].vr
            THEN [peer[q] EXCEPT !.unacked = @ /\ p.nr # peer[q].vs,
                                 !.vr = NextNo(@), !.owes = "RR"]
            ELSE [peer[q] EXCEPT !.st = "broken", !.owes = "FRMR"]
      [] OTHER -> peer[q]

PeerReceive ==
    /\ llcDown # <<>> /\ Head(llcDown).ptype # "CONNECT"
    /\ llcDown' = Tail(llcDown)
    /\ LET q == Head(llcDown).dsap
       IN  peer' = [peer EXCEPT ![q] = After(q, Head(llcDown))]
    /\ UNCHANGED <<handler, conn, thr, engine, llcUp, main, fault>>

\* The answer to the client: accepted, or refused.
PeerAnswer ==
    /\ llcDown # <<>> /\ Head(llcDown).ptype = "CONNECT"
    /\ main # "reset" \/ "early" \in May
    /\ Len(llcUp) < MaxMsg
    /\ llcDown' = Tail(llcDown)
    /\ LET q == Head(llcDown).dsap
       IN  \/ /\ peer[q].st = "idle"
              /\ llcUp' = Append(llcUp, [ptype |-> "CC", dsap |-> Outgoing, ssap |-> q])
              /\ peer' = [peer EXCEPT ![q] = [NoPeer EXCEPT !.st = "open", !.at = Outgoing]]
           \/ /\ "reject" \in May \/ peer[q].st # "idle"
              /\ llcUp' = Append(llcUp, Dm(Outgoing, q))
              /\ UNCHANGED peer
    /\ UNCHANGED <<handler, conn, thr, engine, main, fault>>

Remote == PeerReceive \/ PeerAnswer
-----------------------------------------------------------------------------
Steps ==
    \/ Engine
    \/ \E t \in Thread : Run(t)
    \/ Client
    \/ Remote
    \/ \E q \in Peer :
         PeerConnect(q) \/ PeerData(q) \/ PeerAck(q) \/ PeerClose(q) \/ PeerDrop(q)

Next == fault = "none" /\ Steps

Spec == Init /\ [][Next]_vars

\* Threads and the radio make progress; what peers and services choose to do is free.
Alive(step) == fault = "none" /\ step
Fairness ==
    /\ WF_vars(Alive(Engine)) /\ WF_vars(Alive(Client)) /\ WF_vars(Alive(Remote))
    /\ \A t \in Thread : WF_vars(Alive(Run(t)))
    /\ \A q \in Peer : WF_vars(Alive(PeerAck(q)))

FairSpec == Spec /\ Fairness
-----------------------------------------------------------------------------
Active(t) == thr[t].pc # "exited"

Stamps     == [ns : SeqNo, nr : SeqNo]
ConnType   == [life : {"live", "freed"}, status : Status, thread : {0} \cup Thread,
               local : 0..MaxSap, service : 0..MaxSap, remote : Peer \cup {0},
               s : SeqNo, sa : SeqNo, r : SeqNo, owed : BOOLEAN, up : 0..MaxMsg,
               down : Seq(Stamps)]
ThreadType == [conn : 0..MaxConn, cancelled : BOOLEAN,
               pc : {"accept", "leave", "recv", "send", "stop", "exited"}]
PeerType   == [st : {"idle", "connecting", "open", "broken", "closing"}, at : 0..MaxSap,
               vs : SeqNo, vr : SeqNo, unacked : BOOLEAN, busy : BOOLEAN,
               owes : {"none", "RR", "FRMR"}]

TypeOK ==
    /\ handler \in [Slot -> 0..MaxConn]
    /\ conn \in [Conn -> ConnType] /\ thr \in [Thread -> ThreadType]
    /\ pc \in {"recv", "reply", "deliver", "slayDisc", "slayDm", "sweep", "postpone", "spawned",
              "transmit"}
    /\ slot \in Slot /\ cur \in 0..MaxConn
    /\ Len(llcUp) <= MaxMsg /\ Len(llcDown) <= MaxMsg
    /\ main \in {"none", "connect", "reset", "wait", "join", "joined", "failed"}
    /\ peer \in [Peer -> PeerType]
    /\ fault \in {"none", "assert", "null", "freed"}

(***************************************************************************)
(* transmission_handlers and the allocated connections are one and the     *)
(* same thing: a slot holds a live connection that knows itself by that    *)
(* SAP, and no connection is left allocated outside the table - through    *)
(* slot search, rejection, disconnection and reuse of the slot.            *)
(***************************************************************************)
SlotTable ==
    /\ \A i \in Slot : handler[i] # 0 =>
            conn[handler[i]].life = "live" /\ conn[handler[i]].local = i
    /\ \A c \in Conn : conn[c].life = "live" => handler[conn[c].local] = c

(***************************************************************************)
(* A thread that still runs belongs to a connection that is still          *)
(* allocated and whose `thread` field names it, so that a DISC, a DM or    *)
(* the deactivation of the link can stop it.                               *)
(***************************************************************************)
ThreadsReachable ==
    \A t \in Thread : Active(t) =>
        conn[On(t)].life = "live" /\ conn[On(t)].thread = t

(***************************************************************************)
(* Whatever order accepts, data, disconnections and the ends of services   *)
(* come in, peers that keep to the protocol never bring the process down.  *)
(***************************************************************************)
NoCrash == fault = "none"

(***************************************************************************)
(* A peer that has received the CC of its connection is served: the slot   *)
(* it was given holds a connection to that peer, which an accept routine   *)
(* has accepted and a service thread has been started for.                 *)
(***************************************************************************)
OpenIsServed ==
    \A q \in Peer : peer[q].st = "open" /\ Outgoing = 0 =>
        /\ handler[peer[q].at] # 0
        /\ conn[handler[peer[q].at]].remote = q
        /\ conn[handler[peer[q].at]].status \in {"CONNECTED", "DISCONNECTED"}
        /\ conn[handler[peer[q].at]].thread # 0

(***************************************************************************)
(* Every CONNECT is answered, by a CC or a DM.                             *)
(***************************************************************************)
ConnectAnswered ==
    \A q \in Peer : peer[q].st = "connecting" ~> peer[q].st # "connecting"

(***************************************************************************)
(* Every DISC is answered by a DM, whatever the service thread that it     *)
(* ends is doing, or if that has ended before.                             *)
(***************************************************************************)
DiscAnswered ==
    \A q \in Peer : peer[q].st = "closing" ~> peer[q].st # "closing"


(***************************************************************************)
(* doc/data-link-connection-status.dot, with the arrows the code adds: a   *)
(* service without accept routine starts ACCEPTED, an outgoing connection  *)
(* goes through RECEIVED_CC, a DISC frees a connection in any status.      *)
(***************************************************************************)
Phase(c) == IF conn[c].life = "live" THEN conn[c].status ELSE conn[c].life
Arrows == {<<"freed", "NEW">>, <<"freed", "ACCEPTED">>,
           <<"NEW", "ACCEPTED">>, <<"NEW", "REJECTED">>, <<"NEW", "RECEIVED_CC">>,
           <<"ACCEPTED", "CONNECTED">>, <<"RECEIVED_CC", "CONNECTED">>,
           <<"CONNECTED", "DISCONNECTED">>, <<"CONNECTED", "freed">>,
           <<"REJECTED", "freed">>, <<"DISCONNECTED", "freed">>}
StatusDiagram ==
    [][\A c \in Conn : Phase(c)' # Phase(c) => <<Phase(c), Phase(c)'>> \in Arrows]_conn

(***************************************************************************)
(* "The service is not running anymore and it's down queue is empty.  It   *)
(* can be garbage collected" (llc_service_llc.c:496): a connection whose   *)
(* service has stopped is collected.                                       *)
(***************************************************************************)
StoppedIsCollected ==
    \A c \in Conn : Phase(c) = "DISCONNECTED" ~> Phase(c) # "DISCONNECTED"

(***************************************************************************)
(* llc_connection_wait leaves its polling loop: it sees the connection     *)
(* established, and is then in pthread_join, or over.  And it returns once *)
(* the service has ended, even if it ended before CONNECTED was written.   *)
(***************************************************************************)
ClientReturns ==
    /\ main = "connect" ~> main \in {"join", "joined", "failed"}
    /\ Phase(1) = "DISCONNECTED" ~> main \in {"joined", "failed"}
=============================================================================
