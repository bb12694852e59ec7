------------------------------- MODULE LlcPair -------------------------------
(***************************************************************************)
(* Two endpoints of LlcDataLink joined by their MAC threads.  The MAC      *)
(* threads (mac_iso18092.c) take turns: one sends the PDU waiting in its   *)
(* link->llc_down, or SYMM when there is none, and the other queues it in  *)
(* its link->llc_up for the engine, a queue that is non-blocking for the   *)
(* MAC thread.                                                             *)
(*                                                                         *)
(* A service thread runs one of the programs of the repository: "client"   *)
(* is test_03_service of the llcp-test-client (send, receive, wait for     *)
(* both acknowledgements), repeated for Rounds exchanges; "echo" is the    *)
(* connected-echo-server; a "source" sends without waiting and a "sink"    *)
(* only receives, as the two ends of the NPP example do once.              *)
(***************************************************************************)
EXTENDS LlcDataLink, FiniteSets

CONSTANTS
    Program,    \* the program of each endpoint's service thread
    Rounds,     \* bound: exchanges of a client
    CanOverrun  \* whether a MAC thread may outrun the engine of its side

ASSUME ProgramAssumption == Program \in [End -> {"client", "echo", "source", "sink"}]
ASSUME PairAssumption    == IsFiniteSet(End) /\ Cardinality(End) = 2
ASSUME RoundsAssumption  == Rounds \in Nat /\ CanOverrun \in BOOLEAN

VARIABLES
    linkUp,     \* link->llc_up of each endpoint
    linkDown,   \* link->llc_down of each endpoint
    turn,       \* the endpoint whose MAC thread sends next
    radio,      \* "up", or "broken" once a MAC thread has left its loop
    prog        \* where the program of each service thread is

macVars == <<linkUp, linkDown, turn, radio>>
vars == <<linkVars, macVars, prog>>

Peer(e) == CHOOSE f \in End : f # e

Init ==
    /\ LinkInit
    /\ linkUp   = [e \in End |-> <<>>]
    /\ linkDown = [e \in End |-> <<>>]
    /\ turn \in End
    /\ radio = "up"
    /\ prog = [e \in End |-> IF Program[e] \in {"client", "source"}
                            THEN "send" ELSE "recv"]

Alive(e) == pc[e] # "aborted"
-----------------------------------------------------------------------------
(* The engine thread against the queues of its link. *)

Arrive(e) ==
    /\ linkUp[e] # <<>>
    /\ HandlePdu(e, Head(linkUp[e]))
    /\ linkUp' = [linkUp EXCEPT ![e] = Tail(@)]
    /\ UNCHANGED <<linkDown, turn, radio, prog>>

SendDown(e) ==
    /\ Len(linkDown[e]) < MaxMsg
    /\ HandOver(e)
    /\ linkDown' = [linkDown EXCEPT ![e] = Append(@, buf[e])]
    /\ UNCHANGED <<linkUp, turn, radio, prog>>

Engine(e) ==
    \/ Arrive(e)
    \/ SendDown(e)
    \/ (Deliver(e) \/ Sweep(e)) /\ UNCHANGED <<macVars, prog>>
-----------------------------------------------------------------------------
(* The two MAC threads and the air between them. *)

Frame(e) == IF linkDown[e] = <<>> THEN Symm ELSE Head(linkDown[e])

TakeFrame(e) ==
    /\ turn = e /\ radio = "up"
    /\ Alive(e) /\ Alive(Peer(e))
    /\ linkDown' = [linkDown EXCEPT ![e] = IF @ = <<>> THEN @ ELSE Tail(@)]
    /\ turn' = Peer(e)
    /\ UNCHANGED <<linkVars, prog>>

Exchange(e) ==
    /\ TakeFrame(e)
    /\ Len(linkUp[Peer(e)]) < MaxMsg
    /\ linkUp' = [linkUp EXCEPT ![Peer(e)] = Append(@, Frame(e))]
    /\ UNCHANGED radio

\* mq_send to link->llc_up fails with EAGAIN: the MAC thread gives the link up.
Overrun(e) ==
    /\ CanOverrun
    /\ TakeFrame(e)
    /\ Len(linkUp[Peer(e)]) = MaxMsg
    /\ radio' = "broken"
    /\ UNCHANGED linkUp
-----------------------------------------------------------------------------
(* The programs of the service threads. *)

\* The echo server sends back what it has just received.
NextMessage(e) ==
    IF Program[e] = "echo" THEN got[e][Len(got[e])].info ELSE Len(sent[e]) + 1

\* Only the echo server looks at the result of llc_connection_send.
AfterSend(e)    == IF Program[e] = "source" THEN "send" ELSE "recv"
AfterFailure(e) == IF Program[e] = "echo" THEN "stopped" ELSE AfterSend(e)
AfterRecv(e)    == CASE Program[e] = "client" -> "wait"
                     [] Program[e] = "echo"   -> "send"
                     [] Program[e] = "sink"   -> "recv"

Goto(e, label) == prog' = [prog EXCEPT ![e] = label] /\ UNCHANGED macVars

ServiceSend(e) ==
    \/ prog[e] = "send" /\ SendCall(e, NextMessage(e)) /\ Goto(e, prog[e])
    \/ SendStamp(e)   /\ Goto(e, prog[e])
    \/ SendEnqueue(e) /\ Goto(e, AfterSend(e))
    \/ SendFails(e)   /\ Goto(e, AfterFailure(e))

ServiceRecv(e) ==
    /\ prog[e] = "recv"
    /\ Recv(e)
    /\ Goto(e, AfterRecv(e))

\* "Let the service receive the acknoledgement": poll until r = ra and s = sa.
ServiceAcknowledged(e) ==
    /\ prog[e] = "wait"
    /\ dlc[e].r = dlc[e].ra
    /\ dlc[e].s = dlc[e].sa
    /\ Goto(e, IF Len(sent[e]) < Rounds THEN "send" ELSE "done")
    /\ UNCHANGED linkVars

Service(e) ==
    /\ Alive(e)
    /\ ServiceSend(e) \/ ServiceRecv(e) \/ ServiceAcknowledged(e)
-----------------------------------------------------------------------------
Next ==
    \/ \E e \in End : Engine(e)
    \/ \E e \in End : Service(e)
    \/ \E e \in End : Exchange(e) \/ Overrun(e)

\* Every thread that can take a step eventually does.
Fairness == \A e \in End :
    WF_vars(Engine(e)) /\ WF_vars(Service(e)) /\ WF_vars(Exchange(e))

Spec     == Init /\ [][Next]_vars
FairSpec == Spec /\ Fairness
-----------------------------------------------------------------------------
Infos(pdus) == [i \in 1..Len(pdus) |-> pdus[i].info]

(***************************************************************************)
(* The types of the variables, and no queue of the link above mq_maxmsg.   *)
(***************************************************************************)
TypeOK ==
    /\ LinkTypeOK
    /\ linkUp \in [End -> Seq(Pdu)]
    /\ linkDown \in [End -> Seq(Pdu)]
    /\ \A e \in End : Len(linkUp[e]) <= MaxMsg /\ Len(linkDown[e]) <= MaxMsg
    /\ turn \in End
    /\ radio \in {"up", "broken"}
    /\ prog \in [End -> {"send", "recv", "wait", "done", "stopped"}]

(***************************************************************************)
(* V(SA) never runs ahead of the other side: every I PDU an endpoint takes *)
(* for acknowledged has been accepted by its peer (state.sa = N(R) in both *)
(* the RR and the I branch).                                               *)
(***************************************************************************)
AckedWasAccepted ==
    \A e \in End : (dlc[e].sa - Start) % 16 <= Len(Accepted(Peer(e)))

(***************************************************************************)
(* The message numbers a service thread receives only go up: nothing is    *)
(* delivered twice or out of order, whatever the programs do and even when *)
(* sequence numbers are stamped twice or messages are dropped.             *)
(***************************************************************************)
DeliveredInOrder ==
    \A e \in End : \A i, j \in 1..Len(Accepted(e)) :
        i < j => Accepted(e)[i].info < Accepted(e)[j].info

(***************************************************************************)
(* The send window (llc_service_llc.c:405-409, "We can't send data now"):  *)
(* at most rwr I PDUs are transmitted and not acknowledged.                *)
(***************************************************************************)
WindowRespected == \A e \in End : (dlc[e].s - dlc[e].sa) % 16 <= Window[e]

(***************************************************************************)
(* No endpoint sends the other a PDU that makes its engine call abort().   *)
(***************************************************************************)
NoAbort == \A e \in End : Alive(e)

(***************************************************************************)
(* The loop at the end of test_03_service ("Let the service receive the    *)
(* acknoledgement") ends: a client completes its exchanges.                *)
(***************************************************************************)
ClientsFinish == \A e \in End : Program[e] = "client" => <>(prog[e] = "done")
=============================================================================
