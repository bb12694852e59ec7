---------------------------- MODULE LlcPairProofs ----------------------------
(***************************************************************************)
(* Proofs about LlcPair, for every pair of programs, window, start of the  *)
(* sequence numbers and number of messages.  They follow the PDUs of one   *)
(* direction along one pipeline, from the service thread that sends them   *)
(* to the one that receives them.                                          *)
(***************************************************************************)
EXTENDS LlcPair, LlcDataLinkProofs, FiniteSetTheorems

\* There are an endpoint and its peer, and no third.
LEMMA PeerFacts ==
    ASSUME NEW e \in End
    PROVE  /\ Peer(e) \in End /\ Peer(e) # e /\ Peer(Peer(e)) = e
           /\ \A f \in End : f = e \/ f = Peer(e)
  <1>1. IsFiniteSet(End) /\ Cardinality(End) = 2
    BY PairAssumption
  <1>2. PICK x : End \ {e} = {x}
    <2>1. IsFiniteSet(End \ {e}) /\ Cardinality(End \ {e}) = 1
      BY <1>1, FS_RemoveElement
    <2>2. QED BY <2>1, FS_Singleton
  <1>3. x \in End /\ x # e /\ \A f \in End : f = e \/ f = x
    BY <1>2
  <1>4. Peer(e) = x
    BY <1>3 DEF Peer
  <1>5. Peer(x) = e
    BY <1>3 DEF Peer
  <1>6. QED BY <1>3, <1>4, <1>5

-----------------------------------------------------------------------------
(***************************************************************************)
(* The pipeline from e to its peer: what the peer accepted, what its MAC   *)
(* thread queued for it, what waits for the MAC thread of e, the PDU the   *)
(* engine of e holds on its way out, and what the service thread queued.   *)
(***************************************************************************)
Hand(e) == IF pc[e] \in {"reply", "transmit", "postpone"} THEN <<buf[e]>> ELSE <<>>

Front(e) == Accepted(Peer(e)) \o linkUp[Peer(e)]
Back(e)  == linkDown[e] \o Hand(e) \o down[e]
Path(e)  == Front(e) \o Back(e)

\* The PDUs the engine and the MAC thread of e put into it themselves.
Fresh(e) ==
    {Symm, Frmr, Ack(IF Len(up[e]) = MaxMsg THEN "RNR" ELSE "RR", dlc[e])}

LEMMA PathType ==
    ASSUME TypeOK, NEW e \in End
    PROVE  /\ Accepted(Peer(e)) \in Seq(Pdu) /\ linkUp[Peer(e)] \in Seq(Pdu)
           /\ linkDown[e] \in Seq(Pdu) /\ Hand(e) \in Seq(Pdu) /\ down[e] \in Seq(Pdu)
           /\ linkDown[e] \o Hand(e) \in Seq(Pdu)
           /\ Front(e) \in Seq(Pdu) /\ Back(e) \in Seq(Pdu) /\ Path(e) \in Seq(Pdu)
           /\ buf[e] \in Pdu /\ Fresh(e) \in SUBSET Pdu
  <1>1. Accepted(Peer(e)) \in Seq(Pdu)
    BY PeerFacts, AcceptedType DEF TypeOK
  <1>2. /\ linkUp[Peer(e)] \in Seq(Pdu) /\ linkDown[e] \in Seq(Pdu)
        /\ down[e] \in Seq(Pdu) /\ buf[e] \in Pdu
    BY PeerFacts DEF TypeOK, LinkTypeOK
  <1>3. Hand(e) \in Seq(Pdu)
    <2>1. <<>> \in Seq(Pdu) /\ <<buf[e]>> \in Seq(Pdu)
      BY <1>2
    <2>2. QED BY <2>1 DEF Hand
  <1>4. linkDown[e] \o Hand(e) \in Seq(Pdu)
    BY <1>2, <1>3, ConcatProperties
  <1>5. Front(e) \in Seq(Pdu)
    BY <1>1, <1>2, ConcatProperties DEF Front
  <1>6. Back(e) \in Seq(Pdu)
    BY <1>2, <1>4, ConcatProperties DEF Back
  <1>7. Path(e) \in Seq(Pdu)
    BY <1>5, <1>6, ConcatProperties DEF Path
  <1>8. Fresh(e) \in SUBSET Pdu
    BY OwnPdus DEF Fresh, TypeOK, LinkTypeOK, PduType
  <1>9. QED BY <1>1, <1>2, <1>3, <1>4, <1>5, <1>6, <1>7, <1>8

\* What every PDU on the path has, the PDUs of its parts have.
LEMMA OnPath ==
    ASSUME TypeOK, NEW e \in End, NEW T, Path(e) \in Seq(T)
    PROVE  /\ Accepted(Peer(e)) \in Seq(T) /\ linkUp[Peer(e)] \in Seq(T)
           /\ linkUp[Peer(e)] # <<>> => Head(linkUp[Peer(e)]) \in T
  <1>1. Front(e) \in Seq(Pdu) /\ Back(e) \in Seq(Pdu)
    BY PathType
  <1>2. Front(e) \in Seq(T)
    BY <1>1, PartsOfSeq DEF Path
  <1>3. Accepted(Peer(e)) \in Seq(Pdu) /\ linkUp[Peer(e)] \in Seq(Pdu)
    BY PathType
  <1>4. Accepted(Peer(e)) \in Seq(T) /\ linkUp[Peer(e)] \in Seq(T)
    BY <1>2, <1>3, PartsOfSeq DEF Front
  <1>5. QED BY <1>4, HeadTailProperties

Same(e)       == Path(e)' = Path(e)
PathEdited(e) == Edited(Pdu, Fresh(e), Path(e), Path(e)')

\* A step on one half of the path is a step on the path.
LEMMA HalfEdited ==
    ASSUME TypeOK, NEW e \in End,
           \/ /\ Front(e)' = Front(e)
              /\ Edited(Pdu, Fresh(e), Back(e), Back(e)')
           \/ /\ Edited(Pdu, Fresh(e), Front(e), Front(e)')
              /\ Back(e)' = Back(e)
    PROVE  PathEdited(e)
  <1>1. Front(e) \in Seq(Pdu) /\ Back(e) \in Seq(Pdu) /\ Fresh(e) \in SUBSET Pdu
    BY PathType
  <1>2. CASE Front(e)' = Front(e) /\ Edited(Pdu, Fresh(e), Back(e), Back(e)')
    <2>1. Edited(Pdu, Fresh(e), Front(e) \o Back(e), Front(e) \o Back(e)')
      BY <1>1, <1>2, EditedPart
    <2>2. QED BY <1>2, <2>1 DEF Path, PathEdited
  <1>3. CASE Edited(Pdu, Fresh(e), Front(e), Front(e)') /\ Back(e)' = Back(e)
    <2>1. Edited(Pdu, Fresh(e), Front(e) \o Back(e), Front(e)' \o Back(e))
      BY <1>1, <1>3, EditedPart
    <2>2. QED BY <1>3, <2>1 DEF Path, PathEdited
  <1>4. QED BY <1>2, <1>3

\* The front depends on the peer, the back on the endpoint itself.
LEMMA HalfFrames ==
    ASSUME TypeOK, NEW e \in End
    PROVE  /\ /\ SameAccepted(Peer(e)) /\ linkUp'[Peer(e)] = linkUp[Peer(e)]
              => Front(e)' = Front(e)
           /\ /\ linkDown'[e] = linkDown[e] /\ down'[e] = down[e]
              /\ Hand(e)' = Hand(e)
              => Back(e)' = Back(e)
  BY DEF SameAccepted, Front, Back

-----------------------------------------------------------------------------
(***************************************************************************)
(* The engine of g takes the first PDU of its link: an I PDU in sequence   *)
(* moves on to the accepted ones, any other leaves the path to g.          *)
(***************************************************************************)
LEMMA ArriveFront ==
    ASSUME TypeOK, NEW e \in End, Arrive(Peer(e))
    PROVE  PathEdited(e)
  <1> DEFINE g == Peer(e)
             h == Head(linkUp[g])
  <1>1. g \in End /\ g # e
    BY PeerFacts
  <1>2. /\ Accepted(g) \in Seq(Pdu) /\ linkUp[g] \in Seq(Pdu) /\ linkUp[g] # <<>>
        /\ h \in Pdu
    BY PathType, HeadTailProperties DEF Arrive
  <1>3. linkUp'[g] = Tail(linkUp[g]) /\ linkDown' = linkDown /\ HandlePdu(g, h)
    BY <1>1 DEF Arrive, TypeOK
  <1>4. Back(e)' = Back(e)
    <2>1. pc'[e] = pc[e] /\ buf'[e] = buf[e] /\ down' = down
      BY <1>1, <1>3 DEF HandlePdu, HandleInert, HandleRR, RefuseI, AcceptI,
                        HandleUnsupported, TypeOK, LinkTypeOK
    <2>2. QED BY <1>3, <2>1 DEF Back, Hand
  <1>5. Front(e) = Accepted(g) \o linkUp[g] /\ Front(e)' = Accepted(g)' \o linkUp'[g]
    BY DEF Front
  <1>6. CASE AcceptI(g, h)
    <2>1. Accepted(g)' = Append(Accepted(g), h)
      BY <1>1, <1>2, <1>6, AcceptedGrows DEF TypeOK
    <2>2. Append(Accepted(g), h) \o Tail(linkUp[g]) = Accepted(g) \o linkUp[g]
      BY <1>2, MoveHead
    <2>3. Front(e)' = Front(e)
      BY <1>3, <1>5, <2>1, <2>2
    <2>4. QED BY <1>4, <2>3, HalfEdited DEF Edited
  <1>7. CASE ~AcceptI(g, h)
    <2>1. Accepted(g)' = Accepted(g)
      BY <1>1, <1>2, <1>3, <1>7, AcceptedHandled DEF HandlePdu, SameAccepted, TypeOK
    <2>2. Accepted(g) \o <<h>> \o Tail(linkUp[g]) = Accepted(g) \o linkUp[g]
      BY <1>2, HeadInHand
    <2>3. Tail(linkUp[g]) \in Seq(Pdu)
      BY <1>2, HeadTailProperties
    <2>4. Edited(Pdu, Fresh(e), Front(e), Front(e)')
      BY <1>2, <1>3, <1>5, <2>1, <2>2, <2>3, Zenon DEF Edited
    <2>5. QED BY <1>4, <2>4, HalfEdited
  <1>8. QED BY <1>6, <1>7

\* On its own way out the engine may put a FRMR.
LEMMA ArriveBack ==
    ASSUME TypeOK, NEW e \in End, Arrive(e)
    PROVE  PathEdited(e)
  <1> DEFINE h == Head(linkUp[e])
  <1>1. Peer(e) \in End /\ Peer(e) # e
    BY PeerFacts
  <1>2. h \in Pdu
    BY HeadTailProperties DEF Arrive, TypeOK
  <1>3. HandlePdu(e, h) /\ linkDown' = linkDown /\ linkUp'[Peer(e)] = linkUp[Peer(e)]
    BY <1>1 DEF Arrive, TypeOK
  <1>4. Front(e)' = Front(e)
    <2>1. SameAccepted(Peer(e))
      <3>1. CASE AcceptI(e, h)
        BY <1>1, <1>2, <3>1, AcceptedGrows DEF TypeOK
      <3>2. CASE ~AcceptI(e, h)
        BY <1>1, <1>2, <1>3, <3>2, AcceptedHandled DEF HandlePdu, TypeOK
      <3>3. QED BY <3>1, <3>2
    <2>2. QED BY <1>3, <2>1, HalfFrames
  <1>5. pc[e] = "recv" /\ down' = down /\ Hand(e) = <<>>
    BY <1>3 DEF HandlePdu, HandleInert, HandleRR, RefuseI, AcceptI, HandleUnsupported, Hand
  <1>6. CASE RefuseI(e, h)
    <2>1. Hand(e)' = <<Frmr>>
      BY <1>6 DEF RefuseI, Hand, TypeOK, LinkTypeOK
    <2>2. linkDown[e] \in Seq(Pdu) /\ down[e] \in Seq(Pdu)
      BY PathType
    <2>3. Back(e) = linkDown[e] \o down[e] /\ Back(e)' = linkDown[e] \o <<Frmr>> \o down[e]
      BY <1>3, <1>5, <2>1, <2>2, ConcatEmptySeq DEF Back
    <2>4. Frmr \in Fresh(e)
      BY DEF Fresh
    <2>5. Edited(Pdu, Fresh(e), Back(e), Back(e)')
      BY <2>2, <2>3, <2>4, Zenon DEF Edited
    <2>6. QED BY <1>4, <2>5, HalfEdited
  <1>7. CASE ~RefuseI(e, h)
    <2>1. Hand(e)' = <<>>
      BY <1>3, <1>7 DEF HandlePdu, HandleInert, HandleRR, AcceptI, HandleUnsupported,
                        Hand, TypeOK, LinkTypeOK
    <2>2. Back(e)' = Back(e)
      BY <1>3, <1>5, <2>1 DEF Back
    <2>3. QED BY <1>4, <2>2, HalfEdited DEF Edited
  <1>8. QED BY <1>6, <1>7

\* A step of the engine or of the service thread of g that leaves the accepted
\* PDUs and the queues of the links alone is no step on the path of the peer of g.
LEMMA PeerFrame ==
    ASSUME TypeOK, NEW e \in End, NEW g \in End, g # e,
           SameAccepted(g), linkUp' = linkUp, linkDown'[e] = linkDown[e],
           down'[e] = down[e], pc'[e] = pc[e], buf'[e] = buf[e]
    PROVE  PathEdited(e)
  <1>1. g = Peer(e)
    BY PeerFacts
  <1>2. Hand(e)' = Hand(e)
    BY DEF Hand
  <1>3. Front(e)' = Front(e) /\ Back(e)' = Back(e)
    BY <1>1, <1>2, HalfFrames
  <1>4. QED BY <1>3 DEF PathEdited, Path, Edited

\* The engine hands its PDU to the MAC thread: it moves along the path.
LEMMA SendDownPath ==
    ASSUME TypeOK, NEW e \in End, NEW g \in End, SendDown(g)
    PROVE  PathEdited(e)
  <1>1. SameAccepted(e) /\ SameAccepted(Peer(e)) /\ SameAccepted(g)
    BY PeerFacts, AcceptedSwept DEF SendDown, TypeOK
  <1>2. CASE g # e
    BY <1>1, <1>2, PeerFrame DEF SendDown, HandOver, TypeOK, LinkTypeOK
  <1>3. CASE g = e
    <2>1. /\ linkDown[e] \in Seq(Pdu) /\ down[e] \in Seq(Pdu) /\ buf[e] \in Pdu
      BY PathType
    <2>2. /\ linkDown'[e] = Append(linkDown[e], buf[e]) /\ down' = down /\ linkUp' = linkUp
          /\ Hand(e) = <<buf[e]>> /\ Hand(e)' = <<>>
      BY <1>3 DEF SendDown, HandOver, Hand, TypeOK, LinkTypeOK
    <2>3. /\ Append(linkDown[e], buf[e]) \in Seq(Pdu)
          /\ Append(linkDown[e], buf[e]) = linkDown[e] \o <<buf[e]>>
      BY <2>1, AppendProperties, AppendIsConcat
    <2>4. Back(e)' = (Append(linkDown[e], buf[e]) \o <<>>) \o down[e]
      BY <2>2 DEF Back
    <2>5. Back(e)' = Back(e)
      BY <2>2, <2>3, <2>4, ConcatEmptySeq DEF Back
    <2>6. Front(e)' = Front(e)
      BY <1>1, <2>2, HalfFrames
    <2>7. QED BY <2>5, <2>6, HalfEdited DEF Edited
  <1>4. QED BY <1>2, <1>3

LEMMA DeliverPath ==
    ASSUME TypeOK, NEW e \in End, NEW g \in End, Deliver(g), UNCHANGED macVars
    PROVE  PathEdited(e)
  <1>1. SameAccepted(g) /\ SameAccepted(Peer(e))
    BY PeerFacts, AcceptedDelivered DEF TypeOK
  <1>2. CASE g # e
    BY <1>1, <1>2, PeerFrame DEF Deliver, macVars, TypeOK, LinkTypeOK
  <1>3. CASE g = e
    <2>1. Hand(e)' = Hand(e) /\ down' = down /\ linkDown' = linkDown /\ linkUp' = linkUp
      BY <1>3 DEF Deliver, Hand, macVars, TypeOK, LinkTypeOK
    <2>2. Front(e)' = Front(e) /\ Back(e)' = Back(e)
      BY <1>1, <2>1, HalfFrames
    <2>3. QED BY <2>2 DEF PathEdited, Path, Edited
  <1>4. QED BY <1>2, <1>3

(***************************************************************************)
(* The sweep moves the head of llc_down into the hand of the engine, back  *)
(* when it is postponed, unless it is lost then, and puts in an            *)
(* acknowledgement.                                                        *)
(***************************************************************************)
LEMMA SweepBack ==
    ASSUME TypeOK, NEW e \in End, Sweep(e), UNCHANGED macVars
    PROVE  Edited(Pdu, Fresh(e), Back(e), Back(e)')
  <1>1. /\ linkDown[e] \in Seq(Pdu) /\ down[e] \in Seq(Pdu) /\ buf[e] \in Pdu
        /\ linkDown[e] \o <<>> = linkDown[e]
    BY PathType, ConcatEmptySeq
  <1>2. linkDown' = linkDown
    BY DEF macVars
  <1>3. CASE SweepTransmit(e) \/ SweepPostpone(e)
    <2>1. /\ Hand(e) = <<>> /\ Hand(e)' = <<Head(down[e])>>
          /\ down[e] # <<>> /\ down'[e] = Tail(down[e])
      BY <1>3 DEF SweepTransmit, SweepPostpone, Hand, TypeOK, LinkTypeOK
    <2>2. linkDown[e] \o <<Head(down[e])>> \o Tail(down[e]) = linkDown[e] \o down[e]
      BY <1>1, <2>1, HeadInHand
    <2>3. Back(e)' = Back(e)
      BY <1>1, <1>2, <2>1, <2>2 DEF Back
    <2>4. QED BY <2>3 DEF Edited
  <1>4. CASE Requeue(e)
    <2>1. /\ Hand(e) = <<buf[e]>> /\ Hand(e)' = <<>>
          /\ down'[e] = IF Len(down[e]) < MaxMsg THEN <<buf[e]>> \o down[e] ELSE down[e]
      BY <1>4 DEF Requeue, Hand, TypeOK, LinkTypeOK
    <2>2. Back(e) = linkDown[e] \o <<buf[e]>> \o down[e] /\ Back(e)' = linkDown[e] \o down'[e]
      BY <1>1, <1>2, <2>1 DEF Back
    <2>3. linkDown[e] \o (<<buf[e]>> \o down[e]) = linkDown[e] \o <<buf[e]>> \o down[e]
      <3>1. \A s, t \in Seq(Pdu) : \A x \in Pdu : s \o (<<x>> \o t) = s \o <<x>> \o t
        BY BetweenQueues
      <3>2. QED BY <1>1, <3>1, Zenon
    <2>4. CASE Len(down[e]) < MaxMsg
      BY <2>1, <2>2, <2>3, <2>4 DEF Edited
    <2>5. CASE ~(Len(down[e]) < MaxMsg)
      <3>1. Back(e)' = linkDown[e] \o down[e]
        BY <2>1, <2>2, <2>5
      <3>2. QED BY <1>1, <2>2, <3>1, Zenon DEF Edited
    <2>6. QED BY <2>4, <2>5
  <1>5. CASE Acknowledge(e)
    <2> DEFINE a == Ack(IF Len(up[e]) = MaxMsg THEN "RNR" ELSE "RR", dlc[e])
    <2>1. Hand(e) = <<>> /\ Hand(e)' = <<a>> /\ down' = down
      BY <1>5 DEF Acknowledge, Hand, TypeOK, LinkTypeOK
    <2>2. Back(e) = linkDown[e] \o down[e] /\ Back(e)' = linkDown[e] \o <<a>> \o down[e]
      BY <1>1, <1>2, <2>1 DEF Back
    <2>3. a \in Fresh(e)
      BY DEF Fresh
    <2> HIDE DEF a
    <2>4. QED BY <1>1, <2>2, <2>3, Zenon DEF Edited
  <1>6. CASE SweepUnacknowledged(e) \/ SweepNothing(e)
    <2>1. Hand(e)' = Hand(e) /\ down' = down
      BY <1>6 DEF SweepUnacknowledged, SweepNothing, Hand, TypeOK, LinkTypeOK
    <2>2. QED BY <1>2, <2>1 DEF Back, Edited
  <1>7. QED BY <1>3, <1>4, <1>5, <1>6 DEF Sweep

LEMMA SweepPath ==
    ASSUME TypeOK, NEW e \in End, NEW g \in End, Sweep(g), UNCHANGED macVars
    PROVE  PathEdited(e)
  <1>1. SameAccepted(g) /\ SameAccepted(Peer(e))
    BY PeerFacts, AcceptedSwept DEF TypeOK
  <1>2. linkUp' = linkUp /\ linkDown' = linkDown
    BY DEF macVars
  <1>3. CASE g # e
    <2>1. down'[e] = down[e] /\ pc'[e] = pc[e] /\ buf'[e] = buf[e]
      BY <1>3 DEF Sweep, SweepTransmit, SweepPostpone, Requeue, SweepUnacknowledged,
                  Acknowledge, SweepNothing, TypeOK, LinkTypeOK
    <2>2. QED BY <1>1, <1>2, <1>3, <2>1, PeerFrame
  <1>4. CASE g = e
    <2>1. Front(e)' = Front(e)
      BY <1>1, <1>2, HalfFrames
    <2>2. QED BY <1>4, <2>1, SweepBack, HalfEdited
  <1>5. QED BY <1>3, <1>4

-----------------------------------------------------------------------------
\* The MAC threads touch no variable of the endpoints.
LEMMA MacFrame ==
    ASSUME TypeOK, NEW e \in End, NEW g \in End, Exchange(g) \/ Overrun(g)
    PROVE  /\ Accepted(Peer(e))' = Accepted(Peer(e))
           /\ Hand(e)' = Hand(e) /\ down' = down
           /\ linkDown'[g] = IF linkDown[g] = <<>> THEN <<>> ELSE Tail(linkDown[g])
           /\ g # e => linkDown'[e] = linkDown[e] /\ linkUp'[Peer(e)] = linkUp[Peer(e)]
  <1>1. UNCHANGED linkVars
    BY DEF Exchange, Overrun, TakeFrame
  <1>2. Accepted(Peer(e))' = Accepted(Peer(e)) /\ Hand(e)' = Hand(e) /\ down' = down
    BY <1>1 DEF linkVars, Accepted, InHand, Hand
  <1>3. linkDown'[g] = IF linkDown[g] = <<>> THEN <<>> ELSE Tail(linkDown[g])
    BY DEF Exchange, Overrun, TakeFrame, TypeOK
  <1>4. ASSUME g # e PROVE linkDown'[e] = linkDown[e] /\ linkUp'[Peer(e)] = linkUp[Peer(e)]
    BY <1>4, PeerFacts DEF Exchange, Overrun, TakeFrame, TypeOK
  <1>5. QED BY <1>2, <1>3, <1>4

\* The first PDU of one link's queue leaves it: what is left of the back.
LEMMA BackBehindHead ==
    ASSUME TypeOK, NEW e \in End, NEW g \in End, g = e,
           Exchange(g) \/ Overrun(g), linkDown[e] # <<>>
    PROVE  /\ Head(linkDown[e]) \in Pdu /\ Back(e)' \in Seq(Pdu)
           /\ Back(e) = <<Head(linkDown[e])>> \o Back(e)'
  <1> DEFINE h == Head(linkDown[e])
             t == Tail(linkDown[e])
  <1>1. /\ linkDown[e] \in Seq(Pdu) /\ down[e] \in Seq(Pdu) /\ Hand(e) \in Seq(Pdu)
        /\ h \in Pdu /\ t \in Seq(Pdu) /\ <<h>> \o t = linkDown[e]
    BY PathType, HeadTailProperties, HeadThenTail
  <1>2. <<h>> \in Seq(Pdu)
    BY <1>1
  <1>3. linkDown'[e] = t /\ Hand(e)' = Hand(e) /\ down'[e] = down[e]
    BY MacFrame
  <1>4. Back(e)' = (t \o Hand(e)) \o down[e]
    BY <1>3 DEF Back
  <1> HIDE DEF h, t
  <1>5. t \o Hand(e) \in Seq(Pdu) /\ (t \o Hand(e)) \o down[e] \in Seq(Pdu)
    BY <1>1, ConcatProperties
  <1>A. \A a, b, c \in Seq(Pdu) : a \o (b \o c) = (a \o b) \o c
    BY ConcatAssociative
  <1>6. <<h>> \o ((t \o Hand(e)) \o down[e]) = (<<h>> \o (t \o Hand(e))) \o down[e]
    BY <1>1, <1>2, <1>5, <1>A, Zenon
  <1>7. <<h>> \o (t \o Hand(e)) = (<<h>> \o t) \o Hand(e)
    BY <1>1, <1>2, <1>A, Zenon
  <1>8. Back(e) = <<h>> \o Back(e)'
    BY <1>1, <1>4, <1>6, <1>7 DEF Back
  <1>9. QED BY <1>1, <1>4, <1>5, <1>8 DEF h

(***************************************************************************)
(* A frame crosses the air: the PDU moves along the path; a SYMM that      *)
(* stands for an empty queue is put in.                                    *)
(***************************************************************************)
LEMMA ExchangePath ==
    ASSUME TypeOK, NEW e \in End, NEW g \in End, Exchange(g)
    PROVE  PathEdited(e)
  <1>1. CASE g # e
    <2>1. /\ Accepted(Peer(e))' = Accepted(Peer(e)) /\ Hand(e)' = Hand(e) /\ down' = down
          /\ linkDown'[e] = linkDown[e] /\ linkUp'[Peer(e)] = linkUp[Peer(e)]
      BY <1>1, MacFrame
    <2>2. Path(e)' = Path(e)
      BY <2>1 DEF Path, Front, Back
    <2>3. QED BY <2>2 DEF PathEdited, Edited
  <1>2. CASE g = e
    <2> DEFINE f == Peer(e)
               x == IF linkDown[e] = <<>> THEN Symm ELSE Head(linkDown[e])
    <2>1. /\ Accepted(f) \in Seq(Pdu) /\ linkUp[f] \in Seq(Pdu) /\ linkDown[e] \in Seq(Pdu)
          /\ Front(e) \in Seq(Pdu) /\ Back(e) \in Seq(Pdu)
      BY PathType
    <2>2. x \in Pdu
      BY <2>1, OwnPdus, HeadTailProperties
    <2>3. linkUp'[f] = Append(linkUp[f], x)
      BY <1>2, PeerFacts DEF Exchange, Frame, TypeOK
    <2>4. Front(e)' = Accepted(f) \o Append(linkUp[f], x)
      BY <1>2, <2>3, MacFrame DEF Front
    <2>5. Front(e)' = Append(Front(e), x)
      <3>1. \A s, t \in Seq(Pdu) : \A y \in Pdu : s \o Append(t, y) = Append(s \o t, y)
        BY AppendToLast
      <3>2. Accepted(f) \o Append(linkUp[f], x) = Append(Accepted(f) \o linkUp[f], x)
        BY <2>1, <2>2, <3>1, Zenon
      <3>3. QED BY <2>4, <3>2 DEF Front
    <2>6. Front(e)' = Front(e) \o <<x>>
      BY <2>1, <2>2, <2>5, AppendIsConcat
    <2>7. Path(e)' = (Front(e) \o <<x>>) \o Back(e)'
      BY <2>6 DEF Path
    <2>8. CASE linkDown[e] = <<>>
      <3>1. linkDown'[e] = linkDown[e] /\ Hand(e)' = Hand(e) /\ down'[e] = down[e]
        BY <1>2, <2>8, MacFrame
      <3>2. Back(e)' = Back(e) /\ x = Symm /\ Symm \in Fresh(e)
        BY <2>8, <3>1 DEF Back, Fresh
      <3>3. QED BY <2>1, <2>7, <3>2, Zenon DEF Path, PathEdited, Edited
    <2>9. CASE linkDown[e] # <<>>
      <3>1. x = Head(linkDown[e])
        BY <2>9
      <3>2. Back(e)' \in Seq(Pdu) /\ Back(e) = <<x>> \o Back(e)'
        BY <1>2, <2>9, <3>1, BackBehindHead
      <3>3. \A s, t \in Seq(Pdu) : \A y \in Pdu : s \o (<<y>> \o t) = s \o <<y>> \o t
        BY BetweenQueues
      <3>4. Front(e) \o (<<x>> \o Back(e)') = Front(e) \o <<x>> \o Back(e)'
        BY <2>1, <2>2, <3>2, <3>3, Zenon
      <3>5. Path(e)' = Path(e)
        BY <2>7, <3>2, <3>4 DEF Path
      <3>6. QED BY <3>5 DEF PathEdited, Edited
    <2>10. QED BY <2>8, <2>9
  <1>3. QED BY <1>1, <1>2

\* A MAC thread that gives the link up loses the frame it had taken.
LEMMA OverrunPath ==
    ASSUME TypeOK, NEW e \in End, NEW g \in End, Overrun(g)
    PROVE  PathEdited(e)
  <1>1. linkUp' = linkUp
    BY DEF Overrun
  <1>2. Front(e)' = Front(e)
    BY <1>1, MacFrame DEF Front
  <1>3. CASE g # e \/ linkDown[e] = <<>>
    <2>1. linkDown'[e] = linkDown[e] /\ Hand(e)' = Hand(e) /\ down' = down
      BY <1>3, MacFrame
    <2>2. Path(e)' = Path(e)
      BY <1>2, <2>1 DEF Path, Back
    <2>3. QED BY <2>2 DEF PathEdited, Edited
  <1>4. CASE g = e /\ linkDown[e] # <<>>
    <2> DEFINE h == Head(linkDown[e])
    <2>1. h \in Pdu /\ Back(e)' \in Seq(Pdu) /\ Back(e) = <<h>> \o Back(e)'
      BY <1>4, BackBehindHead
    <2> HIDE DEF h
    <2>2. <<>> \in Seq(Pdu) /\ <<>> \o <<h>> = <<h>> /\ <<>> \o Back(e)' = Back(e)'
      BY <2>1, EmptySeq, ConcatEmptySeq
    <2>3. Back(e) = <<>> \o <<h>> \o Back(e)' /\ Back(e)' = <<>> \o Back(e)'
      BY <2>1, <2>2
    <2>4. Edited(Pdu, Fresh(e), Back(e), Back(e)')
      BY <2>1, <2>2, <2>3, Zenon DEF Edited
    <2>5. QED BY <1>2, <2>4, HalfEdited
  <1>5. QED BY <1>3, <1>4
-----------------------------------------------------------------------------
(***************************************************************************)
(* The service thread: a message enters the path at its end, and no other  *)
(* call touches it.                                                        *)
(***************************************************************************)
LEMMA SendPath ==
    ASSUME TypeOK, NEW e \in End, SendEnqueue(e), UNCHANGED macVars
    PROVE  Path(e)' = Append(Path(e), Stamped(e)) /\ Stamped(e) \in Pdu
  <1>1. app[e] \in Call
    BY DEF SendEnqueue, Idle, TypeOK, LinkTypeOK
  <1>2. Stamped(e) \in Pdu
    BY <1>1 DEF Stamped, Pdu, PduType, Call
  <1>3. /\ linkDown' = linkDown /\ linkUp' = linkUp /\ Hand(e)' = Hand(e)
        /\ down'[e] = Append(down[e], Stamped(e))
    BY DEF SendEnqueue, macVars, Hand, TypeOK, LinkTypeOK
  <1>4. Front(e)' = Front(e)
    <2>1. SameAccepted(Peer(e))
      BY PeerFacts, AcceptedSent DEF TypeOK
    <2>2. QED BY <1>3, <2>1, HalfFrames
  <1>5. \A s, t \in Seq(Pdu) : \A x \in Pdu : s \o Append(t, x) = Append(s \o t, x)
    BY AppendToLast
  <1>6. /\ linkDown[e] \o Hand(e) \in Seq(Pdu) /\ down[e] \in Seq(Pdu)
        /\ Front(e) \in Seq(Pdu) /\ Back(e) \in Seq(Pdu)
    BY PathType
  <1>7. Back(e)' = (linkDown[e] \o Hand(e)) \o Append(down[e], Stamped(e))
    BY <1>3 DEF Back
  <1>8. Back(e)' = Append(Back(e), Stamped(e))
    <2>1. (linkDown[e] \o Hand(e)) \o Append(down[e], Stamped(e))
            = Append((linkDown[e] \o Hand(e)) \o down[e], Stamped(e))
      BY <1>2, <1>5, <1>6, Zenon
    <2>2. QED BY <1>7, <2>1 DEF Back
  <1>9. Front(e) \o Append(Back(e), Stamped(e)) = Append(Front(e) \o Back(e), Stamped(e))
    BY <1>2, <1>5, <1>6, Zenon
  <1>10. QED BY <1>2, <1>4, <1>8, <1>9 DEF Path

LEMMA ServicePath ==
    ASSUME TypeOK, NEW e \in End, NEW g \in End, UNCHANGED macVars,
           \/ \E m : SendCall(g, m)
           \/ SendStamp(g) \/ (SendEnqueue(g) /\ g # e) \/ SendFails(g) \/ Recv(g)
           \/ UNCHANGED linkVars
    PROVE  Same(e) /\ PathEdited(e)
  <1>1. SameAccepted(Peer(e))
    <2>1. CASE Recv(g)
      BY <2>1, PeerFacts, AcceptedReceived DEF TypeOK
    <2>2. CASE UNCHANGED linkVars
      BY <2>2 DEF linkVars, SameAccepted, Accepted, InHand
    <2>3. QED BY <2>1, <2>2, PeerFacts, AcceptedSent DEF TypeOK
  <1>2. /\ linkDown' = linkDown /\ linkUp' = linkUp /\ pc' = pc /\ buf' = buf
        /\ down'[e] = down[e]
    BY DEF macVars, linkVars, SendCall, SendStamp, SendEnqueue, SendFails, Recv,
           TypeOK, LinkTypeOK
  <1>3. Front(e)' = Front(e) /\ Back(e)' = Back(e)
    BY <1>1, <1>2, HalfFrames DEF Hand
  <1>4. QED BY <1>3 DEF Same, Path, PathEdited, Edited

-----------------------------------------------------------------------------
(***************************************************************************)
(* What any step of the system does to the path from e, to the PDUs e has  *)
(* accepted and to the service thread of e.                                *)
(***************************************************************************)
Queues(e) == SendEnqueue(e) /\ Goto(e, AfterSend(e))

LEMMA PathStep ==
    ASSUME TypeOK, NEW e \in End, [Next]_vars
    PROVE  \/ PathEdited(e) /\ ~Queues(e)
           \/ /\ Queues(e)
              /\ Path(e)' = Append(Path(e), Stamped(e)) /\ Stamped(e) \in Pdu
  <1>1. ASSUME NEW g \in End, Arrive(g) PROVE PathEdited(e)
    BY <1>1, ArriveFront, ArriveBack, PeerFacts
  <1>2. ASSUME NEW g \in End, SendDown(g) \/ Exchange(g) \/ Overrun(g) PROVE PathEdited(e)
    BY <1>2, SendDownPath, ExchangePath, OverrunPath
  <1>3. ASSUME NEW g \in End, (Deliver(g) \/ Sweep(g)) /\ UNCHANGED <<macVars, prog>>
        PROVE  PathEdited(e)
    BY <1>3, DeliverPath, SweepPath
  <1>4. ASSUME NEW g \in End, Service(g), ~(g = e /\ Queues(g)) PROVE PathEdited(e)
    <2>1. UNCHANGED macVars
      BY <1>4 DEF Service, ServiceSend, ServiceRecv, ServiceAcknowledged, Goto
    <2>2. \/ \E m : SendCall(g, m)
          \/ SendStamp(g) \/ (SendEnqueue(g) /\ g # e) \/ SendFails(g) \/ Recv(g)
          \/ UNCHANGED linkVars
      BY <1>4 DEF Service, ServiceSend, ServiceRecv, ServiceAcknowledged, Queues
    <2>3. QED BY <2>1, <2>2, ServicePath
  <1>5. ASSUME Queues(e)
        PROVE  Path(e)' = Append(Path(e), Stamped(e)) /\ Stamped(e) \in Pdu
    BY <1>5, SendPath DEF Queues, Goto
  <1>6. ASSUME UNCHANGED vars PROVE PathEdited(e)
    BY <1>6, ServicePath DEF vars
  <1>7. CASE Queues(e)
    BY <1>5, <1>7
  <1>8. CASE ~Queues(e)
    BY <1>1, <1>2, <1>3, <1>4, <1>6, <1>8 DEF Next, Engine
  <1>9. QED BY <1>7, <1>8

LEMMA AcceptedStep ==
    ASSUME TypeOK, NEW e \in End, [Next]_vars
    PROVE  \/ SameAccepted(e)
           \/ /\ linkUp[e] # <<>> /\ Head(linkUp[e]) \in Pdu
              /\ AcceptI(e, Head(linkUp[e]))
              /\ Accepted(e)' = Append(Accepted(e), Head(linkUp[e]))
  <1>1. ASSUME NEW g \in End, Arrive(g)
        PROVE  \/ SameAccepted(e)
               \/ /\ linkUp[e] # <<>> /\ Head(linkUp[e]) \in Pdu
                  /\ AcceptI(e, Head(linkUp[e]))
                  /\ Accepted(e)' = Append(Accepted(e), Head(linkUp[e]))
    <2>1. linkUp[g] # <<>> /\ HandlePdu(g, Head(linkUp[g])) /\ Head(linkUp[g]) \in Pdu
      BY <1>1, HeadTailProperties DEF Arrive, TypeOK
    <2>2. CASE AcceptI(g, Head(linkUp[g]))
      BY <2>1, <2>2, AcceptedGrows DEF TypeOK
    <2>3. CASE ~AcceptI(g, Head(linkUp[g]))
      BY <2>1, <2>3, AcceptedHandled DEF HandlePdu, TypeOK
    <2>4. QED BY <2>2, <2>3
  <1>2. ASSUME NEW g \in End, SendDown(g) PROVE SameAccepted(e)
    BY <1>2, AcceptedSwept DEF SendDown, TypeOK
  <1>3. ASSUME NEW g \in End, Deliver(g) \/ Sweep(g) PROVE SameAccepted(e)
    BY <1>3, AcceptedDelivered, AcceptedSwept DEF TypeOK
  <1>4. ASSUME UNCHANGED linkVars PROVE SameAccepted(e)
    BY <1>4 DEF linkVars, SameAccepted, Accepted, InHand
  <1>5. ASSUME NEW g \in End, Service(g) PROVE SameAccepted(e)
    BY <1>4, <1>5, AcceptedSent, AcceptedReceived
       DEF Service, ServiceSend, ServiceRecv, ServiceAcknowledged, TypeOK
  <1>6. ASSUME NEW g \in End, Exchange(g) \/ Overrun(g) PROVE SameAccepted(e)
    BY <1>4, <1>6 DEF Exchange, Overrun, TakeFrame
  <1>7. QED BY <1>1, <1>2, <1>3, <1>4, <1>5, <1>6 DEF Next, Engine, vars

SameService(e) ==
    app'[e] = app[e] /\ prog'[e] = prog[e] /\ sent'[e] = sent[e] /\ got'[e] = got[e]

LEMMA ServiceStep ==
    ASSUME TypeOK, NEW e \in End, [Next]_vars
    PROVE  SameService(e) \/ Service(e)
  <1> USE DEF SameService, TypeOK, LinkTypeOK
  <1>1. ASSUME NEW g \in End, Arrive(g) PROVE SameService(e)
    BY <1>1 DEF Arrive, HandlePdu, HandleInert, HandleRR, RefuseI, AcceptI, HandleUnsupported
  <1>2. ASSUME NEW g \in End, SendDown(g) PROVE SameService(e)
    BY <1>2 DEF SendDown, HandOver
  <1>3. ASSUME NEW g \in End, (Deliver(g) \/ Sweep(g)) /\ UNCHANGED <<macVars, prog>>
        PROVE  SameService(e)
    BY <1>3 DEF Deliver, Sweep, SweepTransmit, SweepPostpone, Requeue, SweepUnacknowledged,
                Acknowledge, SweepNothing
  <1>4. ASSUME NEW g \in End, Service(g), g # e PROVE SameService(e)
    BY <1>4 DEF Service, ServiceSend, ServiceRecv, ServiceAcknowledged, Goto, linkVars,
                SendCall, SendStamp, SendEnqueue, SendFails, Recv
  <1>5. ASSUME NEW g \in End, Exchange(g) \/ Overrun(g) PROVE SameService(e)
    BY <1>5 DEF Exchange, Overrun, TakeFrame, linkVars
  <1>6. CASE UNCHANGED vars
    BY <1>6 DEF vars, linkVars
  <1>7. QED BY <1>1, <1>2, <1>3, <1>4, <1>5, <1>6 DEF Next, Engine
-----------------------------------------------------------------------------
(***************************************************************************)
(* The invariant behind TypeOK and DeliveredInOrder.  The I PDUs between   *)
(* the two service threads carry increasing message numbers, none above    *)
(* the number of the last message queued; a source of messages numbers     *)
(* them itself, an echo server repeats the number of the message it has    *)
(* just received, which exceeds those it received before because the path  *)
(* to it is in order: the two directions need each other's invariant.      *)
(***************************************************************************)
Places(program) ==
    CASE program = "client" -> {"send", "recv", "wait", "done"}
      [] program = "echo"   -> {"send", "recv", "stopped"}
      [] program = "source" -> {"send"}
      [] program = "sink"   -> {"recv"}

Message == {p \in Pdu : p.ptype = "I" /\ p.info \in 1..MaxSend}
UpTo(n) == {p \in Pdu : p.ptype = "I" => p.info \in 1..n}
Rise    == {pq \in Pdu \X Pdu :
              pq[1].ptype = "I" /\ pq[2].ptype = "I" => pq[1].info < pq[2].info}

\* The number of the last message e may have queued.
LastGot(e) == IF got[e] = <<>> THEN 0 ELSE got[e][Len(got[e])].info
Limit(e)   == CASE Program[e] # "echo"                    -> Len(sent[e])
                [] Program[e] = "echo" /\ prog[e] = "send" -> LastGot(e) - 1
                [] Program[e] = "echo" /\ prog[e] # "send" -> LastGot(e)

ProgramAt(e) ==
    /\ prog[e] \in Places(Program[e])
    /\ Program[e] = "echo" /\ prog[e] = "send" => got[e] # <<>>
    /\ app[e].pc # "idle" => /\ prog[e] = "send"
                             /\ app[e].info = NextMessage(e) /\ app[e].info \in 1..MaxSend
    /\ Limit(e) \in 0..MaxSend

PathAt(e) ==
    /\ Accepted(e) \in Seq(Message)
    /\ Path(e) \in Seq(UpTo(Limit(e)))
    /\ Chained(Rise, Path(e))

PathInv == \A e \in End : ProgramAt(e) /\ PathAt(e)


LEMMA GotMessages ==
    ASSUME TypeOK, NEW e \in End, PathAt(e)
    PROVE  /\ got[e] \in Seq(Message) /\ up[e] \in Seq(Message)
           /\ got[e] # <<>> => LastGot(e) \in 1..MaxSend
           /\ up[e] # <<>> => Head(up[e]) \in Message
  <1>1. got[e] \in Seq(Pdu) /\ up[e] \in Seq(Pdu) /\ InHand(e) \in Seq(Pdu)
    BY AcceptedType DEF TypeOK
  <1>2. got[e] \o up[e] \in Seq(Pdu)
    BY AcceptedType DEF TypeOK
  <1>3. got[e] \o up[e] \in Seq(Message)
    BY <1>1, <1>2, PartsOfSeq DEF PathAt, Accepted
  <1>4. got[e] \in Seq(Message) /\ up[e] \in Seq(Message)
    BY <1>1, <1>3, PartsOfSeq
  <1>5. ASSUME got[e] # <<>> PROVE LastGot(e) \in 1..MaxSend
    <2>1. Len(got[e]) \in 1..Len(got[e])
      BY <1>4, <1>5, EmptySeq, LenProperties
    <2>2. got[e][Len(got[e])] \in Message
      BY <1>4, <2>1, ElementOfSeq
    <2>3. QED BY <1>5, <2>2 DEF Message, LastGot
  <1>6. QED BY <1>4, <1>5, HeadTailProperties

\* What has reached e is in order.
LEMMA AcceptedRises ==
    ASSUME TypeOK, NEW e \in End, PathAt(Peer(e))
    PROVE  Chained(Rise, Accepted(e))
  <1>1. Peer(e) \in End /\ Peer(Peer(e)) = e
    BY PeerFacts
  <1>2. /\ Front(Peer(e)) \in Seq(Pdu) /\ Back(Peer(e)) \in Seq(Pdu)
        /\ Accepted(e) \in Seq(Pdu) /\ linkUp[e] \in Seq(Pdu)
    BY <1>1, PathType
  <1>3. Chained(Rise, Front(Peer(e)))
    BY <1>2, ChainedConcat DEF PathAt, Path
  <1>4. QED BY <1>1, <1>2, <1>3, ChainedConcat DEF Front

\* The path to e is in order: what e receives next exceeds what it received last.
LEMMA LastBeforeHead ==
    ASSUME TypeOK, NEW e \in End, PathAt(e), PathAt(Peer(e)), up[e] # <<>>
    PROVE  LastGot(e) < Head(up[e]).info
  <1>1. /\ got[e] \in Seq(Message) /\ up[e] \in Seq(Message)
        /\ Head(up[e]) \in Message
    BY GotMessages
  <1>2. Chained(Rise, Accepted(e))
    BY AcceptedRises
  <1>3. Linked(Rise, got[e], up[e])
    <2>1. /\ got[e] \o up[e] \in Seq(Pdu) /\ InHand(e) \in Seq(Pdu)
          /\ got[e] \in Seq(Pdu) /\ up[e] \in Seq(Pdu)
      BY AcceptedType DEF TypeOK
    <2>2. Chained(Rise, got[e] \o up[e])
      BY <1>2, <2>1, ChainedConcat DEF Accepted
    <2>3. QED BY <2>1, <2>2, ChainedConcat
  <1>4. CASE got[e] = <<>>
    BY <1>1, <1>4 DEF LastGot, Message
  <1>5. CASE got[e] # <<>>
    <2>1. Len(got[e]) \in 1..Len(got[e]) /\ 1 \in 1..Len(up[e])
      BY <1>1, <1>5, EmptySeq, LenProperties
    <2>2. <<got[e][Len(got[e])], up[e][1]>> \in Rise /\ up[e][1] = Head(up[e])
      BY <1>1, <1>3, <2>1, HeadTailProperties DEF Linked
    <2>3. got[e][Len(got[e])] \in Message
      BY <1>1, <2>1, ElementOfSeq
    <2>4. QED BY <1>1, <1>5, <2>2, <2>3 DEF Rise, Message, LastGot
  <1>6. QED BY <1>4, <1>5

\* A message is numbered one above the last one.
LEMMA NextAboveLimit ==
    ASSUME TypeOK, NEW e \in End, PathAt(e), ProgramAt(e), prog[e] = "send"
    PROVE  /\ NextMessage(e) = Limit(e) + 1 /\ NextMessage(e) \in Nat
           /\ Len(sent[e]) < MaxSend => NextMessage(e) \in 1..MaxSend
  <1>1. Len(sent[e]) \in Nat
    BY LenProperties DEF TypeOK, LinkTypeOK
  <1>2. CASE Program[e] # "echo"
    BY <1>1, <1>2, BoundAssumption DEF NextMessage, Limit
  <1>3. CASE Program[e] = "echo"
    <2>1. got[e] # <<>> /\ LastGot(e) \in 1..MaxSend
      BY <1>3, GotMessages DEF ProgramAt
    <2>2. NextMessage(e) = LastGot(e) /\ Limit(e) = LastGot(e) - 1
      BY <1>3, <2>1 DEF NextMessage, Limit, LastGot
    <2>3. QED BY <2>1, <2>2, BoundAssumption
  <1>4. QED BY <1>2, <1>3


\* A service thread that calls nothing keeps its place and its limit.
LEMMA ProgramSame ==
    ASSUME NEW e \in End, ProgramAt(e), Limit(e) \in Nat, SameService(e)
    PROVE  ProgramAt(e)' /\ Limit(e)' = Limit(e)
  <1>1. NextMessage(e)' = NextMessage(e) /\ LastGot(e)' = LastGot(e)
    BY DEF SameService, NextMessage, LastGot
  <1>2. Limit(e)' = Limit(e)
    BY <1>1 DEF SameService, Limit
  <1>3. QED BY <1>1, <1>2 DEF SameService, ProgramAt

\* A call of llc_connection_send takes the next number, and keeps it.
LEMMA ProgramCalls ==
    ASSUME TypeOK, NEW e \in End, ProgramAt(e), PathAt(e), prog'[e] = prog[e],
           \/ SendCall(e, NextMessage(e)) /\ prog[e] = "send"
           \/ SendStamp(e)
    PROVE  ProgramAt(e)' /\ Limit(e)' = Limit(e)
  <1>1. sent'[e] = sent[e] /\ got'[e] = got[e]
    BY DEF SendCall, SendStamp
  <1>2. NextMessage(e)' = NextMessage(e) /\ Limit(e)' = Limit(e)
    BY <1>1 DEF NextMessage, Limit, LastGot
  <1>3. app'[e].info = NextMessage(e) /\ app'[e].info \in 1..MaxSend /\ prog[e] = "send"
    <2>1. CASE SendCall(e, NextMessage(e)) /\ prog[e] = "send"
      BY <2>1, NextAboveLimit DEF SendCall, TypeOK, LinkTypeOK
    <2>2. CASE SendStamp(e)
      <3>1. app[e] \in Call
        BY <2>2 DEF SendStamp, Idle, TypeOK, LinkTypeOK
      <3>2. \/ app'[e] = [app[e] EXCEPT !.pc = "enqueue", !.ns = dlc[e].s]
            \/ app'[e] = [app[e] EXCEPT !.pc = "enqueue", !.nr = dlc[e].r]
        BY <2>2 DEF SendStamp, TypeOK, LinkTypeOK
      <3>3. app'[e].info = app[e].info
        BY <3>1, <3>2 DEF Call
      <3>4. QED BY <2>2, <3>3 DEF ProgramAt, SendStamp
    <2>3. QED BY <2>1, <2>2
  <1>4. QED BY <1>1, <1>2, <1>3 DEF ProgramAt

\* When it is queued the limit is its number; when the call fails an echo server
\* stops, having passed over one.
LEMMA ProgramQueues ==
    ASSUME TypeOK, NEW e \in End, ProgramAt(e), PathAt(e), Queues(e)
    PROVE  ProgramAt(e)' /\ Limit(e)' = Limit(e) + 1 /\ Stamped(e).info = Limit(e)'
  <1>1. /\ app[e].pc # "idle" /\ app'[e].pc = "idle" /\ got' = got
        /\ sent'[e] = Append(sent[e], app[e].info) /\ prog'[e] = AfterSend(e)
    BY DEF Queues, SendEnqueue, Goto, Idle, TypeOK, LinkTypeOK
  <1>2. prog[e] = "send" /\ app[e].info = NextMessage(e) /\ app[e].info \in 1..MaxSend
    BY <1>1 DEF ProgramAt
  <1>3. NextMessage(e) = Limit(e) + 1
    BY <1>2, NextAboveLimit
  <1>4. Len(sent'[e]) = Len(sent[e]) + 1
    <2>1. sent[e] \in Seq(Payload) /\ app[e].info \in Payload
      BY <1>2, NumberAssumption DEF TypeOK, LinkTypeOK
    <2>2. QED BY <1>1, <2>1, AppendProperties
  <1>5. prog'[e] \in Places(Program[e]) /\ Limit(e)' = Limit(e) + 1
    <2>1. CASE Program[e] # "echo"
      BY <1>1, <1>2, <1>4, <2>1, ProgramAssumption DEF ProgramAt, Places, AfterSend, Limit
    <2>2. CASE Program[e] = "echo"
      <3>1. LastGot(e) \in 1..MaxSend /\ LastGot(e)' = LastGot(e)
        BY <1>1, <1>2, <2>2, GotMessages DEF ProgramAt, LastGot
      <3>2. QED BY <1>1, <1>2, <2>2, <3>1, BoundAssumption DEF Places, AfterSend, Limit
    <2>3. QED BY <2>1, <2>2
  <1>6. Program[e] = "echo" => prog'[e] # "send"
    BY <1>1 DEF AfterSend
  <1>7. Limit(e)' \in 0..MaxSend
    BY <1>2, <1>3, <1>5, BoundAssumption DEF ProgramAt
  <1>8. QED BY <1>1, <1>2, <1>3, <1>5, <1>6, <1>7 DEF ProgramAt, Stamped

LEMMA ProgramFails ==
    ASSUME TypeOK, NEW e \in End, ProgramAt(e), PathAt(e),
           SendFails(e), Goto(e, AfterFailure(e))
    PROVE  ProgramAt(e)' /\ Limit(e)' >= Limit(e)
  <1>1. /\ app[e].pc # "idle" /\ app'[e].pc = "idle" /\ got' = got /\ sent' = sent
        /\ prog'[e] = AfterFailure(e)
    BY DEF SendFails, Goto, Idle, TypeOK, LinkTypeOK
  <1>2. prog[e] = "send"
    BY <1>1 DEF ProgramAt
  <1>3. CASE Program[e] # "echo"
    <2>1. prog'[e] \in Places(Program[e])
      BY <1>1, <1>2, <1>3, ProgramAssumption DEF ProgramAt, Places, AfterFailure, AfterSend
    <2>2. Limit(e)' = Limit(e)
      BY <1>1, <1>3 DEF Limit
    <2>3. QED BY <1>1, <1>3, <2>1, <2>2, BoundAssumption DEF ProgramAt
  <1>4. CASE Program[e] = "echo"
    <2>1. LastGot(e) \in 1..MaxSend /\ LastGot(e)' = LastGot(e)
      BY <1>1, <1>2, <1>4, GotMessages DEF ProgramAt, LastGot
    <2>2. Limit(e)' = Limit(e) + 1 /\ Limit(e)' \in 0..MaxSend
      BY <1>1, <1>2, <1>4, <2>1, BoundAssumption DEF Limit, AfterFailure
    <2>3. prog'[e] \in Places(Program[e]) /\ prog'[e] # "send"
      BY <1>1, <1>4 DEF Places, AfterFailure
    <2>4. QED BY <1>1, <1>4, <2>2, <2>3, BoundAssumption DEF ProgramAt
  <1>5. QED BY <1>3, <1>4

\* An echo server receives a number above the last one it may have sent.
LEMMA ProgramReceives ==
    ASSUME TypeOK, NEW e \in End, ProgramAt(e), PathAt(e), PathAt(Peer(e)), ServiceRecv(e)
    PROVE  ProgramAt(e)' /\ Limit(e)' >= Limit(e)
  <1>1. /\ up[e] # <<>> /\ got'[e] = Append(got[e], Head(up[e])) /\ sent' = sent
        /\ prog[e] = "recv" /\ prog'[e] = AfterRecv(e) /\ app'[e].pc = "idle"
    BY DEF ServiceRecv, Recv, Goto, TypeOK, LinkTypeOK
  <1>2. got[e] \in Seq(Message) /\ Head(up[e]) \in Message
    BY <1>1, GotMessages
  <1>3. got'[e] # <<>> /\ LastGot(e)' = Head(up[e]).info
    <2>1. /\ got'[e] \in Seq(Message) /\ Len(got'[e]) = Len(got[e]) + 1
          /\ got'[e][Len(got[e]) + 1] = Head(up[e]) /\ Len(got[e]) \in Nat
      BY <1>1, <1>2, AppendProperties, LenProperties
    <2>2. got'[e] # <<>>
      BY <2>1, EmptySeq
    <2>3. QED BY <2>1, <2>2 DEF LastGot
  <1>4. Head(up[e]).info \in 1..MaxSend
    BY <1>2 DEF Message
  <1>5. CASE Program[e] # "echo"
    <2>1. prog'[e] \in Places(Program[e])
      BY <1>1, <1>5, ProgramAssumption DEF ProgramAt, Places, AfterRecv
    <2>2. Limit(e)' = Limit(e)
      BY <1>1, <1>5 DEF Limit
    <2>3. QED BY <1>1, <1>5, <2>1, <2>2, BoundAssumption DEF ProgramAt
  <1>6. CASE Program[e] = "echo"
    <2>1. LastGot(e) < Head(up[e]).info
      BY <1>1, LastBeforeHead
    <2>2. LastGot(e) \in Nat
      BY GotMessages DEF LastGot
    <2>3. prog'[e] = "send" /\ Limit(e) = LastGot(e) /\ Limit(e)' = Head(up[e]).info - 1
      BY <1>1, <1>3, <1>6 DEF AfterRecv, Limit
    <2>4. QED
      BY <1>1, <1>3, <1>4, <1>6, <2>1, <2>2, <2>3, BoundAssumption DEF ProgramAt, Places
  <1>7. QED BY <1>5, <1>6

LEMMA ProgramNext ==
    ASSUME TypeOK, NEW e \in End, ProgramAt(e), PathAt(e), PathAt(Peer(e)), [Next]_vars
    PROVE  /\ ProgramAt(e)' /\ Limit(e)' >= Limit(e)
           /\ Queues(e) => Limit(e)' = Limit(e) + 1 /\ Stamped(e).info = Limit(e)'
  <1>1. Limit(e) \in Nat
    BY DEF ProgramAt
  <1>2. CASE Queues(e)
    BY <1>1, <1>2, ProgramQueues
  <1>3. ASSUME SameService(e) PROVE ProgramAt(e)' /\ Limit(e)' >= Limit(e)
    BY <1>1, <1>3, ProgramSame
  <1>4. ASSUME Service(e), ~Queues(e) PROVE ProgramAt(e)' /\ Limit(e)' >= Limit(e)
    <2>1. ASSUME (prog[e] = "send" /\ SendCall(e, NextMessage(e))) \/ SendStamp(e),
                 Goto(e, prog[e])
          PROVE  ProgramAt(e)' /\ Limit(e)' >= Limit(e)
      <3>1. prog'[e] = prog[e]
        BY <2>1 DEF Goto, TypeOK
      <3>2. QED BY <1>1, <2>1, <3>1, ProgramCalls
    <2>2. ASSUME ServiceAcknowledged(e) PROVE ProgramAt(e)' /\ Limit(e)' >= Limit(e)
      <3>1. /\ UNCHANGED linkVars /\ prog[e] = "wait" /\ app[e].pc = "idle"
            /\ prog'[e] \in {"send", "done"}
        BY <2>2 DEF ServiceAcknowledged, Goto, ProgramAt, TypeOK
      <3>2. Program[e] = "client"
        BY <3>1, ProgramAssumption DEF ProgramAt, Places
      <3>3. Limit(e)' = Limit(e) /\ app'[e].pc = "idle"
        BY <3>1, <3>2 DEF Limit, linkVars
      <3>4. prog'[e] \in Places("client")
        BY <3>1 DEF Places
      <3>5. QED BY <1>1, <3>2, <3>3, <3>4 DEF ProgramAt
    <2>3. QED
      BY <1>4, <2>1, <2>2, ProgramFails, ProgramReceives DEF Service, ServiceSend, Queues
  <1>5. QED BY <1>1, <1>2, <1>3, <1>4, ServiceStep


\* No PDU the engine or the MAC thread makes itself carries a message.
LEMMA FreshCarriesNothing ==
    ASSUME TypeOK, NEW e \in End, NEW n \in Nat
    PROVE  /\ Fresh(e) \subseteq UpTo(n)
           /\ \A x \in Fresh(e) : \A y \in Pdu : <<y, x>> \in Rise /\ <<x, y>> \in Rise
  <1>1. ASSUME NEW x \in Fresh(e) PROVE x \in Pdu /\ x.ptype # "I"
    <2>1. x \in Pdu
      BY PathType
    <2>2. CASE x = Symm \/ x = Frmr
      BY <2>1, <2>2 DEF Symm, Frmr
    <2>3. CASE \E type \in {"RR", "RNR"} : x = Ack(type, dlc[e])
      BY <2>1, <2>3 DEF Ack
    <2>4. QED BY <2>2, <2>3 DEF Fresh
  <1>2. QED BY <1>1 DEF UpTo, Rise

LEMMA PathNext ==
    ASSUME TypeOK, NEW e \in End, PathInv, [Next]_vars
    PROVE  PathAt(e)'
  <1> DEFINE n == Limit(e)
             m == Limit(e)'
  <1>1. Peer(e) \in End /\ Peer(Peer(e)) = e
    BY PeerFacts
  <1>2. ProgramAt(e) /\ PathAt(e) /\ ProgramAt(Peer(e)) /\ PathAt(Peer(e))
    BY <1>1 DEF PathInv
  <1>3. n \in Nat /\ m \in Nat /\ n <= m
    BY <1>2, ProgramNext, BoundAssumption DEF ProgramAt
  <1>4. Path(e) \in Seq(UpTo(n)) /\ Chained(Rise, Path(e)) /\ Path(e) \in Seq(Pdu)
    BY <1>2, PathType DEF PathAt
  <1>5. Path(e) \in Seq(UpTo(m))
    BY <1>3, <1>4 DEF UpTo
  <1>6. Path(e)' \in Seq(UpTo(m)) /\ Chained(Rise, Path(e)')
    <2>1. CASE PathEdited(e)
      <3>1. Fresh(e) \in SUBSET Pdu
        BY PathType
      <3>2. /\ Fresh(e) \subseteq UpTo(m)
            /\ \A x \in Fresh(e) : \A y \in Pdu : <<y, x>> \in Rise /\ <<x, y>> \in Rise
        BY <1>3, FreshCarriesNothing
      <3>3. Path(e)' \in Seq(UpTo(m))
        BY <1>4, <1>5, <2>1, <3>1, <3>2, EditedSeq DEF PathEdited
      <3>4. Chained(Rise, Path(e)')
        BY <1>4, <2>1, <3>1, <3>2, EditedChained DEF PathEdited
      <3>5. QED BY <3>3, <3>4
    <2>2. CASE /\ Queues(e)
               /\ Path(e)' = Append(Path(e), Stamped(e)) /\ Stamped(e) \in Pdu
      <3>1. m = n + 1 /\ Stamped(e).info = m
        BY <1>2, <2>2, ProgramNext
      <3>2. Stamped(e) \in UpTo(m)
        BY <1>3, <2>2, <3>1 DEF UpTo
      <3>3. \A y \in UpTo(n) : <<y, Stamped(e)>> \in Rise
        BY <1>3, <2>2, <3>1 DEF UpTo, Rise
      <3>4. Path(e)' \in Seq(UpTo(m))
        BY <1>5, <2>2, <3>2, AppendProperties
      <3>5. Chained(Rise, Path(e)')
        BY <1>4, <2>2, <3>3, ChainedAppend
      <3>6. QED BY <3>4, <3>5
    <2>3. QED BY <2>1, <2>2, PathStep
  <1>7. Accepted(e)' \in Seq(Message)
    <2>1. CASE SameAccepted(e)
      BY <1>2, <2>1 DEF SameAccepted, PathAt
    <2>2. CASE /\ linkUp[e] # <<>> /\ Head(linkUp[e]) \in Pdu
               /\ AcceptI(e, Head(linkUp[e]))
               /\ Accepted(e)' = Append(Accepted(e), Head(linkUp[e]))
      <3>1. Head(linkUp[e]) \in UpTo(Limit(Peer(e)))
        BY <1>1, <1>2, <2>2, OnPath DEF PathAt
      <3>2. Limit(Peer(e)) \in 0..MaxSend
        BY <1>2 DEF ProgramAt
      <3>3. Head(linkUp[e]) \in Message
        BY <2>2, <3>1, <3>2, BoundAssumption DEF AcceptI, UpTo, Message
      <3>4. QED BY <1>2, <2>2, <3>3, AppendProperties DEF PathAt
    <2>3. QED BY <2>1, <2>2, AcceptedStep
  <1>8. QED BY <1>6, <1>7 DEF PathAt
-----------------------------------------------------------------------------
\* The types of the queues between the engines and the MAC threads.
MacTypeOK ==
    /\ linkUp \in [End -> Seq(Pdu)]
    /\ linkDown \in [End -> Seq(Pdu)]
    /\ \A e \in End : Len(linkUp[e]) <= MaxMsg /\ Len(linkDown[e]) <= MaxMsg
    /\ turn \in End
    /\ radio \in {"up", "broken"}

LEMMA MacTypeEngine ==
    ASSUME TypeOK, NEW g \in End, Engine(g)
    PROVE  MacTypeOK'
  <1>1. CASE Arrive(g)
    <2>1. /\ Tail(linkUp[g]) \in Seq(Pdu) /\ Len(linkUp[g]) \in Nat
          /\ Len(Tail(linkUp[g])) = Len(linkUp[g]) - 1
      BY <1>1, HeadTailProperties, LenProperties DEF Arrive, TypeOK
    <2>2. QED BY <1>1, <2>1 DEF Arrive, TypeOK, MacTypeOK, MaxMsg
  <1>2. CASE SendDown(g)
    <2>1. linkDown[g] \in Seq(Pdu) /\ buf[g] \in Pdu
      BY DEF TypeOK, LinkTypeOK
    <2>2. /\ Append(linkDown[g], buf[g]) \in Seq(Pdu) /\ Len(linkDown[g]) \in Nat
          /\ Len(Append(linkDown[g], buf[g])) = Len(linkDown[g]) + 1
      BY <2>1, AppendProperties, LenProperties
    <2>3. QED BY <1>2, <2>2 DEF SendDown, TypeOK, MacTypeOK, MaxMsg
  <1>3. CASE UNCHANGED <<macVars, prog>>
    BY <1>3 DEF macVars, TypeOK, MacTypeOK
  <1>4. QED BY <1>1, <1>2, <1>3 DEF Engine

LEMMA MacTypeExchange ==
    ASSUME TypeOK, NEW g \in End, Exchange(g) \/ Overrun(g)
    PROVE  MacTypeOK'
  <1>1. Peer(g) \in End /\ linkDown[g] \in Seq(Pdu) /\ linkUp[Peer(g)] \in Seq(Pdu)
    BY PeerFacts DEF TypeOK
  <1>2. linkDown[g] # <<>> => /\ Tail(linkDown[g]) \in Seq(Pdu)
                              /\ Len(Tail(linkDown[g])) = Len(linkDown[g]) - 1
    BY <1>1, HeadTailProperties
  <1>3. Len(linkDown[g]) \in Nat
    BY <1>1, LenProperties
  <1>4. /\ linkDown' \in [End -> Seq(Pdu)] /\ turn' \in End
        /\ \A e \in End : Len(linkDown'[e]) <= MaxMsg
    <2>1. TakeFrame(g)
      BY DEF Exchange, Overrun
    <2>2. CASE linkDown[g] = <<>>
      BY <1>1, <2>1, <2>2 DEF TakeFrame, TypeOK
    <2>3. CASE linkDown[g] # <<>>
      BY <1>1, <1>2, <1>3, <2>1, <2>3 DEF TakeFrame, TypeOK, MaxMsg
    <2>4. QED BY <2>2, <2>3
  <1>5. Frame(g) \in Pdu
    BY <1>1, OwnPdus, HeadTailProperties DEF Frame
  <1>6. /\ Append(linkUp[Peer(g)], Frame(g)) \in Seq(Pdu) /\ Len(linkUp[Peer(g)]) \in Nat
        /\ Len(Append(linkUp[Peer(g)], Frame(g))) = Len(linkUp[Peer(g)]) + 1
    BY <1>1, <1>5, AppendProperties, LenProperties
  <1>7. /\ linkUp' \in [End -> Seq(Pdu)] /\ radio' \in {"up", "broken"}
        /\ \A e \in End : Len(linkUp'[e]) <= MaxMsg
    <2>1. CASE Exchange(g)
      BY <1>1, <1>6, <2>1 DEF Exchange, TypeOK, MaxMsg
    <2>2. CASE Overrun(g)
      BY <2>2 DEF Overrun, TypeOK
    <2>3. QED BY <2>1, <2>2
  <1>8. QED BY <1>4, <1>7 DEF MacTypeOK

\* Every message a service thread numbers is an information field.
LEMMA ServiceMessage ==
    ASSUME TypeOK, PathInv, NEW g \in End, prog[g] = "send", SendCall(g, NextMessage(g))
    PROVE  NextMessage(g) \in Payload
  <1>1. ProgramAt(g) /\ PathAt(g) /\ Len(sent[g]) < MaxSend
    BY DEF PathInv, SendCall
  <1>2. NextMessage(g) \in 1..MaxSend
    BY <1>1, NextAboveLimit
  <1>3. QED BY <1>2, NumberAssumption

LEMMA TypeNext ==
    ASSUME TypeOK, PathInv, [Next]_vars
    PROVE  TypeOK'
  <1>1. LinkTypeOK' /\ MacTypeOK'
    <2>1. ASSUME NEW g \in End, Engine(g) PROVE LinkTypeOK'
      <3>1. CASE Arrive(g)
        <4>1. Head(linkUp[g]) \in Pdu /\ HandlePdu(g, Head(linkUp[g]))
          BY <3>1, HeadTailProperties DEF Arrive, TypeOK
        <4>2. QED BY <4>1, LinkTypeHandle DEF TypeOK
      <3>2. CASE SendDown(g) \/ Deliver(g) \/ Sweep(g)
        BY <3>2, LinkTypeEngine DEF SendDown, TypeOK
      <3>3. QED BY <2>1, <3>1, <3>2 DEF Engine
    <2>2. ASSUME NEW g \in End, Service(g) PROVE LinkTypeOK' /\ MacTypeOK'
      <3>1. UNCHANGED macVars
        BY <2>2 DEF Service, ServiceSend, ServiceRecv, ServiceAcknowledged, Goto
      <3>2. MacTypeOK'
        BY <3>1 DEF macVars, TypeOK, MacTypeOK
      <3>3. LinkTypeOK'
        BY <2>2, ServiceMessage, LinkTypeService, LinkTypeStutter
           DEF Service, ServiceSend, ServiceRecv, ServiceAcknowledged, TypeOK
      <3>4. QED BY <3>2, <3>3
    <2>3. ASSUME NEW g \in End, Exchange(g) \/ Overrun(g) PROVE LinkTypeOK'
      BY <2>3, LinkTypeStutter DEF Exchange, Overrun, TakeFrame, TypeOK
    <2>4. ASSUME UNCHANGED vars PROVE LinkTypeOK' /\ MacTypeOK'
      BY <2>4, LinkTypeStutter DEF vars, macVars, TypeOK, MacTypeOK
    <2>5. QED BY <2>1, <2>2, <2>3, <2>4, MacTypeEngine, MacTypeExchange DEF Next
  <1>2. prog' \in [End -> {"send", "recv", "wait", "done", "stopped"}]
    <2>1. ASSUME NEW g \in End, Service(g)
          PROVE  prog' \in [End -> {"send", "recv", "wait", "done", "stopped"}]
      <3>1. ASSUME NEW label, Goto(g, label),
                   label \in {"send", "recv", "wait", "done", "stopped"}
            PROVE  prog' \in [End -> {"send", "recv", "wait", "done", "stopped"}]
        BY <3>1 DEF Goto, TypeOK
      <3>2. prog[g] \in {"send", "recv", "wait", "done", "stopped"}
        BY DEF TypeOK
      <3>3. /\ AfterSend(g) \in {"send", "recv"} /\ AfterFailure(g) \in {"send", "recv", "stopped"}
        BY DEF AfterSend, AfterFailure
      <3>4. CASE ServiceSend(g)
        BY <3>1, <3>2, <3>3, <3>4 DEF ServiceSend
      <3>5. CASE ServiceRecv(g)
        <4>1. Program[g] # "source"
          BY <3>5 DEF PathInv, ProgramAt, Places, ServiceRecv
        <4>2. AfterRecv(g) \in {"send", "recv", "wait"}
          BY <4>1, ProgramAssumption DEF AfterRecv
        <4>3. QED BY <3>1, <3>5, <4>2 DEF ServiceRecv
      <3>6. CASE ServiceAcknowledged(g)
        BY <3>1, <3>6 DEF ServiceAcknowledged
      <3>7. QED BY <2>1, <3>4, <3>5, <3>6 DEF Service
    <2>2. ASSUME NEW g \in End, Engine(g) \/ Exchange(g) \/ Overrun(g) PROVE prog' = prog
      BY <2>2 DEF Engine, Arrive, SendDown, Exchange, Overrun, TakeFrame
    <2>3. QED BY <2>1, <2>2 DEF Next, vars, TypeOK
  <1>3. QED BY <1>1, <1>2 DEF TypeOK, MacTypeOK

-----------------------------------------------------------------------------
LEMMA StartsTyped == Init => TypeOK
  <1> SUFFICES ASSUME Init PROVE TypeOK
    OBVIOUS
  <1>1. <<>> \in Seq(Pdu) /\ <<>> \in Seq(Payload) /\ Len(<<>>) = 0
    OBVIOUS
  <1>2. [s |-> Start, sa |-> Start, r |-> Start, ra |-> Start] \in State
    BY StartAssumption DEF State, Seq16
  <1>3. LinkTypeOK
    BY <1>1, <1>2, OwnPdus DEF Init, LinkInit, LinkTypeOK, EnginePc, MaxMsg
  <1>4. QED BY <1>1, <1>3 DEF Init, TypeOK, MaxMsg

LEMMA StartsEmpty ==
    ASSUME Init, NEW e \in End
    PROVE  Accepted(e) = <<>> /\ Path(e) = <<>>
  <1>1. Peer(e) \in End
    BY PeerFacts
  <1>2. /\ \A f \in End : Accepted(f) = <<>> /\ linkUp[f] = <<>>
        /\ linkDown[e] = <<>> /\ Hand(e) = <<>> /\ down[e] = <<>>
    BY DEF Init, LinkInit, Accepted, InHand, Hand
  <1>3. QED BY <1>1, <1>2 DEF Path, Front, Back

LEMMA StartsInOrder == Init => PathInv
  <1> SUFFICES ASSUME Init, NEW e \in End PROVE ProgramAt(e) /\ PathAt(e)
    BY DEF PathInv
  <1>1. ProgramAt(e)
    <2>1. /\ prog[e] = IF Program[e] \in {"client", "source"} THEN "send" ELSE "recv"
          /\ app[e].pc = "idle" /\ sent[e] = <<>> /\ got[e] = <<>> /\ Len(<<>>) = 0
      BY DEF Init, LinkInit, Idle
    <2>2. prog[e] \in Places(Program[e]) /\ (Program[e] = "echo" => prog[e] = "recv")
      BY <2>1, ProgramAssumption DEF Places
    <2>3. Limit(e) = 0
      BY <2>1, <2>2 DEF Limit, LastGot
    <2>4. QED BY <2>1, <2>2, <2>3, BoundAssumption DEF ProgramAt
  <1>2. PathAt(e)
    <2>1. Accepted(e) = <<>> /\ Path(e) = <<>>
      BY StartsEmpty
    <2>2. QED BY <2>1, ShortChains DEF PathAt
  <1>3. QED BY <1>1, <1>2

LEMMA PathSteps == TypeOK /\ PathInv /\ [Next]_vars => TypeOK' /\ PathInv'
  <1> SUFFICES ASSUME TypeOK, PathInv, [Next]_vars PROVE TypeOK' /\ PathInv'
    OBVIOUS
  <1>1. ASSUME NEW e \in End PROVE ProgramAt(e)' /\ PathAt(e)'
    BY PeerFacts, ProgramNext, PathNext DEF PathInv
  <1>2. QED BY <1>1, TypeNext DEF PathInv

LEMMA PathAlways == Spec => [](TypeOK /\ PathInv)
  <1>1. Init => TypeOK /\ PathInv
    BY StartsTyped, StartsInOrder
  <1>2. QED BY <1>1, PathSteps, PTL DEF Spec

(***************************************************************************)
(* Every variable keeps its type and no queue grows above mq_maxmsg,       *)
(* whatever programs the two service threads run.                          *)
(***************************************************************************)
THEOREM TypeCorrect == Spec => []TypeOK
  BY PathAlways, PTL

(***************************************************************************)
(* The message numbers a service thread receives only go up: nothing is    *)
(* delivered twice or out of order, for every pair of programs, window and *)
(* start of the sequence numbers, with frames lost to an overrun and a     *)
(* sequence number stamped before the other half of it.                    *)
(***************************************************************************)
THEOREM InOrder == Spec => []DeliveredInOrder
  <1>1. ASSUME TypeOK, PathInv, NEW e \in End,
               NEW i \in 1..Len(Accepted(e)), NEW j \in 1..Len(Accepted(e)), i < j
        PROVE  Accepted(e)[i].info < Accepted(e)[j].info
    <2>1. Chained(Rise, Accepted(e))
      BY <1>1, AcceptedRises, PeerFacts DEF PathInv
    <2>2. Accepted(e) \in Seq(Message)
      BY <1>1 DEF PathInv, PathAt
    <2>3. Accepted(e)[i] \in Message /\ Accepted(e)[j] \in Message
      BY <1>1, <2>2, ElementOfSeq
    <2>4. <<Accepted(e)[i], Accepted(e)[j]>> \in Rise
      BY <1>1, <2>1 DEF Chained
    <2>5. QED BY <2>3, <2>4 DEF Rise, Message
  <1>2. TypeOK /\ PathInv => DeliveredInOrder
    BY <1>1 DEF DeliveredInOrder
  <1>3. QED BY <1>2, PathAlways, PTL

-----------------------------------------------------------------------------
(***************************************************************************)
(* The invariant behind AckedWasAccepted.  V(R) counts what e has accepted *)
(* (GaplessAt), so every N(R) e has ever stamped on a PDU is one of Acks;  *)
(* such a PDU may be stale when its turn comes but never early, and V(SA)  *)
(* of the peer is one of the N(R) that reached it.                         *)
(***************************************************************************)
Acks(e)   == {(Start + k) % 16 : k \in 0..Len(Accepted(e))}
Acking(e) == {p \in Pdu : p.ptype \in {"I", "RR", "RNR"} => p.nr \in Acks(e)}

AckAt(e) ==
    /\ GaplessAt(e)
    /\ Path(e) \in Seq(Acking(e))
    /\ app[e].pc # "idle" => app[e].nr \in Acks(e)
    /\ dlc[Peer(e)].sa \in Acks(e)

AckInv == \A e \in End : AckAt(e)

\* What may be acknowledged only grows, and V(R) is the last of it.
LEMMA AcksGrow ==
    ASSUME TypeOK, NEW e \in End, GaplessAt(e), [Next]_vars
    PROVE  GaplessAt(e)' /\ Acks(e) \subseteq Acks(e)' /\ dlc[e].r \in Acks(e)
  <1>1. Accepted(e) \in Seq(Pdu) /\ Len(Accepted(e)) \in Nat
    BY AcceptedType DEF TypeOK
  <1>2. dlc[e].r \in Acks(e)
    BY <1>1 DEF GaplessAt, Acks
  <1>3. CASE SameAccepted(e)
    BY <1>2, <1>3 DEF SameAccepted, GaplessAt, Acks
  <1>4. CASE /\ Head(linkUp[e]) \in Pdu /\ AcceptI(e, Head(linkUp[e]))
             /\ Accepted(e)' = Append(Accepted(e), Head(linkUp[e]))
    <2>1. Len(Accepted(e)') = Len(Accepted(e)) + 1
      BY <1>1, <1>4, AppendProperties
    <2>2. Acks(e) \subseteq Acks(e)'
      BY <1>1, <2>1 DEF Acks
    <2>3. QED BY <1>2, <1>4, <2>2, GaplessGrows DEF TypeOK
  <1>5. QED BY <1>3, <1>4, AcceptedStep

\* V(SA) is the N(R) of a RR or I PDU the link brought, and nothing else.
LEMMA AcknowledgedStep ==
    ASSUME TypeOK, NEW e \in End, [Next]_vars
    PROVE  \/ dlc'[e].sa = dlc[e].sa
           \/ /\ linkUp[e] # <<>> /\ Head(linkUp[e]).ptype \in {"RR", "I"}
              /\ dlc'[e].sa = Head(linkUp[e]).nr
  <1> DEFINE Goal == \/ dlc'[e].sa = dlc[e].sa
                     \/ /\ linkUp[e] # <<>> /\ Head(linkUp[e]).ptype \in {"RR", "I"}
                        /\ dlc'[e].sa = Head(linkUp[e]).nr
  <1>1. dlc \in [End -> State]
    BY DEF TypeOK, LinkTypeOK
  <1>2. ASSUME NEW g \in End, Arrive(g) PROVE Goal
    BY <1>1, <1>2 DEF Arrive, HandlePdu, HandleInert, HandleRR, RefuseI, AcceptI,
                      HandleUnsupported, State
  <1>3. ASSUME NEW g \in End, SendDown(g) \/ Deliver(g) \/ Sweep(g) PROVE Goal
    BY <1>1, <1>3 DEF SendDown, HandOver, Deliver, Sweep, SweepTransmit, SweepPostpone,
                      Requeue, SweepUnacknowledged, Acknowledge, SweepNothing, State
  <1>4. ASSUME NEW g \in End, Service(g) \/ Exchange(g) \/ Overrun(g) PROVE Goal
    BY <1>4 DEF Service, ServiceSend, ServiceRecv, ServiceAcknowledged, SendCall, SendStamp,
                SendEnqueue, SendFails, Recv, linkVars, Exchange, Overrun, TakeFrame
  <1>5. CASE UNCHANGED vars
    BY <1>5 DEF vars, linkVars
  <1>6. QED BY <1>2, <1>3, <1>4, <1>5 DEF Next, Engine

\* The N(R) of a call in progress is the one it took or V(R).
LEMMA CallStep ==
    ASSUME TypeOK, NEW e \in End, [Next]_vars, app'[e].pc # "idle"
    PROVE  \/ app[e].pc # "idle" /\ app'[e].nr = app[e].nr
           \/ app'[e].nr = dlc[e].r
  <1>1. CASE SameService(e)
    BY <1>1 DEF SameService
  <1>2. ASSUME SendCall(e, NextMessage(e)) PROVE app'[e].nr = dlc[e].r
    BY <1>2 DEF SendCall, TypeOK, LinkTypeOK
  <1>3. ASSUME SendStamp(e)
        PROVE  \/ app[e].pc # "idle" /\ app'[e].nr = app[e].nr
               \/ app'[e].nr = dlc[e].r
    <2>1. app[e] \in Call /\ app[e].pc # "idle"
      BY <1>3 DEF SendStamp, Idle, TypeOK, LinkTypeOK
    <2>2. \/ app'[e] = [app[e] EXCEPT !.pc = "enqueue", !.ns = dlc[e].s]
          \/ app'[e] = [app[e] EXCEPT !.pc = "enqueue", !.nr = dlc[e].r]
      BY <1>3 DEF SendStamp, TypeOK, LinkTypeOK
    <2>3. QED BY <2>1, <2>2 DEF Call
  <1>4. ASSUME SendEnqueue(e) \/ SendFails(e) PROVE FALSE
    BY <1>4 DEF SendEnqueue, SendFails, Idle, TypeOK, LinkTypeOK
  <1>5. ASSUME ServiceRecv(e) \/ ServiceAcknowledged(e) PROVE app'[e] = app[e]
    BY <1>5 DEF ServiceRecv, Recv, ServiceAcknowledged, linkVars
  <1>6. QED
    BY <1>1, <1>2, <1>3, <1>4, <1>5, ServiceStep DEF Service, ServiceSend

LEMMA AckNext ==
    ASSUME TypeOK, AckInv, [Next]_vars, NEW e \in End
    PROVE  AckAt(e)'
  <1>1. Peer(e) \in End /\ AckAt(e)
    BY PeerFacts DEF AckInv
  <1>2. GaplessAt(e)' /\ Acks(e) \subseteq Acks(e)' /\ dlc[e].r \in Acks(e)
    BY <1>1, AcksGrow DEF AckAt
  <1>3. dlc'[Peer(e)].sa \in Acks(e)'
    <2>1. ASSUME linkUp[Peer(e)] # <<>>, Head(linkUp[Peer(e)]).ptype \in {"RR", "I"}
          PROVE  Head(linkUp[Peer(e)]).nr \in Acks(e)
      <3>1. Head(linkUp[Peer(e)]) \in Acking(e)
        BY <1>1, <2>1, OnPath DEF AckAt
      <3>2. QED BY <2>1, <3>1 DEF Acking
    <2>2. QED BY <1>1, <1>2, <2>1, AcknowledgedStep DEF AckAt
  <1>4. app'[e].pc # "idle" => app'[e].nr \in Acks(e)'
    BY <1>1, <1>2, CallStep DEF AckAt
  <1>5. Acking(e) \subseteq Acking(e)'
    BY <1>2 DEF Acking
  <1>6. Path(e)' \in Seq(Acking(e))
    <2>1. CASE PathEdited(e)
      <3>1. Fresh(e) \in SUBSET Pdu /\ Path(e) \in Seq(Pdu)
        BY PathType
      <3>2. ASSUME NEW x \in Fresh(e) PROVE x \in Acking(e)
        <4>1. CASE x = Symm \/ x = Frmr
          BY <3>1, <4>1 DEF Acking, Symm, Frmr
        <4>2. CASE \E type \in {"RR", "RNR"} : x = Ack(type, dlc[e])
          BY <1>2, <3>1, <4>2 DEF Acking, Ack
        <4>3. QED BY <3>2, <4>1, <4>2 DEF Fresh
      <3>3. QED BY <1>1, <2>1, <3>1, <3>2, EditedSeq DEF PathEdited, AckAt
    <2>2. CASE /\ Queues(e)
               /\ Path(e)' = Append(Path(e), Stamped(e)) /\ Stamped(e) \in Pdu
      <3>1. app[e].pc # "idle" /\ Stamped(e).nr = app[e].nr
        BY <2>2 DEF Queues, SendEnqueue, Stamped
      <3>2. Stamped(e) \in Acking(e)
        BY <1>1, <2>2, <3>1 DEF AckAt, Acking
      <3>3. QED BY <1>1, <2>2, <3>2, AppendProperties DEF AckAt
    <2>3. QED BY <2>1, <2>2, PathStep
  <1>7. Path(e)' \in Seq(Acking(e)')
    BY <1>5, <1>6
  <1>8. Peer(e)' = Peer(e)
    BY DEF Peer
  <1>9. QED BY <1>2, <1>3, <1>4, <1>7, <1>8 DEF AckAt

LEMMA AckStart == Init => AckInv
  <1> SUFFICES ASSUME Init, NEW e \in End PROVE AckAt(e)
    BY DEF AckInv
  <1>1. Accepted(e) = <<>> /\ Path(e) = <<>> /\ Len(<<>>) = 0
    BY StartsEmpty
  <1>2. GaplessAt(e)
    BY GaplessStart DEF Init
  <1>3. app[e].pc = "idle" /\ dlc[Peer(e)].sa = Start
    BY PeerFacts DEF Init, LinkInit, Idle
  <1>4. Start \in Acks(e)
    BY <1>1, StartAssumption DEF Acks
  <1>5. QED BY <1>1, <1>2, <1>3, <1>4 DEF AckAt

LEMMA AckAlways == Spec => [](TypeOK /\ AckInv)
  <1>1. TypeOK /\ AckInv /\ [Next]_vars => AckInv'
    BY AckNext DEF AckInv
  <1>2. QED BY <1>1, AckStart, PathAlways, PTL DEF Spec

(***************************************************************************)
(* V(SA) never runs ahead of the other side: whatever N(R) an endpoint     *)
(* takes from a RR or an I PDU, even one stamped long before it was sent,  *)
(* counts I PDUs its peer has accepted.                                    *)
(***************************************************************************)
THEOREM AckedOnlyAccepted == Spec => []AckedWasAccepted
  <1>1. ASSUME TypeOK, AckInv, NEW e \in End
        PROVE  (dlc[e].sa - Start) % 16 <= Len(Accepted(Peer(e)))
    <2>1. Peer(e) \in End /\ Peer(Peer(e)) = e
      BY PeerFacts
    <2>2. PICK k \in 0..Len(Accepted(Peer(e))) : dlc[e].sa = (Start + k) % 16
      BY <1>1, <2>1 DEF AckInv, AckAt, Acks
    <2>3. Len(Accepted(Peer(e))) \in Nat
      BY <1>1, <2>1, AcceptedType DEF TypeOK
    <2>4. (((Start + k) % 16) - Start) % 16 <= k
      BY <2>2, <2>3, StartAssumption
    <2>5. (dlc[e].sa - Start) % 16 <= k
      BY <2>2, <2>4, Zenon
    <2>6. /\ k \in Nat /\ k <= Len(Accepted(Peer(e)))
          /\ (dlc[e].sa - Start) % 16 \in Int
      <3>1. (Start + k) % 16 \in Int /\ (((Start + k) % 16) - Start) % 16 \in Int
        BY <2>2, StartAssumption
      <3>2. QED BY <2>2, <2>3, <3>1
    <2>7. QED BY <2>3, <2>5, <2>6
  <1>2. TypeOK /\ AckInv => AckedWasAccepted
    BY <1>1 DEF AckedWasAccepted
  <1>3. QED BY <1>2, AckAlways, PTL

-----------------------------------------------------------------------------
(***************************************************************************)
(* A client and an echo server.  They take turns, so a message is on its   *)
(* way only when every earlier one has been received and answered: the     *)
(* k-th message accepted has number k, nothing is dropped on the way, at   *)
(* most one message waits in a llc_up, and so no engine ever finds it full *)
(* and answers RNR, the PDU that makes the other engine abort.             *)
(***************************************************************************)
Lockstep == \E c \in End : Program[c] = "client" /\ Program[Peer(c)] = "echo"

\* PDUs that number messages up to n and stop no engine.
Calm(n) == {p \in UpTo(n) : p.ptype # "RNR"}

\* How many messages were sent, received, wait for the service thread, were accepted.
Given(e)   == Len(sent[e])
Taken(e)   == Len(got[e])
Waiting(e) == Len(up[e])
Reached(e) == Len(Accepted(e))

TurnAt(e) ==
    /\ Program[e] = "client" => Given(e) <= Taken(e) + (IF prog[e] = "recv" THEN 1 ELSE 0)
    /\ Program[e] = "echo" => /\ Given(e) <= Taken(e)
                              /\ prog[e] = "send" => Taken(e) = Given(e) + 1
                              /\ prog[e] = "recv" => Taken(e) = Given(e)
    /\ \A k \in 1..Given(e) : sent[e][k] = k

CalmAt(e) ==
    /\ \A k \in 1..Reached(e) : Accepted(e)[k].info = k
    /\ Path(e) \in Seq(Calm(Given(e)))
    /\ Alive(e)

LockInv == \A e \in End : TurnAt(e) /\ CalmAt(e)

LEMMA Partners ==
    ASSUME Lockstep, NEW e \in End
    PROVE  \/ Program[e] = "client" /\ Program[Peer(e)] = "echo"
           \/ Program[e] = "echo" /\ Program[Peer(e)] = "client"
  <1>1. PICK c \in End : Program[c] = "client" /\ Program[Peer(c)] = "echo"
    BY DEF Lockstep
  <1>2. Peer(Peer(c)) = c /\ (e = c \/ e = Peer(c))
    BY PeerFacts
  <1>3. QED BY <1>1, <1>2

\* Where the PDUs of the queues stand among the accepted ones.
LEMMA AcceptedParts ==
    ASSUME TypeOK, NEW e \in End
    PROVE  /\ Given(e) \in Nat /\ Taken(e) \in Nat /\ Waiting(e) \in Nat /\ Reached(e) \in Nat
           /\ Taken(e) + Waiting(e) <= Reached(e)
           /\ \A k \in 1..Taken(e) : Accepted(e)[k] = got[e][k]
           /\ up[e] # <<>> => Waiting(e) >= 1 /\ Accepted(e)[Taken(e) + 1] = Head(up[e])
  <1>1. /\ got[e] \in Seq(Pdu) /\ up[e] \in Seq(Pdu) /\ sent[e] \in Seq(Payload)
        /\ Accepted(e) \in Seq(Pdu)
    BY AcceptedType DEF TypeOK, LinkTypeOK
  <1>2. Given(e) \in Nat /\ Taken(e) \in Nat /\ Waiting(e) \in Nat /\ Reached(e) \in Nat
    BY <1>1, LenProperties DEF Given, Taken, Waiting, Reached
  <1>3. Leads(got[e], up[e], Accepted(e))
    <2>1. InHand(e) \in Seq(Pdu)
      BY AcceptedType DEF TypeOK
    <2>2. QED BY <1>1, <2>1, PipelineParts DEF Accepted
  <1>4. QED BY <1>2, <1>3 DEF Leads, Taken, Waiting, Reached

\* No more is accepted than was sent: the number of the last one is on the path.
LEMMA AcceptedWereSent ==
    ASSUME TypeOK, NEW e \in End, NEW f \in End, f = Peer(e),
           CalmAt(e), CalmAt(f), PathAt(f)
    PROVE  Reached(f) <= Given(e)
  <1>1. Reached(f) \in Nat /\ Given(e) \in Nat
    BY AcceptedParts
  <1>2. ASSUME Reached(f) # 0 PROVE Reached(f) <= Given(e)
    <2>1. Accepted(f) \in Seq(Calm(Given(e))) /\ Accepted(f) \in Seq(Message)
      BY OnPath DEF CalmAt, PathAt
    <2>2. Reached(f) \in 1..Len(Accepted(f))
      BY <1>1, <1>2 DEF Reached
    <2>3. Accepted(f)[Reached(f)] \in Calm(Given(e)) /\ Accepted(f)[Reached(f)] \in Message
      BY <2>1, <2>2, ElementOfSeq
    <2>4. Accepted(f)[Reached(f)].info = Reached(f)
      BY <1>1, <1>2 DEF CalmAt
    <2>5. QED BY <1>1, <2>3, <2>4 DEF Calm, UpTo, Message
  <1>3. QED BY <1>1, <1>2

\* The counts the turns keep together.
LEMMA LockBounds ==
    ASSUME TypeOK, PathInv, LockInv, Lockstep, NEW e \in End
    PROVE  /\ Reached(e) <= Given(Peer(e)) /\ Given(Peer(e)) <= Reached(e) + 1
           /\ Waiting(e) <= 1
  <1>1. PICK f \in End : f = Peer(e) /\ Peer(f) = e
    BY PeerFacts
  <1>2. Reached(e) <= Given(f) /\ Reached(f) <= Given(e)
    BY <1>1, AcceptedWereSent DEF LockInv, PathInv
  <1>3. /\ Given(e) \in Nat /\ Taken(e) \in Nat /\ Waiting(e) \in Nat /\ Reached(e) \in Nat
        /\ Taken(e) + Waiting(e) <= Reached(e)
    BY AcceptedParts
  <1>4. /\ Given(f) \in Nat /\ Taken(f) \in Nat /\ Waiting(f) \in Nat /\ Reached(f) \in Nat
        /\ Taken(f) + Waiting(f) <= Reached(f)
    BY AcceptedParts
  <1>5. CASE Program[e] = "client" /\ Program[f] = "echo"
    <2>1. Given(e) <= Taken(e) + 1 /\ Given(f) <= Taken(f)
      BY <1>3, <1>5 DEF LockInv, TurnAt
    <2>2. QED BY <1>1, <1>2, <1>3, <1>4, <2>1
  <1>6. CASE Program[e] = "echo" /\ Program[f] = "client"
    <2>1. Given(f) <= Taken(f) + 1 /\ Given(e) <= Taken(e)
      BY <1>4, <1>6 DEF LockInv, TurnAt
    <2>2. QED BY <1>1, <1>2, <1>3, <1>4, <2>1
  <1>7. QED BY <1>1, <1>5, <1>6, Partners

\* The next message a service thread receives is the next one sent to it.
LEMMA NextReceived ==
    ASSUME TypeOK, PathInv, LockInv, Lockstep, NEW e \in End, up[e] # <<>>
    PROVE  /\ Head(up[e]).info = Taken(e) + 1
           /\ Taken(e) + 1 \in 1..Given(Peer(e))
  <1>1. /\ Taken(e) \in Nat /\ Waiting(e) \in Nat /\ Reached(e) \in Nat
        /\ Taken(e) + Waiting(e) <= Reached(e) /\ Waiting(e) >= 1
        /\ Accepted(e)[Taken(e) + 1] = Head(up[e])
    BY AcceptedParts
  <1>2. Taken(e) + 1 \in 1..Reached(e)
    BY <1>1
  <1>3. Head(up[e]).info = Taken(e) + 1
    BY <1>1, <1>2 DEF LockInv, CalmAt
  <1>4. Given(Peer(e)) \in Nat
    BY PeerFacts, AcceptedParts
  <1>5. QED BY <1>1, <1>2, <1>3, <1>4, LockBounds


\* Only a message queued counts as sent, and only one received as taken.
LEMMA CountsStep ==
    ASSUME TypeOK, NEW e \in End, [Next]_vars
    PROVE  /\ Queues(e) =>
                /\ app[e].pc # "idle" /\ Given(e)' = Given(e) + 1
                /\ \A k \in 1..Given(e) : sent'[e][k] = sent[e][k]
                /\ sent'[e][Given(e) + 1] = app[e].info
           /\ ServiceRecv(e) =>
                up[e] # <<>> /\ got'[e] = Append(got[e], Head(up[e])) /\ Taken(e)' = Taken(e) + 1
           /\ ~Queues(e) => sent'[e] = sent[e] /\ Given(e)' = Given(e)
           /\ ~ServiceRecv(e) => got'[e] = got[e] /\ Taken(e)' = Taken(e)
  <1>1. /\ sent[e] \in Seq(Payload) /\ got[e] \in Seq(Pdu)
        /\ Given(e) \in Nat /\ Taken(e) \in Nat
    BY AcceptedParts DEF TypeOK, LinkTypeOK
  <1>2. ASSUME Queues(e)
        PROVE  /\ app[e].pc # "idle" /\ Given(e)' = Given(e) + 1
               /\ \A k \in 1..Given(e) : sent'[e][k] = sent[e][k]
               /\ sent'[e][Given(e) + 1] = app[e].info
               /\ got'[e] = got[e] /\ Taken(e)' = Taken(e)
    <2>1. /\ app[e] \in Call /\ app[e].pc # "idle" /\ got' = got
          /\ sent'[e] = Append(sent[e], app[e].info)
      BY <1>2 DEF Queues, SendEnqueue, Idle, TypeOK, LinkTypeOK
    <2>2. app[e].info \in Payload
      BY <2>1 DEF Call
    <2>3. /\ Len(sent'[e]) = Len(sent[e]) + 1
          /\ \A k \in 1..Len(sent[e]) : sent'[e][k] = sent[e][k]
          /\ sent'[e][Len(sent[e]) + 1] = app[e].info
      BY <1>1, <2>1, <2>2, AppendProperties
    <2>4. QED BY <2>1, <2>3 DEF Given, Taken
  <1>3. ASSUME ServiceRecv(e)
        PROVE  /\ sent'[e] = sent[e] /\ Given(e)' = Given(e)
               /\ up[e] # <<>> /\ got'[e] = Append(got[e], Head(up[e])) /\ Taken(e)' = Taken(e) + 1
    <2>1. /\ up[e] # <<>> /\ got'[e] = Append(got[e], Head(up[e])) /\ sent' = sent
      BY <1>3 DEF ServiceRecv, Recv, TypeOK, LinkTypeOK
    <2>2. Head(up[e]) \in Pdu
      BY <2>1, HeadTailProperties DEF TypeOK, LinkTypeOK
    <2>3. Len(got'[e]) = Len(got[e]) + 1
      BY <1>1, <2>1, <2>2, AppendProperties
    <2>4. QED BY <2>1, <2>3 DEF Given, Taken
  <1>4. ASSUME SameService(e) \/ (Service(e) /\ ~Queues(e) /\ ~ServiceRecv(e))
        PROVE  /\ sent'[e] = sent[e] /\ Given(e)' = Given(e)
               /\ got'[e] = got[e] /\ Taken(e)' = Taken(e)
    <2>1. sent'[e] = sent[e] /\ got'[e] = got[e]
      BY <1>4 DEF SameService, Service, ServiceSend, Queues, SendCall, SendStamp, SendFails,
                  ServiceAcknowledged, linkVars
    <2>2. QED BY <2>1 DEF Given, Taken
  <1>5. QED BY <1>2, <1>3, <1>4, ServiceStep

\* Where a step leaves the program of a service thread.
LEMMA PlaceStep ==
    ASSUME TypeOK, PathInv, NEW e \in End, [Next]_vars, Program[e] \in {"client", "echo"}
    PROVE  \/ Queues(e) /\ ~ServiceRecv(e) /\ prog[e] = "send" /\ prog'[e] = "recv"
           \/ /\ ServiceRecv(e) /\ ~Queues(e) /\ prog[e] = "recv"
              /\ prog'[e] = IF Program[e] = "client" THEN "wait" ELSE "send"
           \/ /\ ~Queues(e) /\ ~ServiceRecv(e)
              /\ \/ prog'[e] = prog[e]
                 \/ prog[e] = "send" /\ prog'[e] = "recv" /\ Program[e] = "client"
                 \/ prog[e] = "send" /\ prog'[e] = "stopped" /\ Program[e] = "echo"
                 \/ prog[e] = "wait" /\ prog'[e] # "recv" /\ Program[e] = "client"
  <1>1. ProgramAt(e)
    BY DEF PathInv
  <1>2. ASSUME Queues(e) PROVE ~ServiceRecv(e) /\ prog[e] = "send" /\ prog'[e] = "recv"
    <2>1. app[e].pc # "idle" /\ prog'[e] = AfterSend(e)
      BY <1>2 DEF Queues, SendEnqueue, Goto, TypeOK
    <2>2. prog[e] = "send"
      BY <1>1, <2>1 DEF ProgramAt
    <2>3. QED BY <2>1, <2>2 DEF AfterSend, ServiceRecv
  <1>3. ASSUME ServiceRecv(e)
        PROVE  /\ ~Queues(e) /\ prog[e] = "recv"
               /\ prog'[e] = IF Program[e] = "client" THEN "wait" ELSE "send"
    BY <1>2, <1>3 DEF ServiceRecv, Goto, AfterRecv, TypeOK
  <1>4. ASSUME ~Queues(e), ~ServiceRecv(e)
        PROVE  \/ prog'[e] = prog[e]
               \/ prog[e] = "send" /\ prog'[e] = "recv" /\ Program[e] = "client"
               \/ prog[e] = "send" /\ prog'[e] = "stopped" /\ Program[e] = "echo"
               \/ prog[e] = "wait" /\ prog'[e] # "recv" /\ Program[e] = "client"
    <2>1. CASE SameService(e)
      BY <2>1 DEF SameService
    <2>2. CASE Goto(e, prog[e])
      BY <2>2 DEF Goto, TypeOK
    <2>3. CASE SendFails(e) /\ Goto(e, AfterFailure(e))
      BY <1>1, <2>3 DEF SendFails, ProgramAt, Goto, AfterFailure, AfterSend, TypeOK
    <2>4. CASE ServiceAcknowledged(e)
      BY <1>1, <2>4 DEF ServiceAcknowledged, ProgramAt, Places, Goto, TypeOK
    <2>5. QED BY <1>4, <2>1, <2>2, <2>3, <2>4, ServiceStep DEF Service, ServiceSend, Queues
  <1>5. QED BY <1>2, <1>3, <1>4

LEMMA TurnNext ==
    ASSUME TypeOK, PathInv, LockInv, Lockstep, [Next]_vars, NEW e \in End
    PROVE  TurnAt(e)'
  <1>1. /\ TurnAt(e) /\ ProgramAt(e) /\ Given(e) \in Nat /\ Taken(e) \in Nat
        /\ Program[e] \in {"client", "echo"} /\ prog[e] \in Places(Program[e])
    BY AcceptedParts, Partners DEF LockInv, PathInv, ProgramAt
  <1>2. CASE Queues(e) /\ ~ServiceRecv(e) /\ prog[e] = "send" /\ prog'[e] = "recv"
    <2>1. app[e].info = NextMessage(e)
      BY <1>1, <1>2, CountsStep DEF ProgramAt, Queues, SendEnqueue
    <2>2. NextMessage(e) = Given(e) + 1
      <3>1. CASE Program[e] = "client"
        BY <3>1 DEF NextMessage, Given
      <3>2. CASE Program[e] = "echo"
        <4>1. Taken(e) = Given(e) + 1 /\ Taken(e) \in 1..Taken(e) /\ Taken(e) <= Reached(e)
          BY <1>1, <1>2, <3>2, AcceptedParts DEF TurnAt
        <4>2. NextMessage(e) = Accepted(e)[Taken(e)].info
          BY <3>2, <4>1, AcceptedParts DEF NextMessage, Taken
        <4>3. Taken(e) \in 1..Reached(e)
          BY <4>1, AcceptedParts
        <4>4. QED BY <4>1, <4>2, <4>3 DEF LockInv, CalmAt
      <3>3. QED BY <1>1, <3>1, <3>2
    <2>3. /\ Given(e)' = Given(e) + 1 /\ Taken(e)' = Taken(e)
          /\ \A k \in 1..Given(e) : sent'[e][k] = k
          /\ sent'[e][Given(e) + 1] = Given(e) + 1
      BY <1>1, <1>2, <2>1, <2>2, CountsStep DEF TurnAt
    <2>4. QED BY <1>1, <1>2, <2>3 DEF TurnAt
  <1>3. CASE /\ ServiceRecv(e) /\ ~Queues(e) /\ prog[e] = "recv"
             /\ prog'[e] = IF Program[e] = "client" THEN "wait" ELSE "send"
    <2>1. sent'[e] = sent[e] /\ Given(e)' = Given(e) /\ Taken(e)' = Taken(e) + 1
      BY <1>3, CountsStep
    <2>2. QED BY <1>1, <1>3, <2>1 DEF TurnAt
  <1>4. CASE /\ ~Queues(e) /\ ~ServiceRecv(e)
             /\ \/ prog'[e] = prog[e]
                \/ prog[e] = "send" /\ prog'[e] = "recv" /\ Program[e] = "client"
                \/ prog[e] = "send" /\ prog'[e] = "stopped" /\ Program[e] = "echo"
                \/ prog[e] = "wait" /\ prog'[e] # "recv" /\ Program[e] = "client"
    <2>1. sent'[e] = sent[e] /\ Given(e)' = Given(e) /\ Taken(e)' = Taken(e)
      BY <1>4, CountsStep
    <2>2. QED BY <1>1, <1>4, <2>1 DEF TurnAt
  <1>5. QED BY <1>1, <1>2, <1>3, <1>4, PlaceStep


\* An I PDU the link brings exceeds every one accepted before it.
LEMMA HeadAbove ==
    ASSUME TypeOK, PathInv, NEW e \in End, linkUp[e] # <<>>,
           Head(linkUp[e]).ptype = "I", NEW k \in 1..Reached(e)
    PROVE  Accepted(e)[k].info < Head(linkUp[e]).info
  <1>1. Peer(e) \in End /\ Peer(Peer(e)) = e /\ PathAt(Peer(e)) /\ PathAt(e)
    BY PeerFacts DEF PathInv
  <1>2. /\ Front(Peer(e)) \in Seq(Pdu) /\ Back(Peer(e)) \in Seq(Pdu)
        /\ Accepted(e) \in Seq(Pdu) /\ linkUp[e] \in Seq(Pdu)
    BY <1>1, PathType
  <1>3. Chained(Rise, Front(Peer(e)))
    BY <1>1, <1>2, ChainedConcat DEF PathAt, Path
  <1>4. Linked(Rise, Accepted(e), linkUp[e])
    BY <1>1, <1>2, <1>3, ChainedConcat DEF Front
  <1>5. 1 \in 1..Len(linkUp[e]) /\ linkUp[e][1] = Head(linkUp[e]) /\ k \in 1..Len(Accepted(e))
    BY <1>2, EmptySeq, LenProperties, HeadTailProperties DEF Reached
  <1>6. <<Accepted(e)[k], Head(linkUp[e])>> \in Rise
    BY <1>4, <1>5 DEF Linked
  <1>7. Accepted(e)[k] \in Message
    BY <1>1, <1>5, ElementOfSeq DEF PathAt
  <1>8. QED BY <1>6, <1>7 DEF Rise, Message

LEMMA CountedNext ==
    ASSUME TypeOK, PathInv, LockInv, Lockstep, [Next]_vars, NEW e \in End
    PROVE  \A k \in 1..Reached(e)' : Accepted(e)'[k].info = k
  <1>1. CalmAt(e) /\ CalmAt(Peer(e)) /\ Reached(e) \in Nat
    BY PeerFacts, AcceptedParts DEF LockInv
  <1>2. CASE SameAccepted(e)
    BY <1>1, <1>2 DEF SameAccepted, Reached, CalmAt
  <1>3. CASE /\ linkUp[e] # <<>> /\ Head(linkUp[e]) \in Pdu
             /\ AcceptI(e, Head(linkUp[e]))
             /\ Accepted(e)' = Append(Accepted(e), Head(linkUp[e]))
    <2> DEFINE h == Head(linkUp[e])
    <2>1. /\ Reached(e)' = Reached(e) + 1 /\ Accepted(e)'[Reached(e) + 1] = h
          /\ \A k \in 1..Reached(e) : Accepted(e)'[k] = Accepted(e)[k]
      <3>1. Accepted(e) \in Seq(Pdu)
        BY AcceptedType DEF TypeOK
      <3>2. /\ Len(Accepted(e)') = Len(Accepted(e)) + 1
            /\ Accepted(e)'[Len(Accepted(e)) + 1] = h
            /\ \A k \in 1..Len(Accepted(e)) : Accepted(e)'[k] = Accepted(e)[k]
        BY <1>3, <3>1, AppendProperties
      <3>3. QED BY <3>2 DEF Reached
    <2>2. h.ptype = "I"
      BY <1>3 DEF AcceptI
    <2>3. h.info \in 1..Given(Peer(e))
      <3>1. h \in Calm(Given(Peer(e)))
        BY <1>1, <1>3, PeerFacts, OnPath DEF CalmAt
      <3>2. QED BY <2>2, <3>1 DEF Calm, UpTo
    <2>4. Given(Peer(e)) \in Nat /\ Given(Peer(e)) <= Reached(e) + 1
      BY PeerFacts, AcceptedParts, LockBounds
    <2>5. Reached(e) # 0 => Reached(e) < h.info
      <3>1. ASSUME Reached(e) # 0 PROVE Reached(e) \in 1..Reached(e)
        BY <1>1, <3>1
      <3>2. QED BY <1>1, <1>3, <2>2, <3>1, HeadAbove DEF CalmAt
    <2> HIDE DEF h
    <2>6. h.info = Reached(e) + 1
      BY <1>1, <2>3, <2>4, <2>5
    <2>7. QED BY <1>1, <2>1, <2>6 DEF CalmAt
  <1>4. QED BY <1>2, <1>3, AcceptedStep

LEMMA CalmPathNext ==
    ASSUME TypeOK, PathInv, LockInv, Lockstep, [Next]_vars, NEW e \in End
    PROVE  Path(e)' \in Seq(Calm(Given(e)'))
  <1>1. /\ CalmAt(e) /\ TurnAt(e) /\ TurnAt(e)' /\ ProgramAt(e)
        /\ Given(e) \in Nat /\ Waiting(e) \in Nat /\ Waiting(e) <= 1
    BY AcceptedParts, LockBounds, TurnNext DEF LockInv, PathInv
  <1>2. CASE /\ Queues(e)
             /\ Path(e)' = Append(Path(e), Stamped(e)) /\ Stamped(e) \in Pdu
    <2>1. Given(e)' = Given(e) + 1 /\ sent'[e][Given(e) + 1] = Stamped(e).info
      BY <1>2, CountsStep DEF Stamped
    <2>2. Stamped(e).info = Given(e) + 1
      BY <1>1, <2>1 DEF TurnAt
    <2>3. Stamped(e) \in Calm(Given(e)')
      BY <1>1, <1>2, <2>1, <2>2 DEF Calm, UpTo, Stamped
    <2>4. Path(e) \in Seq(Calm(Given(e)'))
      BY <1>1, <2>1 DEF CalmAt, Calm, UpTo
    <2>5. QED BY <1>2, <2>3, <2>4, AppendProperties
  <1>3. CASE PathEdited(e) /\ ~Queues(e)
    <2>1. Fresh(e) \in SUBSET Pdu /\ Path(e) \in Seq(Pdu)
      BY PathType
    <2>2. Len(up[e]) # MaxMsg
      BY <1>1 DEF Waiting, MaxMsg
    <2>3. ASSUME NEW x \in Fresh(e) PROVE x \in Calm(Given(e))
      BY <2>1, <2>2, <2>3 DEF Fresh, Symm, Frmr, Ack, Calm, UpTo
    <2>4. Path(e)' \in Seq(Calm(Given(e)))
      BY <1>1, <1>3, <2>1, <2>3, EditedSeq DEF PathEdited, CalmAt
    <2>5. QED BY <1>3, <2>4, CountsStep
  <1>4. QED BY <1>2, <1>3, PathStep

\* Only a RNR from the link stops an engine.
LEMMA AliveStep ==
    ASSUME TypeOK, NEW e \in End, [Next]_vars, Alive(e)
    PROVE  Alive(e)' \/ (linkUp[e] # <<>> /\ Head(linkUp[e]).ptype = "RNR")
  <1> USE DEF Alive
  <1>1. pc \in [End -> EnginePc]
    BY DEF TypeOK, LinkTypeOK
  <1>2. ASSUME NEW g \in End, Arrive(g), ~(linkUp[e] # <<>> /\ Head(linkUp[e]).ptype = "RNR")
        PROVE  Alive(e)'
    BY <1>1, <1>2 DEF Arrive, HandlePdu, HandleInert, HandleRR, RefuseI, AcceptI,
                      HandleUnsupported
  <1>3. ASSUME NEW g \in End, SendDown(g) \/ Deliver(g) \/ Sweep(g) PROVE Alive(e)'
    BY <1>1, <1>3 DEF SendDown, HandOver, Deliver, Sweep, SweepTransmit, SweepPostpone,
                      Requeue, SweepUnacknowledged, Acknowledge, SweepNothing
  <1>4. ASSUME NEW g \in End, Service(g) \/ Exchange(g) \/ Overrun(g) PROVE Alive(e)'
    BY <1>4 DEF Service, ServiceSend, ServiceRecv, ServiceAcknowledged, SendCall, SendStamp,
                SendEnqueue, SendFails, Recv, linkVars, Exchange, Overrun, TakeFrame
  <1>5. CASE UNCHANGED vars
    BY <1>5 DEF vars, linkVars
  <1>6. QED BY <1>2, <1>3, <1>4, <1>5 DEF Next, Engine

LEMMA LockNext ==
    ASSUME TypeOK, PathInv, LockInv, Lockstep, [Next]_vars
    PROVE  LockInv'
  <1> SUFFICES ASSUME NEW e \in End PROVE TurnAt(e)' /\ CalmAt(e)'
    BY DEF LockInv
  <1>1. Alive(e)'
    <2>1. CalmAt(e) /\ Peer(e) \in End /\ Peer(Peer(e)) = e /\ CalmAt(Peer(e))
      BY PeerFacts DEF LockInv
    <2>2. linkUp[e] # <<>> => Head(linkUp[e]) \in Calm(Given(Peer(e)))
      BY <2>1, OnPath DEF CalmAt
    <2>3. QED BY <2>1, <2>2, AliveStep DEF CalmAt, Calm
  <1>2. QED BY <1>1, TurnNext, CountedNext, CalmPathNext DEF CalmAt

LEMMA LockStart ==
    ASSUME Init, Lockstep
    PROVE  LockInv
  <1> SUFFICES ASSUME NEW e \in End PROVE TurnAt(e) /\ CalmAt(e)
    BY DEF LockInv
  <1>1. Given(e) = 0 /\ Taken(e) = 0 /\ prog[e] # "wait"
    BY DEF Init, LinkInit, Given, Taken
  <1>2. Program[e] = "echo" => prog[e] = "recv"
    BY DEF Init
  <1>3. TurnAt(e)
    BY <1>1, <1>2 DEF TurnAt
  <1>4. Accepted(e) = <<>> /\ Path(e) = <<>> /\ Reached(e) = 0
    BY StartsEmpty DEF Reached
  <1>5. Alive(e)
    BY DEF Init, LinkInit, Alive
  <1>6. QED BY <1>3, <1>4, <1>5 DEF CalmAt

(***************************************************************************)
(* A client and an echo server never stop each other's engine: no RNR is   *)
(* ever sent, whatever the windows and the number of the first message.    *)
(***************************************************************************)
THEOREM LockstepNeverAborts ==
    ASSUME Lockstep
    PROVE  Spec => []NoAbort
  <1>1. Init => TypeOK /\ PathInv /\ LockInv
    BY StartsTyped, StartsInOrder, LockStart
  <1>2. TypeOK /\ PathInv /\ LockInv /\ [Next]_vars => (TypeOK /\ PathInv /\ LockInv)'
    BY PathSteps, LockNext
  <1>3. LockInv => NoAbort
    BY DEF LockInv, CalmAt, NoAbort
  <1>4. QED BY <1>1, <1>2, <1>3, PTL DEF Spec

-----------------------------------------------------------------------------
(***************************************************************************)
(* The direction from e to its peer as a FIFO channel: the refinement      *)
(* mapping of RequestChannel and AnswerChannel, for either endpoint.       *)
(***************************************************************************)
Channel(e) == INSTANCE FifoChannel WITH
    Message <- Payload, sent <- sent[e], received <- Infos(got[Peer(e)])

LEMMA InfosAppend ==
    ASSUME NEW s \in Seq(Pdu), NEW p \in Pdu
    PROVE  /\ Infos(<<>>) = <<>> /\ Len(Infos(s)) = Len(s)
           /\ Infos(Append(s, p)) = Append(Infos(s), p.info)
  <1> DEFINE T == Payload \cup {NoInfo}
  <1>1. Len(s) \in Nat /\ s \in [1..Len(s) -> Pdu]
    BY LenProperties
  <1>2. Infos(s) \in [1..Len(s) -> T]
    BY <1>1 DEF Infos, Pdu
  <1>3. Infos(s) \in Seq(T) /\ Len(Infos(s)) = Len(s)
    <2>1. Infos(s) \in UNION {[1..n -> T] : n \in Nat}
      BY <1>1, <1>2
    <2>2. Infos(s) \in Seq(T)
      BY <2>1, SeqDef, Zenon
    <2>3. DOMAIN Infos(s) = 1..Len(s)
      BY <1>2
    <2>4. QED BY <1>1, <2>2, <2>3, LenProperties
  <1>4. p.info \in T
    BY DEF Pdu
  <1>5. /\ Append(s, p) \in Seq(Pdu) /\ Len(Append(s, p)) = Len(s) + 1
        /\ \A i \in 1..Len(s) : Append(s, p)[i] = s[i]
        /\ Append(s, p)[Len(s) + 1] = p
    BY AppendProperties
  <1>6. /\ Append(Infos(s), p.info) \in Seq(T) /\ Len(Append(Infos(s), p.info)) = Len(s) + 1
        /\ \A i \in 1..Len(s) : Append(Infos(s), p.info)[i] = Infos(s)[i]
        /\ Append(Infos(s), p.info)[Len(s) + 1] = p.info
    BY <1>3, <1>4, AppendProperties
  <1>7. Infos(Append(s, p)) = [i \in 1..Len(s) + 1 |-> Append(s, p)[i].info]
    BY <1>5 DEF Infos
  <1>8. Append(Infos(s), p.info) \in [1..Len(s) + 1 -> T]
    BY <1>6, LenProperties
  <1>9. \A i \in 1..Len(s) + 1 : Append(s, p)[i].info = Append(Infos(s), p.info)[i]
    BY <1>1, <1>5, <1>6 DEF Infos
  <1>10. Infos(Append(s, p)) = Append(Infos(s), p.info)
    BY <1>7, <1>8, <1>9
  <1>11. Infos(<<>>) = <<>>
    BY DEF Infos
  <1>12. QED BY <1>3, <1>10, <1>11

LEMMA ChannelStep ==
    ASSUME TypeOK, PathInv, LockInv, Lockstep, [Next]_vars, NEW e \in End
    PROVE  [Channel(e)!Next]_<<sent[e], Infos(got[Peer(e)])>>
  <1>1. PICK f \in End : f = Peer(e) /\ Peer(f) = e
    BY PeerFacts
  <1>2. CASE Queues(e)
    <2>1. /\ sent'[e] = Append(sent[e], app[e].info) /\ app[e].info \in Payload
      <3>1. app[e] \in Call
        <4>1. app[e] \in {Idle} \cup Call
          BY DEF TypeOK, LinkTypeOK
        <4>2. app[e].pc # "idle"
          BY <1>2 DEF Queues, SendEnqueue
        <4>3. QED BY <4>1, <4>2 DEF Idle
      <3>2. QED BY <1>2, <3>1 DEF Queues, SendEnqueue, Call, TypeOK, LinkTypeOK
    <2>2. got' = got
      BY <1>2 DEF Queues, SendEnqueue
    <2>3. Channel(e)!Send
      BY <2>1, <2>2 DEF Channel!Send, Infos, Peer
    <2>4. QED BY <2>3 DEF Channel!Next
  <1>3. CASE ServiceRecv(f)
    <2>1. /\ up[f] # <<>> /\ got'[f] = Append(got[f], Head(up[f])) /\ sent' = sent
          /\ got[f] \in Seq(Pdu) /\ Head(up[f]) \in Pdu
      BY <1>3, HeadTailProperties DEF ServiceRecv, Recv, TypeOK, LinkTypeOK
    <2>2. /\ Len(Infos(got[f])) = Taken(f)
          /\ Infos(got[f])' = Append(Infos(got[f]), Head(up[f]).info)
      BY <2>1, InfosAppend DEF Taken, Infos
    <2>3. Head(up[f]).info = Taken(f) + 1 /\ Taken(f) + 1 \in 1..Given(e)
      BY <1>1, <2>1, NextReceived
    <2>4. sent[e][Taken(f) + 1] = Taken(f) + 1
      BY <2>3 DEF LockInv, TurnAt
    <2>5. Taken(f) < Len(sent[e])
      BY <2>3, AcceptedParts DEF Given
    <2>6. Channel(e)!Receive
      BY <1>1, <2>1, <2>2, <2>3, <2>4, <2>5 DEF Channel!Receive, Peer
    <2>7. QED BY <2>6 DEF Channel!Next
  <1>4. CASE ~Queues(e) /\ ~ServiceRecv(f)
    <2>1. sent'[e] = sent[e] /\ got'[f] = got[f]
      BY <1>4, CountsStep
    <2>2. QED BY <1>1, <2>1 DEF Infos, Peer
  <1>5. QED BY <1>2, <1>3, <1>4

(***************************************************************************)
(* Each direction between a client and an echo server implements a FIFO    *)
(* channel from llc_connection_send to llc_connection_recv: a message the  *)
(* service thread receives is the next one the other side sent, whatever   *)
(* the windows, the retries and the number of the first message.  (That    *)
(* every message arrives depends on fairness and is checked, not proved.)  *)
(***************************************************************************)
THEOREM LockstepIsFifo ==
    ASSUME Lockstep, NEW e \in End
    PROVE  Spec => Channel(e)!Safety
  <1>1. Init => TypeOK /\ PathInv /\ LockInv
    BY StartsTyped, StartsInOrder, LockStart
  <1>2. TypeOK /\ PathInv /\ LockInv /\ [Next]_vars => (TypeOK /\ PathInv /\ LockInv)'
    BY PathSteps, LockNext
  <1>3. Init => Channel(e)!Init
    <2>1. Init => sent[e] = <<>> /\ got[Peer(e)] = <<>>
      BY PeerFacts DEF Init, LinkInit
    <2>2. Infos(<<>>) = <<>>
      BY DEF Infos
    <2>3. QED BY <2>1, <2>2 DEF Channel!Init
  <1>4. /\ TypeOK /\ PathInv /\ LockInv /\ [Next]_vars
        => [Channel(e)!Next]_<<sent[e], Infos(got[Peer(e)])>>
    BY ChannelStep
  <1>5. QED BY <1>1, <1>2, <1>3, <1>4, PTL DEF Spec, Channel!Safety
=============================================================================
