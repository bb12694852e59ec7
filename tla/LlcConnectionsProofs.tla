------------------------ MODULE LlcConnectionsProofs ------------------------
(***************************************************************************)
(* Proofs about LlcConnections.                                            *)
(***************************************************************************)
EXTENDS LlcConnections, SequenceTheorems, FiniteSetTheorems, TLAPS

(***************************************************************************)
(* The messages of the link's two queues.  A CONNECT of the client is the  *)
(* only one that does not come out of the engine's buffer.                 *)
(***************************************************************************)
Remotes == Peer \cup {0}

UpPdu     == [ptype : {"CONNECT", "CC", "DISC", "DM"}, dsap : Slot, ssap : Remotes]
        \cup [ptype : {"I", "RR", "FRMR"}, dsap : Slot, ssap : Remotes, nr : SeqNo]
DataPdu   == [ptype : {"I"}, dsap : Remotes, ssap : Slot, ns : SeqNo, nr : SeqNo]
EnginePdu == [ptype : {"CC", "DM"}, dsap : Remotes, ssap : Slot]
        \cup [ptype : {"RR", "RNR"}, dsap : Remotes, ssap : Slot, nr : SeqNo]
        \cup DataPdu
ClientPdu == [ptype : {"CONNECT"}, dsap : Remotes, ssap : Slot \cap {Outgoing}]
DownPdu   == EnginePdu \cup ClientPdu

(***************************************************************************)
(* The type invariant, part by part, with what it takes to be inductive:   *)
(* the SAPs of PDUs, of connections and of peers are slots of the table.   *)
(***************************************************************************)
HandlerOK == handler \in [Slot -> 0..MaxConn]
ConnsOK   == /\ conn \in [Conn -> ConnType]
             /\ \A c \in Conn : conn[c].life = "live" => conn[c].local \in Slot
ThreadsOK == thr \in [Thread -> ThreadType]
EngineOK  == /\ pc \in {"recv", "reply", "deliver", "slayDisc", "slayDm", "sweep", "postpone",
                        "spawned", "transmit"}
             /\ slot \in Slot /\ cur \in 0..MaxConn
             /\ out \in EnginePdu \cup {None}
             /\ pc \in {"reply", "transmit", "slayDisc"} => out # None
             /\ pc = "postpone" => out \in DataPdu
UpOK      == llcUp \in Seq(UpPdu) /\ Len(llcUp) <= MaxMsg
DownOK    == llcDown \in Seq(DownPdu) /\ Len(llcDown) <= MaxMsg
MainOK    == /\ main \in {"none", "connect", "reset", "wait", "join", "joined", "failed"}
             /\ main # "none" => Outgoing \in Slot
PeersOK   == /\ peer \in [Peer -> PeerType]
             /\ \A q \in Peer : peer[q].st \in {"open", "broken", "closing"} => peer[q].at \in Slot
FaultOK   == fault \in {"none", "assert", "null", "freed"}

TypeInv ==
    /\ HandlerOK /\ ConnsOK /\ ThreadsOK /\ EngineOK
    /\ UpOK /\ DownOK /\ MainOK /\ PeersOK /\ FaultOK
-----------------------------------------------------------------------------
LEMMA Numbers ==
    /\ MaxSap \in Nat \ {0} /\ MaxConn \in Nat \ {0} /\ Modulus \in Nat \ {0}
    /\ 0 \in SeqNo /\ 1 \in Slot /\ 1 \in Conn
  BY SapAssumption DEF SeqNo, Slot, Conn

LEMMA NextNoType == ASSUME NEW n \in SeqNo PROVE NextNo(n) \in SeqNo
  BY Numbers DEF NextNo, SeqNo

LEMMA NewConnType ==
    ASSUME NEW i \in 0..MaxSap, NEW s \in 0..MaxSap, NEW q \in Remotes
    PROVE  NewConn(i, s, q) \in ConnType
  BY Numbers, EmptySeq DEF NewConn, ConnType, Status, Remotes, MaxMsg

LEMMA FreedType == Freed \in ConnType
  <1>1. NewConn(0, 0, 0) \in ConnType
    BY NewConnType, Numbers DEF Remotes
  <1>2. QED BY <1>1 DEF Freed, ConnType

LEMMA NoneApart == \A p \in EnginePdu : p # None
  BY DEF EnginePdu, DataPdu, None

LEMMA TypeInit == Init => TypeInv
  <1> SUFFICES ASSUME Init PROVE TypeInv
    OBVIOUS
  <1>1. HandlerOK
    BY Numbers DEF Init, HandlerOK
  <1>2. ConnsOK
    <2>1. PICK q \in Peer : conn = [c \in Conn |->
            IF c = 1 /\ Outgoing # 0 THEN NewConn(Outgoing, Outgoing, q) ELSE Freed]
      BY DEF Init
    <2>2. Outgoing # 0 => Outgoing \in Slot
      BY SapAssumption
    <2>3. Outgoing # 0 => NewConn(Outgoing, Outgoing, q) \in ConnType
      BY <2>2, NewConnType DEF Slot, Remotes
    <2>4. Freed.life = "freed" /\ NewConn(Outgoing, Outgoing, q).local = Outgoing
      BY DEF Freed, NewConn
    <2>5. QED BY <2>1, <2>2, <2>3, <2>4, FreedType DEF ConnsOK
  <1>3. ThreadsOK
    BY Numbers DEF Init, ThreadsOK, ThreadType, NoThread
  <1>4. EngineOK
    BY Numbers DEF Init, EngineOK
  <1>5. UpOK /\ DownOK
    BY EmptySeq DEF Init, UpOK, DownOK, MaxMsg
  <1>6. MainOK
    BY SapAssumption DEF Init, MainOK
  <1>7. PeersOK
    BY Numbers DEF Init, PeersOK, PeerType, NoPeer
  <1>8. FaultOK
    BY DEF Init, FaultOK
  <1>9. QED BY <1>1, <1>2, <1>3, <1>4, <1>5, <1>6, <1>7, <1>8 DEF TypeInv

LEMMA TypeInvTypes == TypeInv => TypeOK
  BY DEF TypeInv, TypeOK, HandlerOK, ConnsOK, ThreadsOK, EngineOK, UpOK, DownOK, MainOK,
         PeersOK, FaultOK

-----------------------------------------------------------------------------
(***************************************************************************)
(* What the edits of one connection, one thread or one peer keep.          *)
(***************************************************************************)
LEMMA ConnEdit ==
    ASSUME ConnsOK, NEW c, NEW new, conn' = [conn EXCEPT ![c] = new],
           c \in Conn => new \in ConnType /\ (new.life = "live" => new.local \in Slot)
    PROVE  ConnsOK'
  BY DEF ConnsOK

LEMMA ConnKeeps ==
    ASSUME NEW c \in ConnType
    PROVE  /\ \A s \in Status : /\ [c EXCEPT !.status = s] \in ConnType
                                /\ [c EXCEPT !.status = s].life = c.life
                                /\ [c EXCEPT !.status = s].local = c.local
           /\ \A t \in {0} \cup Thread : /\ [c EXCEPT !.thread = t] \in ConnType
                                /\ [c EXCEPT !.thread = t].life = c.life
                                /\ [c EXCEPT !.thread = t].local = c.local
           /\ \A n \in 0..MaxMsg : /\ [c EXCEPT !.up = n] \in ConnType
                                /\ [c EXCEPT !.up = n].life = c.life
                                /\ [c EXCEPT !.up = n].local = c.local
           /\ \A d \in Seq(Stamps) : /\ [c EXCEPT !.down = d] \in ConnType
                                /\ [c EXCEPT !.down = d].life = c.life
                                /\ [c EXCEPT !.down = d].local = c.local
           /\ \A b \in BOOLEAN : /\ [c EXCEPT !.owed = b] \in ConnType
                                /\ [c EXCEPT !.owed = b].life = c.life
                                /\ [c EXCEPT !.owed = b].local = c.local
           /\ \A n \in SeqNo : /\ [c EXCEPT !.r = n] \in ConnType
                                /\ [c EXCEPT !.r = n].life = c.life
                                /\ [c EXCEPT !.r = n].local = c.local
           /\ \A n \in SeqNo : /\ [c EXCEPT !.s = n] \in ConnType
                                /\ [c EXCEPT !.s = n].life = c.life
                                /\ [c EXCEPT !.s = n].local = c.local
           /\ \A n \in SeqNo : /\ [c EXCEPT !.sa = n] \in ConnType
                                /\ [c EXCEPT !.sa = n].life = c.life
                                /\ [c EXCEPT !.sa = n].local = c.local
           /\ \A q \in Remotes : /\ [c EXCEPT !.remote = q] \in ConnType
                                /\ [c EXCEPT !.remote = q].life = c.life
                                /\ [c EXCEPT !.remote = q].local = c.local
  BY DEF ConnType, Remotes

LEMMA StartedType ==
    ASSUME NEW c \in Conn, NEW at \in {"accept", "recv", "send"}
    PROVE  Started(c, at) \in ThreadType
  BY Numbers DEF Started, ThreadType, Conn

LEMMA ThreadEdit ==
    ASSUME ThreadsOK, NEW t, NEW new, thr' = [thr EXCEPT ![t] = new],
           t \in Thread => new \in ThreadType
    PROVE  ThreadsOK'
  BY DEF ThreadsOK

LEMMA PeerEdit ==
    ASSUME PeersOK, NEW q, NEW new, peer' = [peer EXCEPT ![q] = new],
           q \in Peer => new \in PeerType /\ (new.st \in {"open", "broken", "closing"} => new.at \in Slot)
    PROVE  PeersOK'
  BY DEF PeersOK
-----------------------------------------------------------------------------
(***************************************************************************)
(* The engine keeps the types.                                             *)
(***************************************************************************)
LEMMA TakeType ==
    ASSUME TypeInv, NEW type, Take(type)
    PROVE  /\ Pdu \in UpPdu /\ Pdu.ptype = type
           /\ UpOK' /\ DownOK' /\ MainOK' /\ PeersOK' /\ FaultOK'
  <1>1. Pdu \in UpPdu /\ Tail(llcUp) \in Seq(UpPdu) /\ Len(Tail(llcUp)) <= MaxMsg
    BY HeadTailProperties DEF Take, Pdu, TypeInv, UpOK, MaxMsg
  <1>2. UpOK'
    BY <1>1 DEF Take, UpOK, MaxMsg
  <1>3. DownOK' /\ MainOK' /\ PeersOK' /\ FaultOK'
    BY DEF Take, TypeInv, DownOK, MainOK, PeersOK, FaultOK
  <1>4. QED BY <1>1, <1>2, <1>3 DEF Take, Pdu

LEMMA ToSweepType == ASSUME EngineOK, ToSweep, cur' \in 0..MaxConn PROVE EngineOK'
  BY Numbers DEF EngineOK, ToSweep

LEMMA ReplyType ==
    ASSUME EngineOK, NEW p \in EnginePdu, Reply(p), slot' \in Slot, cur' \in 0..MaxConn
    PROVE  EngineOK'
  <1>1. p # None
    BY NoneApart
  <1>2. QED BY <1>1 DEF EngineOK, Reply

LEMMA DmType == ASSUME NEW q \in Remotes, NEW i \in Slot PROVE Dm(q, i) \in EnginePdu
  BY DEF Dm, EnginePdu

LEMMA DispatchConnect ==
    ASSUME TypeInv, ConnectUnbound \/ ConnectNoSlot \/ ConnectSpawn
    PROVE  TypeInv'
  <1>1. /\ Pdu \in UpPdu /\ UpOK' /\ DownOK' /\ MainOK' /\ PeersOK' /\ FaultOK'
    BY TakeType DEF ConnectUnbound, ConnectNoSlot, ConnectSpawn
  <1>2. Pdu.dsap \in Slot /\ Pdu.ssap \in Remotes
    BY <1>1 DEF UpPdu
  <1>3. ASSUME ConnectUnbound \/ ConnectNoSlot PROVE TypeInv'
    <2>1. HandlerOK' /\ ConnsOK' /\ ThreadsOK'
      BY <1>3 DEF TypeInv, HandlerOK, ConnsOK, ThreadsOK, ConnectUnbound, ConnectNoSlot
    <2>2. /\ Dm(Pdu.ssap, Pdu.dsap) \in EnginePdu /\ Reply(Dm(Pdu.ssap, Pdu.dsap))
          /\ slot' = slot /\ (cur' = cur \/ cur' = 0)
      BY <1>2, <1>3, DmType DEF ConnectUnbound, ConnectNoSlot
    <2>3. EngineOK'
      <3>1. EngineOK /\ slot' \in Slot /\ cur' \in 0..MaxConn
        BY <2>2, Numbers DEF TypeInv, EngineOK
      <3>2. QED BY <2>2, <3>1, ReplyType
    <2>4. QED BY <1>1, <2>1, <2>3 DEF TypeInv
  <1>4. ASSUME ConnectSpawn PROVE TypeInv'
    <2>1. PICK i \in FirstFree(Pdu.dsap), c \in FreshConn, t \in FreshThread :
            /\ handler' = [handler EXCEPT ![i] = c]
            /\ cur' = c
            /\ IF Pdu.dsap \in Accepting
               THEN /\ conn' = [conn EXCEPT ![c] = [NewConn(i, Pdu.dsap, Pdu.ssap) EXCEPT !.thread = t]]
                    /\ thr' = [thr EXCEPT ![t] = Started(c, "accept")]
               ELSE /\ conn' = [conn EXCEPT ![c] = [NewConn(i, Pdu.dsap, Pdu.ssap) EXCEPT !.status = "ACCEPTED"]]
                    /\ UNCHANGED thr
      BY <1>4 DEF ConnectSpawn
    <2>2. i \in Slot /\ c \in Conn /\ t \in Thread
      BY <1>2, Numbers DEF FirstFree, FreeSlots, FreshConn, FreshThread, Least, Slot
    <2>3. /\ NewConn(i, Pdu.dsap, Pdu.ssap) \in ConnType
          /\ NewConn(i, Pdu.dsap, Pdu.ssap).local = i
      BY <1>2, <2>2, NewConnType DEF Slot, NewConn
    <2>4. HandlerOK'
      BY <2>1, <2>2 DEF TypeInv, HandlerOK, Conn
    <2>5. /\ t \in {0} \cup Thread /\ "ACCEPTED" \in Status
      BY <2>2 DEF Status
    <2>6. ConnsOK'
      <3>1. /\ [NewConn(i, Pdu.dsap, Pdu.ssap) EXCEPT !.thread = t] \in ConnType
            /\ [NewConn(i, Pdu.dsap, Pdu.ssap) EXCEPT !.thread = t].local = i
            /\ [NewConn(i, Pdu.dsap, Pdu.ssap) EXCEPT !.status = "ACCEPTED"] \in ConnType
            /\ [NewConn(i, Pdu.dsap, Pdu.ssap) EXCEPT !.status = "ACCEPTED"].local = i
        BY <2>3, <2>5, ConnKeeps, Zenon
      <3>2. ConnsOK
        BY DEF TypeInv
      <3>3. PICK new : conn' = [conn EXCEPT ![c] = new] /\ new \in ConnType /\ new.local = i
        BY <2>1, <3>1, Zenon
      <3>4. QED BY <2>2, <3>2, <3>3, ConnEdit
    <2>7. ThreadsOK'
      <3>1. Started(c, "accept") \in ThreadType /\ ThreadsOK
        BY <2>2, StartedType DEF TypeInv
      <3>2. CASE Pdu.dsap \in Accepting
        BY <2>1, <3>1, <3>2, ThreadEdit
      <3>3. CASE Pdu.dsap \notin Accepting
        BY <2>1, <3>1, <3>3 DEF ThreadsOK
      <3>4. QED BY <3>2, <3>3
    <2>8. EngineOK'
      <3>1. cur' \in 0..MaxConn /\ EngineOK /\ ToSweep
        BY <1>4, <2>1, <2>2 DEF Conn, TypeInv, ConnectSpawn
      <3>2. QED BY <3>1, ToSweepType
    <2>9. QED BY <1>1, <2>4, <2>6, <2>7, <2>8 DEF TypeInv
  <1>5. QED BY <1>3, <1>4

LEMMA HandlerType ==
    ASSUME TypeInv, NEW i \in Slot
    PROVE  /\ handler[i] \in 0..MaxConn
           /\ handler[i] # 0 => handler[i] \in Conn
           /\ handler[i] \in Conn => conn[handler[i]] \in ConnType
           /\ handler[i] \in Conn /\ conn[handler[i]].life = "live" => conn[handler[i]].local \in Slot
  <1>1. handler[i] \in 0..MaxConn
    BY DEF TypeInv, HandlerOK
  <1>2. handler[i] # 0 => handler[i] \in Conn
    BY <1>1, Numbers DEF Conn
  <1>3. QED BY <1>1, <1>2 DEF TypeInv, ConnsOK

LEMMA DispatchCancel ==
    ASSUME TypeInv, ReceiveDisc \/ ReceiveDm
    PROVE  TypeInv'
  <1>1. /\ Pdu \in UpPdu /\ UpOK' /\ DownOK' /\ MainOK' /\ PeersOK' /\ FaultOK'
        /\ CancelHandler
    BY TakeType DEF ReceiveDisc, ReceiveDm
  <1>2. Pdu.dsap \in Slot /\ Pdu.ssap \in Remotes
    BY <1>1 DEF UpPdu
  <1>3. HandlerOK' /\ ConnsOK'
    BY DEF TypeInv, HandlerOK, ConnsOK, ReceiveDisc, ReceiveDm
  <1>4. ThreadsOK'
    BY <1>1 DEF TypeInv, ThreadsOK, ThreadType, CancelHandler
  <1>5. slot' \in Slot /\ cur' = cur
    BY <1>1, <1>2 DEF CancelHandler, ReceiveDisc, ReceiveDm
  <1>6. ASSUME ReceiveDisc PROVE EngineOK'
    <2>1. Dm(Pdu.ssap, Pdu.dsap) \in EnginePdu /\ Dm(Pdu.ssap, Pdu.dsap) # None
      BY <1>2, DmType, NoneApart
    <2>2. QED BY <1>5, <1>6, <2>1 DEF TypeInv, EngineOK, ReceiveDisc
  <1>7. ASSUME ReceiveDm PROVE EngineOK'
    BY <1>5, <1>7 DEF TypeInv, EngineOK, ReceiveDm
  <1>8. QED BY <1>1, <1>3, <1>4, <1>6, <1>7 DEF TypeInv

LEMMA DispatchCc ==
    ASSUME TypeInv, ReceiveCc
    PROVE  TypeInv'
  <1>1. /\ Pdu \in UpPdu /\ UpOK' /\ DownOK' /\ MainOK' /\ PeersOK' /\ FaultOK'
    BY TakeType DEF ReceiveCc
  <1>2. Pdu.dsap \in Slot /\ Pdu.ssap \in Remotes
    BY <1>1 DEF UpPdu
  <1> DEFINE h == handler[Pdu.dsap]
             marked == [[conn[h] EXCEPT !.remote = Pdu.ssap] EXCEPT !.status = "RECEIVED_CC"]
  <1>3. h \in 0..MaxConn /\ h \in Conn
    BY <1>2, HandlerType DEF ReceiveCc
  <1>4. conn' = [conn EXCEPT ![h] = marked]
    BY <1>3 DEF ReceiveCc, TypeInv, ConnsOK
  <1>5. marked \in ConnType /\ (marked.life = "live" => marked.local \in Slot)
    <2>1. conn[h] \in ConnType /\ (conn[h].life = "live" => conn[h].local \in Slot)
      BY <1>3 DEF TypeInv, ConnsOK
    <2>2. "RECEIVED_CC" \in Status
      BY DEF Status
    <2>3. /\ [conn[h] EXCEPT !.remote = Pdu.ssap] \in ConnType
          /\ [conn[h] EXCEPT !.remote = Pdu.ssap].life = conn[h].life
          /\ [conn[h] EXCEPT !.remote = Pdu.ssap].local = conn[h].local
      BY <1>2, <2>1, ConnKeeps, Zenon
    <2>4. /\ marked \in ConnType /\ marked.life = conn[h].life
          /\ marked.local = conn[h].local
      BY <2>2, <2>3, ConnKeeps, Zenon
    <2>5. QED BY <2>1, <2>4
  <1>6. ConnsOK'
    <2>1. ConnsOK
      BY DEF TypeInv
    <2> HIDE DEF h, marked
    <2>2. QED BY <2>1, <1>4, <1>5, ConnEdit
  <1>7. HandlerOK' /\ ThreadsOK'
    BY DEF TypeInv, HandlerOK, ThreadsOK, ReceiveCc
  <1>8. EngineOK'
    <2>1. EngineOK /\ ToSweep /\ cur' \in 0..MaxConn
      BY <1>3 DEF TypeInv, ReceiveCc
    <2>2. QED BY <2>1, ToSweepType
  <1>9. QED BY <1>1, <1>6, <1>7, <1>8 DEF TypeInv

LEMMA DispatchI ==
    ASSUME TypeInv, ReceiveI
    PROVE  TypeInv'
  <1>1. /\ Pdu \in UpPdu /\ UpOK' /\ DownOK' /\ MainOK' /\ PeersOK' /\ FaultOK'
        /\ Pdu.ptype = "I"
    BY TakeType DEF ReceiveI
  <1>2. Pdu.dsap \in Slot /\ Pdu.nr \in SeqNo
    BY <1>1 DEF UpPdu
  <1> DEFINE h == handler[Pdu.dsap]
             one == [conn[h] EXCEPT !.owed = TRUE]
             two == [one EXCEPT !.r = NextNo(conn[h].r)]
             owing == [two EXCEPT !.sa = Pdu.nr]
  <1>3. h \in Conn
    BY <1>2, HandlerType DEF ReceiveI
  <1>4. conn' = [conn EXCEPT ![h] = owing]
    BY <1>3 DEF ReceiveI, TypeInv, ConnsOK, ConnType
  <1>5. owing \in ConnType /\ (owing.life = "live" => owing.local \in Slot)
    <2>1. conn[h] \in ConnType /\ (conn[h].life = "live" => conn[h].local \in Slot)
      BY <1>3 DEF TypeInv, ConnsOK
    <2>2. conn[h].r \in SeqNo
      BY <2>1 DEF ConnType
    <2>3. TRUE \in BOOLEAN /\ NextNo(conn[h].r) \in SeqNo
      BY <2>2, NextNoType
    <2>4. one \in ConnType /\ one.life = conn[h].life /\ one.local = conn[h].local
      BY <2>1, <2>3, ConnKeeps, Zenon
    <2>5. two \in ConnType /\ two.life = conn[h].life /\ two.local = conn[h].local
      <3> HIDE DEF one
      <3>1. /\ two \in ConnType /\ two.life = one.life /\ two.local = one.local
        BY <2>3, <2>4, ConnKeeps, Zenon
      <3>2. QED BY <2>4, <3>1
    <2>6. owing \in ConnType /\ owing.life = conn[h].life /\ owing.local = conn[h].local
      <3> HIDE DEF two
      <3>1. /\ owing \in ConnType /\ owing.life = two.life /\ owing.local = two.local
        BY <1>2, <2>5, ConnKeeps, Zenon
      <3>2. QED BY <2>5, <3>1
    <2> HIDE DEF owing
    <2>7. QED BY <2>1, <2>6
  <1>6. ConnsOK'
    <2>1. ConnsOK
      BY DEF TypeInv
    <2> HIDE DEF h, owing
    <2>2. QED BY <2>1, <1>4, <1>5, ConnEdit
  <1>7. HandlerOK' /\ ThreadsOK'
    BY DEF TypeInv, HandlerOK, ThreadsOK, ReceiveI
  <1>8. EngineOK'
    BY <1>2 DEF TypeInv, EngineOK, ReceiveI
  <1>9. QED BY <1>1, <1>6, <1>7, <1>8 DEF TypeInv

LEMMA DispatchRr ==
    ASSUME TypeInv, ReceiveRr \/ ReceiveFrmr
    PROVE  TypeInv'
  <1>1. /\ Pdu \in UpPdu /\ UpOK' /\ DownOK' /\ MainOK' /\ PeersOK' /\ FaultOK'
        /\ Pdu.ptype \in {"RR", "FRMR"}
    BY TakeType DEF ReceiveRr, ReceiveFrmr
  <1>2. Pdu.dsap \in Slot /\ Pdu.nr \in SeqNo
    BY <1>1 DEF UpPdu
  <1>3. HandlerOK' /\ ThreadsOK'
    BY DEF TypeInv, HandlerOK, ThreadsOK, ReceiveRr, ReceiveFrmr
  <1>4. EngineOK'
    <2>1. EngineOK /\ ToSweep /\ cur' \in 0..MaxConn
      BY DEF TypeInv, EngineOK, ReceiveRr, ReceiveFrmr
    <2>2. QED BY <2>1, ToSweepType
  <1>5. ASSUME ReceiveRr PROVE ConnsOK'
    <2> DEFINE h == handler[Pdu.dsap]
               acked == [conn[h] EXCEPT !.sa = Pdu.nr]
    <2>1. ConnsOK /\ h \in Conn
      BY <1>2, <1>5, HandlerType DEF ReceiveRr, TypeInv
    <2>2. conn' = [conn EXCEPT ![h] = acked]
      BY <1>5, <2>1 DEF ReceiveRr, ConnsOK
    <2>3. conn[h] \in ConnType /\ (conn[h].life = "live" => conn[h].local \in Slot)
      BY <2>1 DEF ConnsOK
    <2>4. acked \in ConnType /\ acked.life = conn[h].life /\ acked.local = conn[h].local
      BY <1>2, <2>3, ConnKeeps, Zenon
    <2> HIDE DEF h, acked
    <2>5. QED BY <2>1, <2>2, <2>3, <2>4, ConnEdit
  <1>6. ASSUME ReceiveFrmr PROVE ConnsOK'
    BY <1>6 DEF TypeInv, ConnsOK, ReceiveFrmr
  <1>7. QED BY <1>1, <1>3, <1>4, <1>5, <1>6 DEF TypeInv

LEMMA DispatchFinish ==
    ASSUME TypeInv, FinishDisc \/ FinishDm \/ Deliver
    PROVE  TypeInv'
  <1>1. /\ UpOK' /\ DownOK' /\ MainOK' /\ PeersOK' /\ FaultOK' /\ ThreadsOK'
    BY DEF TypeInv, UpOK, DownOK, MainOK, PeersOK, FaultOK, ThreadsOK, FinishDisc, FinishDm, Deliver
  <1>2. slot \in Slot /\ cur \in 0..MaxConn /\ EngineOK /\ ConnsOK
    BY DEF TypeInv, EngineOK
  <1> DEFINE h == handler[slot]
  <1>3. ASSUME FinishDisc PROVE TypeInv'
    <2>1. HandlerOK'
      <3>1. HandlerOK /\ handler' = [handler EXCEPT ![slot] = 0] /\ 0 \in 0..MaxConn
        BY <1>3, Numbers DEF TypeInv, FinishDisc
      <3>2. QED BY <3>1 DEF HandlerOK
    <2>2. ConnsOK'
      <3>1. conn' = [conn EXCEPT ![h] = Freed] /\ Freed.life = "freed"
        BY <1>3 DEF FinishDisc, Freed
      <3> HIDE DEF h
      <3>2. QED BY <3>1, <1>2, FreedType, ConnEdit
    <2>3. EngineOK'
      <3>1. /\ out \in EnginePdu /\ Reply(out) /\ slot' = slot /\ cur' = cur
        BY <1>3 DEF FinishDisc, Slain, TypeInv, EngineOK
      <3>2. QED BY <1>2, <3>1, ReplyType
    <2>4. QED BY <1>1, <2>1, <2>2, <2>3 DEF TypeInv
  <1>4. ASSUME FinishDm PROVE TypeInv'
    <2> DEFINE refused == [[conn[h] EXCEPT !.status = "REJECTED"] EXCEPT !.thread = 0]
    <2>1. HandlerOK'
      BY <1>4 DEF TypeInv, HandlerOK, FinishDm
    <2>2. conn' = [conn EXCEPT ![h] = refused]
      BY <1>4 DEF FinishDm, TypeInv, ConnsOK
    <2>3. h \in Conn => refused \in ConnType /\ (refused.life = "live" => refused.local \in Slot)
      <3>1. "REJECTED" \in Status /\ 0 \in {0} \cup Thread
        BY DEF Status
      <3>2. SUFFICES ASSUME h \in Conn
                     PROVE  refused \in ConnType /\ (refused.life = "live" => refused.local \in Slot)
        OBVIOUS
      <3>3. conn[h] \in ConnType /\ (conn[h].life = "live" => conn[h].local \in Slot)
        BY <1>2, <3>2 DEF ConnsOK
      <3>4. /\ [conn[h] EXCEPT !.status = "REJECTED"] \in ConnType
            /\ [conn[h] EXCEPT !.status = "REJECTED"].life = conn[h].life
            /\ [conn[h] EXCEPT !.status = "REJECTED"].local = conn[h].local
        BY <3>1, <3>3, ConnKeeps, Zenon
      <3>5. /\ refused \in ConnType /\ refused.life = conn[h].life
            /\ refused.local = conn[h].local
        BY <3>1, <3>4, ConnKeeps, Zenon
      <3>6. QED BY <3>3, <3>5
    <2>4. ConnsOK'
      <3> HIDE DEF h, refused
      <3>1. QED BY <1>2, <2>2, <2>3, ConnEdit
    <2>5. EngineOK'
      <3>1. ToSweep /\ cur' = cur
        BY <1>4 DEF FinishDm
      <3>2. QED BY <1>2, <3>1, ToSweepType
    <2>6. QED BY <1>1, <2>1, <2>4, <2>5 DEF TypeInv
  <1>5. ASSUME Deliver PROVE TypeInv'
    <2> DEFINE fuller == [conn[h] EXCEPT !.up = @ + 1]
    <2>1. HandlerOK'
      BY <1>5 DEF TypeInv, HandlerOK, Deliver
    <2>2. conn' = [conn EXCEPT ![h] = fuller]
      BY <1>5 DEF Deliver, TypeInv, ConnsOK
    <2>3. h \in Conn => fuller \in ConnType /\ (fuller.life = "live" => fuller.local \in Slot)
      <3>1. SUFFICES ASSUME h \in Conn
                     PROVE  fuller \in ConnType /\ (fuller.life = "live" => fuller.local \in Slot)
        OBVIOUS
      <3>2. conn[h] \in ConnType /\ (conn[h].life = "live" => conn[h].local \in Slot)
        BY <1>2, <3>1 DEF ConnsOK
      <3>3. conn[h].up + 1 \in 0..MaxMsg
        BY <1>5, <3>2 DEF ConnType, Deliver, MaxMsg
      <3>4. fuller = [conn[h] EXCEPT !.up = conn[h].up + 1]
        BY <3>2 DEF ConnType
      <3>5. /\ fuller \in ConnType /\ fuller.life = conn[h].life
            /\ fuller.local = conn[h].local
        BY <3>2, <3>3, <3>4, ConnKeeps, Zenon
      <3>6. QED BY <3>2, <3>5
    <2>4. ConnsOK'
      <3> HIDE DEF h, fuller
      <3>1. QED BY <1>2, <2>2, <2>3, ConnEdit
    <2>5. EngineOK'
      <3>1. ToSweep /\ cur' = cur
        BY <1>5 DEF Deliver
      <3>2. QED BY <1>2, <3>1, ToSweepType
    <2>6. QED BY <1>1, <2>1, <2>4, <2>5 DEF TypeInv
  <1>6. QED BY <1>3, <1>4, <1>5

LEMMA DispatchType == ASSUME TypeInv, Dispatch PROVE TypeInv'
  <1>1. ASSUME Symmetry PROVE TypeInv'
    <2>1. EngineOK /\ ToSweep /\ cur' \in 0..MaxConn
      BY <1>1 DEF Symmetry, TypeInv, EngineOK
    <2>2. EngineOK'
      BY <2>1, ToSweepType
    <2>3. QED BY <1>1, <2>2 DEF Symmetry, TypeInv, HandlerOK, ConnsOK, ThreadsOK, UpOK, DownOK, MainOK,
                 PeersOK, FaultOK
  <1>2. ASSUME ReceiveFails PROVE TypeInv'
    BY <1>2 DEF ReceiveFails, Crash, engine, TypeInv, HandlerOK, ConnsOK, ThreadsOK, EngineOK, UpOK,
       DownOK, MainOK, PeersOK, FaultOK
  <1>3. QED BY <1>1, <1>2, DispatchConnect, DispatchCancel, DispatchCc, DispatchI, DispatchRr,
            DispatchFinish
            DEF Dispatch


LEMMA AdvanceType ==
    ASSUME EngineOK, NEW p \in EnginePdu \cup {None}, Advance(p), cur' = cur
    PROVE  EngineOK'
  <1>1. slot \in 1..MaxSap
    BY DEF EngineOK, Slot
  <1>2. slot' \in Slot
    BY <1>1, Numbers DEF Advance, Slot
  <1>3. /\ out' = p
        /\ pc' = "sweep" \/ pc' = (IF p = None THEN "recv" ELSE "transmit")
    BY DEF Advance
  <1>4. QED BY <1>2, <1>3 DEF EngineOK

LEMMA ConnAt ==
    ASSUME TypeInv, NEW c \in 0..MaxConn, c # 0
    PROVE  /\ c \in Conn /\ conn[c] \in ConnType
           /\ conn[c].life = "live" => conn[c].local \in Slot
           /\ conn[c].remote \in Remotes /\ conn[c].r \in SeqNo /\ conn[c].s \in SeqNo
           /\ conn[c].down \in Seq(Stamps)
  BY Numbers DEF TypeInv, ConnsOK, Conn, ConnType, Remotes

LEMMA VisitPlain ==
    ASSUME TypeInv, VisitEmpty \/ VisitRunning \/ VisitWaiting
    PROVE  HandlerOK' /\ ConnsOK' /\ ThreadsOK' /\ EngineOK'
  <1>1. HandlerOK' /\ ThreadsOK'
    BY DEF TypeInv, HandlerOK, ThreadsOK, VisitEmpty, VisitRunning, VisitWaiting
  <1>2. EngineOK /\ ConnsOK /\ slot \in Slot /\ out \in EnginePdu \cup {None}
    BY DEF TypeInv, EngineOK
  <1>3. ASSUME VisitEmpty \/ VisitWaiting PROVE ConnsOK' /\ EngineOK'
    <2>1. /\ (Advance(out) \/ Advance(None)) /\ cur' = cur /\ UNCHANGED conn
      BY <1>3 DEF VisitEmpty, VisitWaiting
    <2>2. QED BY <1>2, <2>1, AdvanceType DEF ConnsOK
  <1>4. ASSUME VisitRunning PROVE ConnsOK' /\ EngineOK'
    <2> DEFINE h == handler[slot]
               said == [conn[h] EXCEPT !.owed = FALSE]
    <2>1. h \in 0..MaxConn /\ h # 0
      BY <1>2, <1>4, HandlerType DEF VisitRunning, Quiet, Visited
    <2>2. /\ h \in Conn /\ conn[h] \in ConnType
          /\ conn[h].life = "live" => conn[h].local \in Slot
          /\ conn[h].remote \in Remotes /\ conn[h].r \in SeqNo
      BY <2>1, ConnAt
    <2>3. said \in ConnType /\ said.life = conn[h].life /\ said.local = conn[h].local
      BY <2>2, ConnKeeps, Zenon
    <2>4. conn' = [conn EXCEPT ![h] = said]
      BY <1>4, <2>2 DEF VisitRunning, Visited, TypeInv, ConnsOK
    <2>5. Acknowledgement \in EnginePdu
      BY <1>2, <2>2 DEF Acknowledgement, EnginePdu, Visited
    <2>6. EngineOK'
      <3>1. PICK p \in EnginePdu \cup {None} : Advance(p) /\ cur' = cur
        BY <1>4, <2>5 DEF VisitRunning
      <3>2. QED BY <1>2, <3>1, AdvanceType
    <2>7. ConnsOK'
      <3> HIDE DEF h, said
      <3>1. QED BY <1>2, <2>2, <2>3, <2>4, ConnEdit
    <2>8. QED BY <2>6, <2>7
  <1>5. QED BY <1>1, <1>3, <1>4

LEMMA UnqueueType ==
    ASSUME TypeInv, Unqueue
    PROVE  /\ Visited \in Conn /\ conn[Visited] \in ConnType
           /\ conn[Visited].life = "live" => conn[Visited].local \in Slot
           /\ Tail(conn[Visited].down) \in Seq(Stamps)
           /\ out' \in DataPdu
  <1>1. Visited \in 0..MaxConn /\ Visited # 0 /\ slot \in Slot
    BY HandlerType DEF Unqueue, Visited, TypeInv, EngineOK
  <1>2. /\ Visited \in Conn /\ conn[Visited] \in ConnType
        /\ conn[Visited].life = "live" => conn[Visited].local \in Slot
        /\ conn[Visited].remote \in Remotes /\ conn[Visited].down \in Seq(Stamps)
    BY <1>1, ConnAt
  <1>3. Head(conn[Visited].down) \in Stamps /\ Tail(conn[Visited].down) \in Seq(Stamps)
    BY <1>2, HeadTailProperties DEF Unqueue
  <1>4. PICK m \in Stamps :
          out' = [ptype |-> "I", dsap |-> conn[Visited].remote, ssap |-> slot,
                  ns |-> m.ns, nr |-> m.nr]
    BY <1>3 DEF Unqueue
  <1>5. out' \in DataPdu
    BY <1>1, <1>2, <1>4 DEF DataPdu, Stamps
  <1>6. QED BY <1>2, <1>3, <1>5

LEMMA VisitDataType ==
    ASSUME TypeInv, VisitData \/ VisitPostpone
    PROVE  HandlerOK' /\ ConnsOK' /\ ThreadsOK' /\ EngineOK'
  <1>1. HandlerOK' /\ ThreadsOK'
    BY DEF TypeInv, HandlerOK, ThreadsOK, VisitData, VisitPostpone
  <1>2. EngineOK /\ ConnsOK /\ slot \in Slot
    BY DEF TypeInv, EngineOK
  <1> DEFINE h == Visited
             lighter == [conn[h] EXCEPT !.down = Tail(conn[h].down)]
             sent == [lighter EXCEPT !.s = NextNo(conn[h].s)]
  <1>3. Unqueue
    BY DEF VisitData, VisitPostpone
  <1>4. /\ h \in Conn /\ conn[h] \in ConnType
        /\ conn[h].life = "live" => conn[h].local \in Slot
        /\ Tail(conn[h].down) \in Seq(Stamps) /\ out' \in DataPdu
    BY <1>3, UnqueueType
  <1>5. lighter \in ConnType /\ lighter.life = conn[h].life /\ lighter.local = conn[h].local
    BY <1>4, ConnKeeps, Zenon
  <1>6. sent \in ConnType /\ sent.life = conn[h].life /\ sent.local = conn[h].local
    <2>1. NextNo(conn[h].s) \in SeqNo
      BY <1>4, NextNoType DEF ConnType
    <2> HIDE DEF lighter
    <2>2. /\ sent \in ConnType /\ sent.life = lighter.life /\ sent.local = lighter.local
      BY <1>5, <2>1, ConnKeeps, Zenon
    <2>3. QED BY <1>5, <2>2
  <1>7. conn' = [conn EXCEPT ![h] = lighter] \/ conn' = [conn EXCEPT ![h] = sent]
    BY <1>4 DEF VisitData, VisitPostpone, TypeInv, ConnsOK, ConnType
  <1>8. ConnsOK'
    <2> HIDE DEF h, lighter, sent
    <2>1. PICK new \in {lighter, sent} : conn' = [conn EXCEPT ![h] = new]
      BY <1>7
    <2>2. new \in ConnType /\ (new.life = "live" => new.local \in Slot)
      BY <1>4, <1>5, <1>6
    <2>3. QED BY <1>2, <2>1, <2>2, ConnEdit
  <1>9. EngineOK'
    <2>1. out' \in EnginePdu
      BY <1>4 DEF EnginePdu
    <2>2. out' # None
      BY <2>1, NoneApart
    <2>3. /\ pc' \in {"transmit", "postpone"} /\ cur' = cur /\ slot' \in {1, slot}
      BY DEF VisitData, VisitPostpone
    <2>4. QED BY <1>2, <1>4, <2>1, <2>2, <2>3, Numbers DEF EngineOK
  <1>10. QED BY <1>1, <1>8, <1>9

LEMMA RequeueType ==
    ASSUME TypeInv, Requeue
    PROVE  HandlerOK' /\ ConnsOK' /\ ThreadsOK' /\ EngineOK'
  <1>1. HandlerOK' /\ ThreadsOK'
    BY DEF TypeInv, HandlerOK, ThreadsOK, Requeue
  <1>2. EngineOK /\ ConnsOK /\ out \in DataPdu
    BY DEF TypeInv, EngineOK, Requeue
  <1> DEFINE h == Visited
             m == [ns |-> out.ns, nr |-> out.nr]
             queue == IF Len(conn[h].down) < MaxMsg THEN <<m>> \o conn[h].down ELSE conn[h].down
             new == [conn[h] EXCEPT !.down = queue]
  <1>3. conn' = [conn EXCEPT ![h] = new]
    BY <1>2 DEF Requeue, ConnsOK
  <1>4. h \in Conn => new \in ConnType /\ new.life = conn[h].life /\ new.local = conn[h].local
    <2>1. m \in Stamps
      BY <1>2 DEF DataPdu, Stamps
    <2>2. h \in Conn => conn[h] \in ConnType /\ conn[h].down \in Seq(Stamps)
      BY <1>2 DEF ConnsOK, ConnType
    <2>3. h \in Conn => queue \in Seq(Stamps)
      <3> HIDE DEF m
      <3>1. QED BY <2>1, <2>2
    <2> HIDE DEF queue
    <2>4. QED BY <2>2, <2>3, ConnKeeps, Zenon
  <1>5. ConnsOK'
    <2>1. h \in Conn /\ conn[h].life = "live" => conn[h].local \in Slot
      BY <1>2 DEF ConnsOK
    <2> HIDE DEF h, new
    <2>2. QED BY <1>2, <1>3, <1>4, <2>1, ConnEdit
  <1>6. EngineOK'
    <2>1. Advance(None) /\ cur' = cur
      BY DEF Requeue
    <2>2. QED BY <1>2, <2>1, AdvanceType
  <1>7. QED BY <1>1, <1>5, <1>6

LEMMA CurUsable ==
    ASSUME TypeInv, Usable(cur)
    PROVE  /\ cur \in Conn /\ conn[cur] \in ConnType /\ conn[cur].life = "live"
           /\ conn[cur].local \in Slot /\ conn[cur].remote \in Remotes
  BY ConnAt DEF Usable, TypeInv, EngineOK

LEMMA VisitEstablishedType ==
    ASSUME TypeInv, VisitEstablished
    PROVE  HandlerOK' /\ ConnsOK' /\ ThreadsOK' /\ EngineOK'
  <1>1. HandlerOK'
    BY DEF TypeInv, HandlerOK, VisitEstablished
  <1>2. EngineOK /\ ConnsOK /\ ThreadsOK
    BY DEF TypeInv
  <1>3. /\ cur \in Conn /\ conn[cur] \in ConnType /\ conn[cur].life = "live"
        /\ conn[cur].local \in Slot /\ conn[cur].remote \in Remotes
    BY CurUsable DEF VisitEstablished
  <1>4. PICK t \in FreshThread :
            /\ conn' = [conn EXCEPT ![cur].thread = t]
            /\ thr' = [thr EXCEPT ![t] = Started(cur, FirstStep)]
    BY DEF VisitEstablished
  <1>5. t \in Thread /\ t \in {0} \cup Thread
    BY <1>4 DEF FreshThread, Least
  <1> DEFINE served == [conn[cur] EXCEPT !.thread = t]
  <1>6. served \in ConnType /\ served.life = conn[cur].life /\ served.local = conn[cur].local
    BY <1>3, <1>5, ConnKeeps, Zenon
  <1>7. conn' = [conn EXCEPT ![cur] = served]
    BY <1>3, <1>4, <1>2 DEF ConnsOK
  <1>8. ConnsOK'
    <2> HIDE DEF served
    <2>1. QED BY <1>2, <1>3, <1>6, <1>7, ConnEdit
  <1>9. ThreadsOK'
    <2>1. Started(cur, FirstStep) \in ThreadType
      BY <1>3, StartedType, ChoiceAssumption
    <2>2. QED BY <1>2, <1>4, <2>1, ThreadEdit
  <1>10. EngineOK'
    <2>1. out' \in EnginePdu \cup {None}
      BY <1>3 DEF VisitEstablished, EnginePdu
    <2>2. pc' = "spawned" /\ slot' = slot /\ cur' = cur
      BY DEF VisitEstablished
    <2>3. QED BY <1>2, <2>1, <2>2 DEF EngineOK
  <1>11. QED BY <1>1, <1>8, <1>9, <1>10

LEMMA MarkConnectedType ==
    ASSUME TypeInv, MarkConnected
    PROVE  HandlerOK' /\ ConnsOK' /\ ThreadsOK' /\ EngineOK'
  <1>1. HandlerOK' /\ ThreadsOK'
    BY DEF TypeInv, HandlerOK, ThreadsOK, MarkConnected
  <1>2. EngineOK /\ ConnsOK
    BY DEF TypeInv
  <1> DEFINE h == handler[slot]
             marked == [conn[h] EXCEPT !.status = "CONNECTED"]
  <1>3. h \in Conn => marked \in ConnType /\ marked.life = conn[h].life /\ marked.local = conn[h].local
    <2>1. "CONNECTED" \in Status
      BY DEF Status
    <2>2. h \in Conn => conn[h] \in ConnType
      BY <1>2 DEF ConnsOK
    <2>3. QED BY <2>1, <2>2, ConnKeeps, Zenon
  <1>4. conn' = [conn EXCEPT ![h] = marked]
    BY <1>2 DEF MarkConnected, Visited, ConnsOK
  <1>5. ConnsOK'
    <2>1. h \in Conn /\ conn[h].life = "live" => conn[h].local \in Slot
      BY <1>2 DEF ConnsOK
    <2> HIDE DEF h, marked
    <2>2. QED BY <1>2, <1>3, <1>4, <2>1, ConnEdit
  <1>6. EngineOK'
    <2>1. out \in EnginePdu \cup {None} /\ Advance(out) /\ cur' = cur
      BY <1>2 DEF MarkConnected, EngineOK
    <2>2. QED BY <1>2, <2>1, AdvanceType
  <1>7. QED BY <1>1, <1>5, <1>6

LEMMA VisitEndedType ==
    ASSUME TypeInv, VisitEnded
    PROVE  HandlerOK' /\ ConnsOK' /\ ThreadsOK' /\ EngineOK'
  <1>1. ThreadsOK'
    BY DEF TypeInv, ThreadsOK, VisitEnded
  <1>2. EngineOK /\ ConnsOK /\ HandlerOK
    BY DEF TypeInv
  <1>3. conn[cur].local \in Slot /\ conn[cur].remote \in Remotes
    BY CurUsable DEF VisitEnded
  <1>4. HandlerOK'
    <2>1. handler' = [handler EXCEPT ![slot] = 0] /\ 0 \in 0..MaxConn
      BY Numbers DEF VisitEnded
    <2>2. QED BY <1>2, <2>1 DEF HandlerOK
  <1>5. ConnsOK'
    <2>1. conn' = [conn EXCEPT ![Visited] = Freed] /\ Freed.life = "freed"
      BY DEF VisitEnded, Freed
    <2>2. QED BY <1>2, <2>1, FreedType, ConnEdit
  <1>6. EngineOK'
    <2>1. Dm(conn[cur].remote, conn[cur].local) \in EnginePdu
      BY <1>3, DmType
    <2>2. Advance(Dm(conn[cur].remote, conn[cur].local)) /\ cur' = cur
      BY DEF VisitEnded
    <2>3. QED BY <1>2, <2>1, <2>2, AdvanceType
  <1>7. QED BY <1>1, <1>4, <1>5, <1>6

LEMMA SweepType == ASSUME TypeInv, Sweep PROVE TypeInv'
  <1>1. ASSUME VisitDangling PROVE TypeInv'
    BY <1>1 DEF VisitDangling, Crash, engine, TypeInv, HandlerOK, ConnsOK, ThreadsOK, EngineOK, UpOK,
       DownOK, MainOK, PeersOK, FaultOK
  <1>2. ASSUME ~VisitDangling PROVE TypeInv'
    <2>1. UpOK' /\ DownOK' /\ MainOK' /\ PeersOK' /\ FaultOK'
      BY <1>2 DEF Sweep, TypeInv, UpOK, DownOK, MainOK, PeersOK, FaultOK
    <2>2. HandlerOK' /\ ConnsOK' /\ ThreadsOK' /\ EngineOK'
      BY <1>2, VisitPlain, VisitDataType, RequeueType, VisitEstablishedType,
         MarkConnectedType, VisitEndedType
         DEF Sweep
    <2>3. QED BY <2>1, <2>2 DEF TypeInv
  <1>3. QED BY <1>1, <1>2

LEMMA HandOverType == ASSUME TypeInv, HandOver PROVE TypeInv'
  <1>1. /\ HandlerOK' /\ ConnsOK' /\ ThreadsOK' /\ UpOK' /\ MainOK' /\ PeersOK' /\ FaultOK'
    BY DEF HandOver, TypeInv, HandlerOK, ConnsOK, ThreadsOK, UpOK, MainOK, PeersOK, FaultOK
  <1>2. EngineOK /\ out \in DownPdu /\ llcDown \in Seq(DownPdu) /\ Len(llcDown) < MaxMsg
    BY DEF HandOver, TypeInv, EngineOK, DownOK, DownPdu
  <1>3. DownOK'
    <2>1. llcDown' = Append(llcDown, out)
      BY DEF HandOver
    <2>2. QED BY <1>2, <2>1, AppendProperties DEF DownOK, MaxMsg
  <1>4. EngineOK'
    <2>1. CASE pc = "reply"
      <3>1. ToSweep /\ cur' \in 0..MaxConn
        BY <1>2, <2>1 DEF HandOver, EngineOK
      <3>2. QED BY <1>2, <3>1, ToSweepType
    <2>2. CASE pc # "reply"
      BY <1>2, <2>2 DEF HandOver, EngineOK
    <2>3. QED BY <2>1, <2>2
  <1>5. QED BY <1>1, <1>3, <1>4 DEF TypeInv
-----------------------------------------------------------------------------
(***************************************************************************)
(* So do the threads, the client and the peers.                            *)
(***************************************************************************)
LEMMA GotoType ==
    ASSUME ThreadsOK, NEW t \in Thread,
           NEW label \in {"accept", "leave", "recv", "send", "stop", "exited"}, Goto(t, label)
    PROVE  ThreadsOK'
  BY Numbers DEF ThreadsOK, ThreadType, Goto, NoThread

LEMMA SetType ==
    ASSUME ConnsOK, NEW t, NEW new, Set(t, new),
           On(t) \in Conn => /\ new \in ConnType
                             /\ new.life = conn[On(t)].life /\ new.local = conn[On(t)].local
    PROVE  ConnsOK'
  <1>1. conn' = [conn EXCEPT ![On(t)] = new]
    BY DEF Set
  <1>2. On(t) \in Conn => new \in ConnType /\ (new.life = "live" => new.local \in Slot)
    BY DEF ConnsOK
  <1>3. QED BY <1>1, <1>2, ConnEdit


LEMMA RunType == ASSUME TypeInv, NEW t \in Thread, Run(t) PROVE TypeInv'
  <1>1. ConnsOK /\ ThreadsOK /\ FaultOK
    BY DEF TypeInv
  <1>2. ASSUME Misplaced(t) PROVE TypeInv'
    BY <1>2 DEF Misplaced, engine, TypeInv, HandlerOK, ConnsOK, ThreadsOK, EngineOK, UpOK,
       DownOK, MainOK, PeersOK, FaultOK
  <1>3. ASSUME NEW label, At(t, label), ConnsOK', ThreadsOK', FaultOK' PROVE TypeInv'
    BY <1>3 DEF At, engine, TypeInv, HandlerOK, EngineOK, UpOK, DownOK, MainOK, PeersOK
  <1>4. On(t) \in Conn => conn[On(t)] \in ConnType
    BY <1>1 DEF ConnsOK
  <1>5. ASSUME Decide(t) PROVE TypeInv'
    <2>1. PICK status \in Status : Set(t, [conn[On(t)] EXCEPT !.status = status])
      BY <1>5 DEF Decide, Status
    <2>2. On(t) \in Conn => /\ [conn[On(t)] EXCEPT !.status = status] \in ConnType
                            /\ [conn[On(t)] EXCEPT !.status = status].life = conn[On(t)].life
                            /\ [conn[On(t)] EXCEPT !.status = status].local = conn[On(t)].local
      BY <1>4, <2>1, ConnKeeps, Zenon
    <2>3. ConnsOK'
      BY <1>1, <2>1, <2>2, SetType
    <2>4. ThreadsOK' /\ FaultOK'
      BY <1>1, <1>5, <2>1, GotoType DEF Decide, Set, FaultOK
    <2>5. QED BY <1>3, <1>5, <2>3, <2>4 DEF Decide
  <1>6. ASSUME Leave(t) PROVE TypeInv'
    <2>1. On(t) \in Conn => /\ [conn[On(t)] EXCEPT !.thread = 0] \in ConnType
                            /\ [conn[On(t)] EXCEPT !.thread = 0].life = conn[On(t)].life
                            /\ [conn[On(t)] EXCEPT !.thread = 0].local = conn[On(t)].local
      <3>1. 0 \in {0} \cup Thread
        OBVIOUS
      <3>2. QED BY <1>4, <3>1, ConnKeeps, Zenon
    <2>2. ConnsOK'
      BY <1>1, <1>6, <2>1, SetType DEF Leave
    <2>3. ThreadsOK' /\ FaultOK'
      BY <1>1, <1>6, GotoType DEF Leave, Set, FaultOK
    <2>4. QED BY <1>3, <1>6, <2>2, <2>3 DEF Leave
  <1>7. ASSUME Recv(t) PROVE TypeInv'
    <2> DEFINE h == On(t)
               lighter == [conn[h] EXCEPT !.up = conn[h].up - 1]
    <2>1. Set(t, lighter)
      BY <1>7 DEF Recv
    <2>2. h \in Conn => conn[h].up - 1 \in 0..MaxMsg
      BY <1>4, <1>7 DEF Recv, ConnType, MaxMsg
    <2>3. h \in Conn => lighter \in ConnType /\ lighter.life = conn[h].life /\ lighter.local = conn[h].local
      BY <1>4, <2>2, ConnKeeps, Zenon
    <2>4. ConnsOK'
      <3> HIDE DEF lighter
      <3>1. QED BY <1>1, <2>1, <2>3, SetType
    <2>5. PICK next \in {"recv", "send", "stop"} : Goto(t, next)
      BY <1>7 DEF Recv, Replying, Leaving
    <2>6. ThreadsOK' /\ FaultOK'
      BY <1>1, <2>1, <2>5, GotoType DEF Set, FaultOK
    <2>7. QED BY <1>3, <1>7, <2>4, <2>6 DEF Recv
  <1>8. ASSUME Send(t) PROVE TypeInv'
    <2> DEFINE h == On(t)
               m == [ns |-> conn[h].s, nr |-> conn[h].r]
               queue == IF Len(conn[h].down) < MaxMsg THEN Append(conn[h].down, m)
                        ELSE conn[h].down
               fuller == [conn[h] EXCEPT !.down = queue]
    <2>1. h \in Conn => queue \in Seq(Stamps)
      <3>1. h \in Conn => m \in Stamps /\ conn[h].down \in Seq(Stamps)
        BY <1>4 DEF ConnType, Stamps
      <3> HIDE DEF m
      <3>2. QED BY <3>1, AppendProperties
    <2>2. Set(t, fuller)
      BY <1>8 DEF Send
    <2>3. h \in Conn => fuller \in ConnType /\ fuller.life = conn[h].life /\ fuller.local = conn[h].local
      <3> HIDE DEF queue
      <3>1. QED BY <1>4, <2>1, ConnKeeps, Zenon
    <2>4. ConnsOK'
      <3> HIDE DEF fuller
      <3>1. QED BY <1>1, <2>2, <2>3, SetType
    <2>5. PICK next \in {"recv", "send", "stop"} : Goto(t, next)
      BY <1>8 DEF Send, Leaving
    <2>6. ThreadsOK' /\ FaultOK'
      <3> HIDE DEF fuller
      <3>1. QED BY <1>1, <2>2, <2>5, GotoType DEF Set, FaultOK
    <2>7. QED BY <1>3, <1>8, <2>4, <2>6 DEF Send
  <1>9. ASSUME Stop(t) PROVE TypeInv'
    <2>1. On(t) \in Conn => /\ [conn[On(t)] EXCEPT !.status = "DISCONNECTED"] \in ConnType
                            /\ [conn[On(t)] EXCEPT !.status = "DISCONNECTED"].life = conn[On(t)].life
                            /\ [conn[On(t)] EXCEPT !.status = "DISCONNECTED"].local = conn[On(t)].local
      <3>1. "DISCONNECTED" \in Status
        BY DEF Status
      <3>2. QED BY <1>4, <3>1, ConnKeeps, Zenon
    <2>2. ConnsOK'
      BY <1>1, <1>9, <2>1, SetType DEF Stop
    <2>3. ThreadsOK' /\ FaultOK'
      BY <1>1, <1>9, GotoType DEF Stop, Set, FaultOK
    <2>4. QED BY <1>3, <1>9, <2>2, <2>3 DEF Stop
  <1>10. ASSUME Cancelled(t) PROVE TypeInv'
    <2>1. ConnsOK' /\ ThreadsOK' /\ FaultOK'
      BY <1>1, <1>10, GotoType DEF Cancelled, ConnsOK, FaultOK
    <2>2. QED BY <1>3, <1>10, <2>1 DEF Cancelled
  <1>11. QED BY <1>2, <1>5, <1>6, <1>7, <1>8, <1>9, <1>10 DEF Run

LEMMA ClientType == ASSUME TypeInv, Client PROVE TypeInv'
  <1>1. ASSUME Connect PROVE TypeInv'
    <2>1. Outgoing \in Slot /\ llcDown \in Seq(DownPdu) /\ Len(llcDown) < MaxMsg
      BY <1>1 DEF Connect, TypeInv, MainOK, DownOK
    <2>2. conn[1].remote \in Remotes
      BY Numbers DEF TypeInv, ConnsOK, ConnType, Remotes
    <2> DEFINE asked == [ptype |-> "CONNECT", dsap |-> conn[1].remote, ssap |-> Outgoing]
    <2>3. asked \in DownPdu
      BY <2>1, <2>2 DEF DownPdu, ClientPdu
    <2>4. DownOK'
      <3>1. llcDown' = Append(llcDown, asked)
        BY <1>1 DEF Connect
      <3> HIDE DEF asked
      <3>2. QED BY <2>1, <2>3, <3>1, AppendProperties DEF DownOK, MaxMsg
    <2>5. MainOK'
      BY <1>1, <2>1 DEF Connect, MainOK
    <2>6. QED BY <1>1, <2>4, <2>5 DEF Connect, engine, TypeInv, HandlerOK, ConnsOK, ThreadsOK, EngineOK,
                 UpOK, PeersOK, FaultOK
  <1>2. ASSUME Reset PROVE TypeInv'
    <2>1. HandlerOK'
      <3>1. HandlerOK /\ handler' = [handler EXCEPT ![Outgoing] = 1] /\ 1 \in 0..MaxConn
        BY <1>2, Numbers DEF Reset, TypeInv
      <3>2. QED BY <3>1 DEF HandlerOK
    <2>2. ConnsOK'
      <3> DEFINE new == [conn[1] EXCEPT !.status = "NEW"]
      <3>1. ConnsOK /\ conn[1] \in ConnType /\ "NEW" \in Status
        BY Numbers DEF TypeInv, ConnsOK, Status
      <3>2. conn' = [conn EXCEPT ![1] = new]
        BY <1>2, <3>1 DEF Reset, ConnsOK
      <3>3. new \in ConnType /\ new.life = conn[1].life /\ new.local = conn[1].local
        BY <3>1, ConnKeeps, Zenon
      <3>4. conn[1].life = "live" => conn[1].local \in Slot
        BY <3>1, Numbers DEF ConnsOK
      <3> HIDE DEF new
      <3>5. QED BY <3>1, <3>2, <3>3, <3>4, ConnEdit
    <2>3. MainOK'
      BY <1>2 DEF Reset, TypeInv, MainOK
    <2>4. QED BY <1>2, <2>1, <2>2, <2>3 DEF Reset, engine, TypeInv, ThreadsOK, EngineOK,
                 UpOK, DownOK, PeersOK, FaultOK
  <1>3. ASSUME Wait \/ Join PROVE TypeInv'
    <2>1. MainOK'
      BY <1>3 DEF Wait, Join, TypeInv, MainOK
    <2>2. QED BY <1>3, <2>1 DEF Wait, Join, engine, TypeInv, HandlerOK, ConnsOK, ThreadsOK, EngineOK,
                 UpOK, DownOK, PeersOK, FaultOK
  <1>4. QED BY <1>1, <1>2, <1>3 DEF Client

LEMMA PeerSendsType ==
    ASSUME TypeInv, NEW q \in Peer, NEW p \in UpPdu, NEW new \in PeerType,
           new.st \in {"open", "broken", "closing"} => new.at \in Slot, PeerSends(q, p, new)
    PROVE  TypeInv'
  <1>1. UpOK'
    <2>1. llcUp \in Seq(UpPdu) /\ Len(llcUp) < MaxMsg /\ llcUp' = Append(llcUp, p)
      BY DEF TypeInv, UpOK, PeerSends
    <2>2. QED BY <2>1, AppendProperties DEF UpOK, MaxMsg
  <1>2. PeersOK'
    <2>1. PeersOK /\ peer' = [peer EXCEPT ![q] = new]
      BY DEF TypeInv, PeerSends
    <2>2. QED BY <2>1, PeerEdit
  <1>3. QED BY <1>1, <1>2 DEF PeerSends, engine, TypeInv, HandlerOK, ConnsOK, ThreadsOK, EngineOK,
               DownOK, MainOK, FaultOK

LEMMA NoPeerType == NoPeer \in PeerType
  BY Numbers DEF NoPeer, PeerType

LEMMA AskingType ==
    /\ [NoPeer EXCEPT !.st = "connecting"] \in PeerType
    /\ [NoPeer EXCEPT !.st = "connecting"].st = "connecting"
  BY NoPeerType DEF PeerType

LEMMA OpenedType ==
    ASSUME NEW i \in Slot
    PROVE  /\ [NoPeer EXCEPT !.st = "open", !.at = i] \in PeerType
           /\ [NoPeer EXCEPT !.st = "open", !.at = i].st = "open"
           /\ [NoPeer EXCEPT !.st = "open", !.at = i].at = i
  <1>1. i \in 0..MaxSap
    BY Numbers DEF Slot
  <1>2. QED BY <1>1, NoPeerType DEF PeerType

LEMMA PeerStepType ==
    ASSUME TypeInv, NEW q \in Peer,
           PeerConnect(q) \/ PeerData(q) \/ PeerAck(q) \/ PeerClose(q) \/ PeerDrop(q)
    PROVE  TypeInv'
  <1>1. /\ peer[q] \in PeerType /\ (peer[q].st \in {"open", "broken", "closing"} => peer[q].at \in Slot)
        /\ q \in Remotes
    BY DEF TypeInv, PeersOK, Remotes
  <1>2. ASSUME PeerConnect(q) PROVE TypeInv'
    <2>1. PICK i \in Slot : PeerSends(q, [ptype |-> "CONNECT", dsap |-> i, ssap |-> q],
                                         [NoPeer EXCEPT !.st = "connecting"])
      BY <1>2, SapAssumption DEF PeerConnect
    <2>2. [ptype |-> "CONNECT", dsap |-> i, ssap |-> q] \in UpPdu
      BY <1>1 DEF UpPdu
    <2>3. /\ [NoPeer EXCEPT !.st = "connecting"] \in PeerType
          /\ [NoPeer EXCEPT !.st = "connecting"].st = "connecting"
      BY AskingType
    <2>4. QED BY <2>1, <2>2, <2>3, PeerSendsType
  <1>3. ASSUME PeerData(q) PROVE TypeInv'
    <2> DEFINE new == [peer[q] EXCEPT !.unacked = TRUE, !.vs = NextNo(@), !.owes = "none"]
               p   == [ptype |-> "I", dsap |-> peer[q].at, ssap |-> q, nr |-> peer[q].vr]
    <2>1. peer[q].st = "open" /\ PeerSends(q, p, new)
      BY <1>3 DEF PeerData
    <2>2. p \in UpPdu
      BY <1>1, <2>1 DEF UpPdu, PeerType
    <2>3. NextNo(peer[q].vs) \in SeqNo
      BY <1>1, NextNoType DEF PeerType
    <2>4. new \in PeerType /\ new.st = "open" /\ new.at = peer[q].at
      BY <1>1, <2>1, <2>3 DEF PeerType
    <2> HIDE DEF new, p
    <2>5. QED BY <1>1, <2>1, <2>2, <2>4, PeerSendsType
  <1>4. ASSUME PeerClose(q) PROVE TypeInv'
    <2> DEFINE new == [peer[q] EXCEPT !.st = "closing", !.owes = "none"]
               p   == [ptype |-> "DISC", dsap |-> peer[q].at, ssap |-> q]
    <2>1. peer[q].st \in {"open", "broken"} /\ PeerSends(q, p, new)
      BY <1>4 DEF PeerClose
    <2>2. p \in UpPdu
      BY <1>1, <2>1 DEF UpPdu
    <2>3. new \in PeerType /\ new.at = peer[q].at
      BY <1>1 DEF PeerType
    <2> HIDE DEF new, p
    <2>4. QED BY <1>1, <2>1, <2>2, <2>3, PeerSendsType
  <1>5. ASSUME PeerDrop(q) PROVE TypeInv'
    <2>1. peer[q].st = "open" /\ PeerSends(q, Dm(peer[q].at, q), NoPeer)
      BY <1>5 DEF PeerDrop
    <2>2. Dm(peer[q].at, q) \in UpPdu
      BY <1>1, <2>1 DEF UpPdu, Dm
    <2>3. NoPeer.st = "idle"
      BY DEF NoPeer
    <2>4. QED BY <2>1, <2>2, <2>3, NoPeerType, PeerSendsType
  <1>6. ASSUME PeerAck(q) PROVE TypeInv'
    <2> DEFINE new == [peer[q] EXCEPT !.owes = "none"]
               p   == [ptype |-> peer[q].owes, dsap |-> peer[q].at, ssap |-> q,
                       nr |-> peer[q].vr]
    <2>1. /\ peer[q].st \in {"open", "broken"} /\ peer[q].owes \in {"RR", "FRMR"}
          /\ PeerSends(q, p, new)
      BY <1>1, <1>6 DEF PeerAck, PeerType
    <2>2. p \in UpPdu
      BY <1>1, <2>1 DEF UpPdu, PeerType
    <2>3. new \in PeerType /\ new.at = peer[q].at /\ new.st = peer[q].st
      BY <1>1 DEF PeerType
    <2> HIDE DEF new, p
    <2>4. QED BY <1>1, <2>1, <2>2, <2>3, PeerSendsType
  <1>7. QED BY <1>2, <1>3, <1>4, <1>5, <1>6

LEMMA AfterType ==
    ASSUME TypeInv, NEW q \in Peer, NEW p \in DownPdu
    PROVE  /\ After(q, p) \in PeerType
           /\ After(q, p).st \in {"open", "broken", "closing"} => After(q, p).at \in Slot
  <1>1. /\ peer[q] \in PeerType /\ (peer[q].st \in {"open", "broken", "closing"} => peer[q].at \in Slot)
    BY DEF TypeInv, PeersOK
  <1>2. CASE p.ptype = "CC" /\ peer[q].st = "connecting"
    <2>1. After(q, p) = [NoPeer EXCEPT !.st = "open", !.at = p.ssap]
      BY <1>2 DEF After
    <2>2. p.ssap \in Slot
      BY <1>2 DEF DownPdu, EnginePdu, DataPdu, ClientPdu
    <2>3. QED BY <2>1, <2>2, OpenedType
  <1>3. CASE p.ptype = "DM"
    <2>1. After(q, p) = NoPeer
      BY <1>3 DEF After
    <2>2. QED BY <2>1, NoPeerType DEF NoPeer
  <1>4. CASE p.ptype \in {"RR", "RNR"} /\ peer[q].st = "open"
    <2>1. After(q, p) = [peer[q] EXCEPT !.unacked = @ /\ p.nr # peer[q].vs,
                                        !.busy = p.ptype = "RNR"]
      BY <1>4 DEF After
    <2>2. (peer[q].unacked /\ p.nr # peer[q].vs) \in BOOLEAN
      BY <1>1 DEF PeerType
    <2>3. QED BY <1>1, <2>1, <2>2 DEF PeerType
  <1>5. CASE p.ptype = "I" /\ peer[q].st = "open"
    <2>1. CASE p.ns = peer[q].vr
      <3>1. After(q, p) = [peer[q] EXCEPT !.unacked = @ /\ p.nr # peer[q].vs,
                                          !.vr = NextNo(@), !.owes = "RR"]
        BY <1>5, <2>1 DEF After
      <3>2. (peer[q].unacked /\ p.nr # peer[q].vs) \in BOOLEAN
        BY <1>1 DEF PeerType
      <3>3. NextNo(peer[q].vr) \in SeqNo
        BY <1>1, NextNoType DEF PeerType
      <3>4. QED BY <1>1, <3>1, <3>2, <3>3 DEF PeerType
    <2>2. CASE p.ns # peer[q].vr
      <3>1. After(q, p) = [peer[q] EXCEPT !.st = "broken", !.owes = "FRMR"]
        BY <1>5, <2>2 DEF After
      <3>2. QED BY <1>1, <1>5, <3>1 DEF PeerType
    <2>3. QED BY <2>1, <2>2
  <1>6. CASE ~(p.ptype = "CC" /\ peer[q].st = "connecting") /\ p.ptype # "DM"
             /\ ~(p.ptype \in {"RR", "RNR", "I"} /\ peer[q].st = "open")
    <2>1. After(q, p) = peer[q]
      BY <1>6 DEF After
    <2>2. QED BY <1>1, <2>1
  <1>7. QED BY <1>2, <1>3, <1>4, <1>5, <1>6

LEMMA RemoteType == ASSUME TypeInv, Remote PROVE TypeInv'
  <1> DEFINE p == Head(llcDown)
  <1>1. llcDown \in Seq(DownPdu) /\ llcDown # <<>> /\ llcDown' = Tail(llcDown)
    BY DEF Remote, PeerReceive, PeerAnswer, TypeInv, DownOK
  <1>2. p \in DownPdu /\ DownOK'
    BY <1>1, HeadTailProperties DEF TypeInv, DownOK, MaxMsg
  <1>3. HandlerOK' /\ ConnsOK' /\ ThreadsOK' /\ EngineOK' /\ MainOK' /\ FaultOK'
    BY DEF Remote, PeerReceive, PeerAnswer, engine, TypeInv, HandlerOK, ConnsOK, ThreadsOK, EngineOK,
           MainOK, FaultOK
  <1>4. PeersOK /\ UpOK
    BY DEF TypeInv
  <1>5. ASSUME PeerReceive PROVE UpOK' /\ PeersOK'
    <2>1. peer' = [peer EXCEPT ![p.dsap] = After(p.dsap, p)] /\ UNCHANGED llcUp
      BY <1>5 DEF PeerReceive
    <2>2. p.dsap \in Peer => /\ After(p.dsap, p) \in PeerType
                             /\ After(p.dsap, p).st \in {"open", "broken", "closing"} => After(p.dsap, p).at \in Slot
      BY <1>2, AfterType
    <2> HIDE DEF p
    <2>3. PeersOK'
      BY <1>4, <2>1, <2>2, PeerEdit
    <2>4. QED BY <1>4, <2>1, <2>3 DEF UpOK
  <1>6. ASSUME PeerAnswer PROVE UpOK' /\ PeersOK'
    <2>1. p.ptype = "CONNECT" /\ Len(llcUp) < MaxMsg
      BY <1>6 DEF PeerAnswer
    <2>2. p.dsap \in Remotes /\ Outgoing \in Slot
      BY <1>2, <2>1 DEF DownPdu, EnginePdu, DataPdu, ClientPdu
    <2> DEFINE cc  == [ptype |-> "CC", dsap |-> Outgoing, ssap |-> p.dsap]
               new == [NoPeer EXCEPT !.st = "open", !.at = Outgoing]
    <2>3. cc \in UpPdu /\ Dm(Outgoing, p.dsap) \in UpPdu
      BY <2>2 DEF UpPdu, Dm
    <2>4. new \in PeerType /\ new.at = Outgoing
      BY <2>2, OpenedType
    <2>5. /\ \E r \in UpPdu : llcUp' = Append(llcUp, r)
          /\ peer' = [peer EXCEPT ![p.dsap] = new] \/ UNCHANGED peer
      BY <1>6, <2>3 DEF PeerAnswer
    <2>6. UpOK'
      BY <1>4, <2>1, <2>5, AppendProperties DEF UpOK, MaxMsg
    <2> HIDE DEF p, new
    <2>7. PeersOK'
      <3>1. CASE peer' = [peer EXCEPT ![p.dsap] = new]
        BY <1>4, <2>2, <2>4, <3>1, PeerEdit
      <3>2. CASE UNCHANGED peer
        BY <1>4, <3>2 DEF PeersOK
      <3>3. QED BY <2>5, <3>1, <3>2
    <2>8. QED BY <2>6, <2>7
  <1>7. QED BY <1>2, <1>3, <1>5, <1>6 DEF Remote, TypeInv

LEMMA TypeNext == ASSUME TypeInv, [Next]_vars PROVE TypeInv'
  <1>1. ASSUME UNCHANGED vars PROVE TypeInv'
    BY <1>1 DEF vars, engine, TypeInv, HandlerOK, ConnsOK, ThreadsOK, EngineOK, UpOK,
       DownOK, MainOK, PeersOK, FaultOK
  <1>2. QED BY <1>1, DispatchType, SweepType, HandOverType, RunType, ClientType, RemoteType, PeerStepType
            DEF Next, Steps, Engine

(***************************************************************************)
(* Whatever peers, services and the client do, the engine's variables keep *)
(* their types and no queue of the link overflows (llc_service_llc.c).     *)
(***************************************************************************)
THEOREM TypeCorrect == Spec => []TypeOK
  <1>1. Init => TypeInv
    BY TypeInit
  <1>2. TypeInv /\ [Next]_vars => TypeInv'
    BY TypeNext
  <1>3. TypeInv => TypeOK
    BY TypeInvTypes
  <1>4. QED BY <1>1, <1>2, <1>3, PTL DEF Spec

-----------------------------------------------------------------------------
(***************************************************************************)
(* The table.  Until the client's call has returned nobody has heard of    *)
(* its connection: no PDU, no loop variable of the engine and no peer      *)
(* leads to it.  (With "early" in May a DISC may free it before Reset puts *)
(* it into the table again.)                                               *)
(***************************************************************************)
Unsent == main = "connect" => \A j \in 1..Len(llcDown) : llcDown[j].ptype # "CONNECT"

OwnQuiet   == handler[Outgoing] = 1 /\ cur # 1 /\ conn[1].thread = 0 /\ conn[1].status = "NEW"
UpQuiet    == \A j \in 1..Len(llcUp) : llcUp[j].dsap = Outgoing => llcUp[j].ptype = "CONNECT"
DownQuiet  == \A j \in 1..Len(llcDown) : llcDown[j].ptype = "CC" => llcDown[j].ssap # Outgoing
OutQuiet   == out.ptype = "CC" => out.ssap # Outgoing
PeersQuiet == \A q \in Peer : peer[q].st \in {"open", "broken", "closing"} => peer[q].at # Outgoing
PlaceQuiet == pc \in {"slayDisc", "slayDm", "deliver", "spawned"} => slot # Outgoing

Unheard ==
    main \in {"connect", "reset"} =>
        OwnQuiet /\ UpQuiet /\ DownQuiet /\ OutQuiet /\ PeersQuiet /\ PlaceQuiet

TableInv == SlotTable /\ Unsent /\ Unheard

LEMMA TableInit == Init => TableInv
  <1> SUFFICES ASSUME Init PROVE TableInv
    OBVIOUS
  <1>1. PICK q \in Peer : conn = [c \in Conn |->
            IF c = 1 /\ Outgoing # 0 THEN NewConn(Outgoing, Outgoing, q) ELSE Freed]
    BY DEF Init
  <1>2. /\ Freed.life = "freed"
        /\ NewConn(Outgoing, Outgoing, q).local = Outgoing
        /\ NewConn(Outgoing, Outgoing, q).life = "live"
        /\ NewConn(Outgoing, Outgoing, q).thread = 0
        /\ NewConn(Outgoing, Outgoing, q).status = "NEW"
    BY DEF Freed, NewConn
  <1>3. Outgoing # 0 => Outgoing \in Slot
    BY SapAssumption
  <1>4. handler = [i \in Slot |-> IF i = Outgoing THEN 1 ELSE 0]
    BY DEF Init
  <1>5. SlotTable
    BY <1>1, <1>2, <1>3, <1>4, Numbers DEF SlotTable, Slot, Conn
  <1>6. llcUp = <<>> /\ llcDown = <<>> /\ Len(<<>>) = 0 /\ out = None /\ cur = 0 /\ pc = "recv"
    BY EmptySeq DEF Init
  <1>7. main \in {"connect", "reset"} => Outgoing # 0
    BY DEF Init
  <1>8. \A r \in Peer : peer[r].st = "idle"
    BY DEF Init, NoPeer
  <1>9. Unsent
    BY <1>6 DEF Unsent
  <1>10. Unheard
    <2>1. UpQuiet /\ DownQuiet /\ OutQuiet /\ PeersQuiet /\ PlaceQuiet
      BY <1>6, <1>8 DEF UpQuiet, DownQuiet, OutQuiet, PeersQuiet, PlaceQuiet, None
    <2>2. Outgoing # 0 => OwnQuiet
      BY <1>1, <1>2, <1>3, <1>4, <1>6, Numbers DEF OwnQuiet
    <2>3. QED BY <1>7, <2>1, <2>2 DEF Unheard
  <1>11. QED BY <1>5, <1>9, <1>10 DEF TableInv

\* The client's connection and its slot belong together.
Early == main \in {"connect", "reset"}

LEMMA ClientOwn ==
    ASSUME TypeInv, TableInv, Early
    PROVE  /\ Outgoing \in Slot /\ handler[Outgoing] = 1 /\ 1 \in Conn
           /\ conn[1].life = "live" /\ conn[1].local = Outgoing
           /\ \A i \in Slot : handler[i] = 1 => i = Outgoing
           /\ \A c \in Conn : conn[c].life = "live" /\ conn[c].local = Outgoing => c = 1
           /\ OwnQuiet /\ UpQuiet /\ DownQuiet /\ OutQuiet /\ PeersQuiet /\ PlaceQuiet
  <1>1. OwnQuiet /\ UpQuiet /\ DownQuiet /\ OutQuiet /\ PeersQuiet /\ PlaceQuiet
    BY DEF TableInv, Unheard, Early
  <1>2. Outgoing \in Slot /\ handler[Outgoing] = 1 /\ 1 \in Conn
    BY <1>1, Numbers DEF OwnQuiet, TypeInv, MainOK, Early
  <1>3. SlotTable
    BY DEF TableInv
  <1>4. conn[1].life = "live" /\ conn[1].local = Outgoing
    BY <1>2, <1>3 DEF SlotTable
  <1>5. \A i \in Slot : handler[i] = 1 => i = Outgoing
    BY <1>3, <1>4 DEF SlotTable
  <1>6. \A c \in Conn : conn[c].life = "live" /\ conn[c].local = Outgoing => c = 1
    BY <1>2, <1>3 DEF SlotTable
  <1>7. QED BY <1>1, <1>2, <1>4, <1>5, <1>6

SameSeats == \A c \in Conn : conn'[c].life = conn[c].life /\ conn'[c].local = conn[c].local

LEMMA SeatsKept ==
    ASSUME SlotTable, SameSeats, UNCHANGED handler, TypeInv
    PROVE  SlotTable'
  <1>1. \A i \in Slot : handler[i] # 0 => handler[i] \in Conn
    BY HandlerType
  <1>2. QED BY <1>1 DEF SlotTable, SameSeats

\* What an edit of one connection that leaves its seat alone shows.
LEMMA SeatEdit ==
    ASSUME TypeInv, NEW c, NEW new, conn' = [conn EXCEPT ![c] = new],
           c \in Conn => new.life = conn[c].life /\ new.local = conn[c].local
    PROVE  /\ SameSeats
           /\ (c # 1 \/ (new.thread = conn[1].thread /\ new.status = conn[1].status))
                => conn'[1].thread = conn[1].thread /\ conn'[1].status = conn[1].status
  BY Numbers DEF SameSeats, TypeInv, ConnsOK

\* A slot that is given away, and one that is emptied.
LEMMA SeatTaken ==
    ASSUME TypeInv, SlotTable, NEW i \in Slot, NEW c \in Conn, NEW new,
           handler[i] = 0, conn[c].life = "freed", new.life = "live", new.local = i,
           handler' = [handler EXCEPT ![i] = c], conn' = [conn EXCEPT ![c] = new]
    PROVE  SlotTable'
  <1>1. /\ handler \in [Slot -> 0..MaxConn] /\ conn \in [Conn -> ConnType]
        /\ \A j \in Slot : handler[j] # 0 => handler[j] \in Conn
        /\ \A d \in Conn : conn[d].life = "live" => conn[d].local \in Slot
        /\ \A d \in Conn : d # 0
    BY HandlerType, Numbers DEF TypeInv, HandlerOK, ConnsOK, Conn
  <1>2. /\ handler'[i] = c /\ conn'[c] = new
        /\ \A j \in Slot : j # i => handler'[j] = handler[j]
        /\ \A d \in Conn : d # c => conn'[d] = conn[d]
    BY <1>1
  <1>3. \A j \in Slot : handler[j] # c
    BY <1>1 DEF SlotTable
  <1>4. \A d \in Conn : conn[d].life = "live" => conn[d].local # i
    BY <1>1 DEF SlotTable
  <1>5. ASSUME NEW j \in Slot, handler'[j] # 0
        PROVE  conn'[handler'[j]].life = "live" /\ conn'[handler'[j]].local = j
    <2>1. CASE j = i
      BY <1>2, <2>1
    <2>2. CASE j # i
      BY <1>1, <1>2, <1>3, <1>5, <2>2 DEF SlotTable
    <2>3. QED BY <2>1, <2>2
  <1>6. ASSUME NEW d \in Conn, conn'[d].life = "live"
        PROVE  handler'[conn'[d].local] = d
    <2>1. CASE d = c
      BY <1>2, <2>1
    <2>2. CASE d # c
      BY <1>1, <1>2, <1>4, <1>6, <2>2 DEF SlotTable
    <2>3. QED BY <2>1, <2>2
  <1>7. QED BY <1>5, <1>6 DEF SlotTable

LEMMA SeatEmptied ==
    ASSUME TypeInv, SlotTable, NEW i \in Slot,
           handler' = [handler EXCEPT ![i] = 0], conn' = [conn EXCEPT ![handler[i]] = Freed]
    PROVE  SlotTable'
  <1>1. /\ handler \in [Slot -> 0..MaxConn] /\ conn \in [Conn -> ConnType]
        /\ \A j \in Slot : handler[j] # 0 => handler[j] \in Conn
        /\ \A d \in Conn : conn[d].life = "live" => conn[d].local \in Slot
        /\ Freed.life = "freed"
    BY HandlerType DEF TypeInv, HandlerOK, ConnsOK, Freed
  <1>2. /\ handler'[i] = 0
        /\ \A j \in Slot : j # i => handler'[j] = handler[j]
        /\ \A d \in Conn : conn'[d] = IF d = handler[i] THEN Freed ELSE conn[d]
    BY <1>1
  <1>3. ASSUME NEW j \in Slot, handler'[j] # 0
        PROVE  conn'[handler'[j]].life = "live" /\ conn'[handler'[j]].local = j
    BY <1>1, <1>2, <1>3 DEF SlotTable
  <1>4. ASSUME NEW d \in Conn, conn'[d].life = "live"
        PROVE  handler'[conn'[d].local] = d
    BY <1>1, <1>2, <1>4 DEF SlotTable
  <1>5. QED BY <1>3, <1>4 DEF SlotTable


(***************************************************************************)
(* What the engine does to the quiet.                                      *)
(***************************************************************************)
LEMMA TakeQuiet ==
    ASSUME TypeInv, UpQuiet, NEW type, Take(type)
    PROVE  UpQuiet' /\ (Pdu.dsap = Outgoing => type = "CONNECT")
  <1>1. /\ llcUp \in Seq(UpPdu) /\ llcUp # <<>> /\ llcUp' = Tail(llcUp)
        /\ Pdu = llcUp[1] /\ Pdu.ptype = type
    BY DEF Take, Pdu, TypeInv, UpOK
  <1>2. /\ Len(llcUp) \in Nat /\ Len(llcUp) >= 1 /\ Len(llcUp') = Len(llcUp) - 1
        /\ \A j \in 1..Len(llcUp') : llcUp'[j] = llcUp[j + 1]
    BY <1>1
  <1>3. UpQuiet'
    BY <1>2 DEF UpQuiet
  <1>4. QED BY <1>1, <1>2, <1>3 DEF UpQuiet

LEMMA ToSweepQuiet == ASSUME ToSweep PROVE OutQuiet' /\ PlaceQuiet'
  BY DEF ToSweep, OutQuiet, PlaceQuiet, None

LEMMA ReplyQuiet ==
    ASSUME NEW p, Reply(p), p.ptype = "DM"
    PROVE  OutQuiet' /\ PlaceQuiet'
  BY DEF Reply, OutQuiet, PlaceQuiet

LEMMA AdvanceQuiet ==
    ASSUME NEW p, Advance(p), p.ptype = "CC" => p.ssap # Outgoing
    PROVE  OutQuiet' /\ PlaceQuiet'
  BY DEF Advance, OutQuiet, PlaceQuiet

\* Steps of the engine that leave the queue to the MAC alone.
LEMMA TableKeeps ==
    ASSUME TypeInv, TableInv, SlotTable', UNCHANGED <<llcDown, main, peer>>,
           Early => OwnQuiet' /\ UpQuiet' /\ OutQuiet' /\ PlaceQuiet'
    PROVE  TableInv'
  <1>1. Unsent' /\ (Early => DownQuiet' /\ PeersQuiet')
    BY DEF TableInv, Unsent, Unheard, Early, DownQuiet, PeersQuiet
  <1>2. QED BY <1>1 DEF TableInv, Unheard, Early

LEMMA TableConnect ==
    ASSUME TypeInv, TableInv, ConnectUnbound \/ ConnectNoSlot \/ ConnectSpawn
    PROVE  TableInv'
  <1>1. Take("CONNECT") /\ UNCHANGED <<llcDown, main, peer>> /\ SlotTable
    BY DEF ConnectUnbound, ConnectNoSlot, ConnectSpawn, Take, TableInv
  <1>2. Early => UpQuiet'
    BY <1>1, ClientOwn, TakeQuiet
  <1>3. ASSUME ConnectUnbound \/ ConnectNoSlot PROVE TableInv'
    <2>1. SlotTable' /\ cur' \in {cur, 0} /\ UNCHANGED <<handler, conn>>
      BY <1>1, <1>3 DEF SlotTable, ConnectUnbound, ConnectNoSlot
    <2>2. OutQuiet' /\ PlaceQuiet'
      BY <1>3, ReplyQuiet DEF ConnectUnbound, ConnectNoSlot, Dm
    <2>3. Early => OwnQuiet'
      BY <2>1, ClientOwn DEF OwnQuiet
    <2>4. QED BY <1>1, <1>2, <2>1, <2>2, <2>3, TableKeeps
  <1>4. ASSUME ConnectSpawn PROVE TableInv'
    <2>1. PICK i \in FirstFree(Pdu.dsap), c \in FreshConn, t \in FreshThread :
            /\ handler' = [handler EXCEPT ![i] = c]
            /\ cur' = c
            /\ IF Pdu.dsap \in Accepting
               THEN /\ conn' = [conn EXCEPT ![c] = [NewConn(i, Pdu.dsap, Pdu.ssap) EXCEPT !.thread = t]]
                    /\ thr' = [thr EXCEPT ![t] = Started(c, "accept")]
               ELSE /\ conn' = [conn EXCEPT ![c] = [NewConn(i, Pdu.dsap, Pdu.ssap) EXCEPT !.status = "ACCEPTED"]]
                    /\ UNCHANGED thr
      BY <1>4 DEF ConnectSpawn
    <2>2. Pdu.dsap \in Slot
      BY <1>1, TakeType DEF UpPdu
    <2>3. /\ i \in Slot /\ handler[i] = 0 /\ c \in Conn /\ conn[c].life = "freed"
      BY <2>2, Numbers DEF FirstFree, FreeSlots, FreshConn, Least, Slot
    <2>4. PICK new : conn' = [conn EXCEPT ![c] = new] /\ new.life = "live" /\ new.local = i
      <3>1. \E new : conn' = [conn EXCEPT ![c] = new] /\ new.life = "live" /\ new.local = i
        <4>1. CASE Pdu.dsap \in Accepting
          <5>1. /\ [NewConn(i, Pdu.dsap, Pdu.ssap) EXCEPT !.thread = t].life = "live"
                /\ [NewConn(i, Pdu.dsap, Pdu.ssap) EXCEPT !.thread = t].local = i
            BY DEF NewConn
          <5>2. QED BY <2>1, <4>1, <5>1, Zenon
        <4>2. CASE Pdu.dsap \notin Accepting
          <5>1. /\ [NewConn(i, Pdu.dsap, Pdu.ssap) EXCEPT !.status = "ACCEPTED"].life = "live"
                /\ [NewConn(i, Pdu.dsap, Pdu.ssap) EXCEPT !.status = "ACCEPTED"].local = i
            BY DEF NewConn
          <5>2. QED BY <2>1, <4>2, <5>1, Zenon
        <4>3. QED BY <4>1, <4>2
      <3>2. QED BY <3>1
    <2>5. SlotTable'
      BY <1>1, <2>1, <2>3, <2>4, SeatTaken
    <2>6. OutQuiet' /\ PlaceQuiet'
      BY <1>4, ToSweepQuiet DEF ConnectSpawn
    <2>7. ASSUME Early PROVE OwnQuiet'
      <3>1. c # 1 /\ i # Outgoing
        BY <2>3, <2>7, ClientOwn
      <3>2. handler'[Outgoing] = handler[Outgoing] /\ conn'[1] = conn[1] /\ cur' # 1
        BY <2>1, <2>4, <3>1
      <3>3. QED BY <2>7, <3>2, ClientOwn DEF OwnQuiet
    <2>8. QED BY <1>1, <1>2, <2>5, <2>6, <2>7, TableKeeps
  <1>5. QED BY <1>3, <1>4

LEMMA TableCancel ==
    ASSUME TypeInv, TableInv, ReceiveDisc \/ ReceiveDm
    PROVE  TableInv'
  <1>1. /\ Take("DISC") \/ Take("DM")
        /\ UNCHANGED <<llcDown, main, peer, handler, conn, cur>> /\ SlotTable /\ CancelHandler
    BY DEF ReceiveDisc, ReceiveDm, Take, TableInv
  <1>2. SlotTable'
    BY <1>1 DEF SlotTable
  <1>3. ASSUME Early PROVE OwnQuiet' /\ UpQuiet' /\ OutQuiet' /\ PlaceQuiet'
    <2>1. UpQuiet' /\ Pdu.dsap # Outgoing
      BY <1>1, <1>3, ClientOwn, TakeQuiet
    <2>2. OwnQuiet'
      BY <1>1, <1>3, ClientOwn DEF OwnQuiet
    <2>3. OutQuiet'
      BY <1>3, ClientOwn DEF OutQuiet, ReceiveDisc, ReceiveDm, Dm
    <2>4. PlaceQuiet'
      BY <1>1, <2>1 DEF PlaceQuiet, CancelHandler
    <2>5. QED BY <2>1, <2>2, <2>3, <2>4
  <1>4. QED BY <1>1, <1>2, <1>3, TableKeeps

LEMMA TableCc ==
    ASSUME TypeInv, TableInv, ReceiveCc
    PROVE  TableInv'
  <1> DEFINE h == handler[Pdu.dsap]
             marked == [[conn[h] EXCEPT !.remote = Pdu.ssap] EXCEPT !.status = "RECEIVED_CC"]
  <1>1. Take("CC") /\ UNCHANGED <<llcDown, main, peer, handler>> /\ SlotTable /\ ToSweep /\ cur' = h
    BY DEF ReceiveCc, Take, TableInv
  <1>2. Pdu.dsap \in Slot
    BY <1>1, TakeType DEF UpPdu
  <1>3. h \in Conn /\ conn[h] \in ConnType
    BY <1>2, HandlerType DEF ReceiveCc
  <1>4. conn' = [conn EXCEPT ![h] = marked]
    BY <1>3 DEF ReceiveCc, TypeInv, ConnsOK
  <1>5. marked.life = conn[h].life /\ marked.local = conn[h].local
    BY <1>3 DEF ConnType
  <1> HIDE DEF marked
  <1>6. SameSeats /\ (h # 1 => conn'[1].thread = conn[1].thread /\ conn'[1].status = conn[1].status)
    BY <1>4, <1>5, SeatEdit
  <1>7. SlotTable'
    BY <1>1, <1>6, SeatsKept
  <1>8. ASSUME Early PROVE OwnQuiet' /\ UpQuiet'
    <2>1. UpQuiet' /\ Pdu.dsap # Outgoing
      BY <1>1, <1>8, ClientOwn, TakeQuiet
    <2>2. h # 1
      BY <1>2, <1>8, <2>1, ClientOwn
    <2>3. OwnQuiet'
      BY <1>1, <1>6, <1>8, <2>2, ClientOwn DEF OwnQuiet
    <2>4. QED BY <2>1, <2>3
  <1>9. OutQuiet' /\ PlaceQuiet'
    BY <1>1, ToSweepQuiet
  <1>10. QED BY <1>1, <1>7, <1>8, <1>9, TableKeeps

LEMMA TableI ==
    ASSUME TypeInv, TableInv, ReceiveI
    PROVE  TableInv'
  <1> DEFINE h == handler[Pdu.dsap]
             owing == [conn[h] EXCEPT !.owed = TRUE, !.r = NextNo(@), !.sa = Pdu.nr]
  <1>1. /\ Take("I") /\ UNCHANGED <<llcDown, main, peer, handler, cur, out>> /\ SlotTable
        /\ slot' = Pdu.dsap
    BY DEF ReceiveI, Take, TableInv
  <1>2. Pdu.dsap \in Slot
    BY <1>1, TakeType DEF UpPdu
  <1>3. h \in Conn /\ conn[h] \in ConnType
    BY <1>2, HandlerType DEF ReceiveI
  <1>4. conn' = [conn EXCEPT ![h] = owing]
    BY <1>3 DEF ReceiveI, TypeInv, ConnsOK
  <1>5. /\ owing.life = conn[h].life /\ owing.local = conn[h].local
        /\ owing.thread = conn[h].thread /\ owing.status = conn[h].status
    BY <1>3 DEF ConnType
  <1> HIDE DEF owing, h
  <1>6. SameSeats /\ conn'[1].thread = conn[1].thread /\ conn'[1].status = conn[1].status
    BY <1>4, <1>5, SeatEdit
  <1>7. SlotTable'
    BY <1>1, <1>6, SeatsKept
  <1>8. ASSUME Early PROVE OwnQuiet' /\ UpQuiet' /\ OutQuiet' /\ PlaceQuiet'
    <2>1. UpQuiet' /\ Pdu.dsap # Outgoing
      BY <1>1, <1>8, ClientOwn, TakeQuiet
    <2>2. OwnQuiet' /\ OutQuiet'
      BY <1>1, <1>6, <1>8, ClientOwn DEF OwnQuiet, OutQuiet
    <2>3. PlaceQuiet'
      BY <1>1, <2>1 DEF PlaceQuiet
    <2>4. QED BY <2>1, <2>2, <2>3
  <1>9. QED BY <1>1, <1>7, <1>8, TableKeeps


\* A connection that is edited without a change of its thread, its status or its seat,
\* or is not the client's.
LEMMA TableEdit ==
    ASSUME TypeInv, TableInv, UNCHANGED <<handler, llcUp, llcDown, main, peer>>,
           NEW c, NEW new, conn' = [conn EXCEPT ![c] = new],
           c \in Conn => new.life = conn[c].life /\ new.local = conn[c].local,
           Early => /\ c # 1 \/ (new.thread = conn[1].thread /\ new.status = conn[1].status)
                    /\ cur' # 1 /\ OutQuiet' /\ PlaceQuiet'
    PROVE  TableInv'
  <1>1. SlotTable'
    BY SeatEdit, SeatsKept DEF TableInv
  <1>2. ASSUME Early PROVE OwnQuiet' /\ UpQuiet'
    <2>1. conn'[1].thread = conn[1].thread /\ conn'[1].status = conn[1].status
      BY <1>2, SeatEdit
    <2>2. QED BY <1>2, <2>1, ClientOwn DEF OwnQuiet, UpQuiet
  <1>3. QED BY <1>1, <1>2, TableKeeps

LEMMA TableRr ==
    ASSUME TypeInv, TableInv, ReceiveRr \/ ReceiveFrmr
    PROVE  TableInv'
  <1> DEFINE h == handler[Pdu.dsap]
             acked == [conn[h] EXCEPT !.sa = Pdu.nr]
  <1>1. /\ UNCHANGED <<llcDown, main, peer, handler, cur>> /\ SlotTable /\ ToSweep
        /\ Take("RR") \/ Take("FRMR")
    BY DEF ReceiveRr, ReceiveFrmr, Take, TableInv
  <1>2. OutQuiet' /\ PlaceQuiet'
    BY <1>1, ToSweepQuiet
  <1>3. SlotTable' /\ conn'[1].thread = conn[1].thread /\ conn'[1].status = conn[1].status
    <2>1. CASE ReceiveFrmr
      BY <1>1, <2>1 DEF ReceiveFrmr, SlotTable
    <2>2. CASE ReceiveRr
      <3>1. conn' = [conn EXCEPT ![h] = acked] /\ \A c \in Conn : conn[c] \in ConnType
        BY <2>2 DEF ReceiveRr, TypeInv, ConnsOK
      <3>2. h \in Conn => /\ acked.life = conn[h].life /\ acked.local = conn[h].local
                          /\ acked.thread = conn[h].thread /\ acked.status = conn[h].status
        BY <3>1 DEF ConnType
      <3>3. h = 1 => h \in Conn
        BY Numbers
      <3> HIDE DEF acked, h
      <3>4. SameSeats /\ conn'[1].thread = conn[1].thread /\ conn'[1].status = conn[1].status
        BY <3>1, <3>2, <3>3, SeatEdit
      <3>5. QED BY <1>1, <3>4, SeatsKept
    <2>3. QED BY <2>1, <2>2
  <1>4. ASSUME Early PROVE OwnQuiet' /\ UpQuiet'
    BY <1>1, <1>3, <1>4, ClientOwn, TakeQuiet DEF OwnQuiet
  <1>5. QED BY <1>1, <1>2, <1>3, <1>4, TableKeeps

\* The same when no connection changes.
LEMMA TableStill ==
    ASSUME TypeInv, TableInv, UNCHANGED <<handler, conn, llcUp, llcDown, main, peer>>,
           Early => cur' # 1 /\ OutQuiet' /\ PlaceQuiet'
    PROVE  TableInv'
  <1>1. SlotTable'
    BY DEF TableInv, SlotTable
  <1>2. ASSUME Early PROVE OwnQuiet' /\ UpQuiet'
    BY <1>2, ClientOwn DEF OwnQuiet, UpQuiet
  <1>3. QED BY <1>1, <1>2, TableKeeps

LEMMA TableFinish ==
    ASSUME TypeInv, TableInv, FinishDisc \/ FinishDm \/ Deliver
    PROVE  TableInv'
  <1> DEFINE h == handler[slot]
  <1>1. slot \in Slot /\ ConnsOK
    BY DEF TypeInv, EngineOK
  <1>2. /\ UNCHANGED <<llcUp, llcDown, main, peer, cur>> /\ SlotTable
        /\ pc \in {"slayDisc", "slayDm", "deliver"}
    BY DEF FinishDisc, FinishDm, Deliver, Slain, TableInv
  <1>3. Early => slot # Outgoing /\ h # 1 /\ cur' # 1
    BY <1>1, <1>2, ClientOwn DEF PlaceQuiet, OwnQuiet
  <1>4. ASSUME FinishDisc PROVE TableInv'
    <2>1. handler' = [handler EXCEPT ![slot] = 0] /\ conn' = [conn EXCEPT ![handler[slot]] = Freed]
      BY <1>4 DEF FinishDisc
    <2>2. SlotTable'
      BY <1>1, <1>2, <2>1, SeatEmptied
    <2>3. ASSUME Early PROVE OwnQuiet' /\ UpQuiet' /\ OutQuiet' /\ PlaceQuiet'
      <3>1. handler'[Outgoing] = handler[Outgoing] /\ conn'[1] = conn[1]
        BY <1>1, <1>3, <2>1, <2>3, ClientOwn DEF TypeInv, HandlerOK
      <3>2. OwnQuiet'
        BY <1>3, <2>3, <3>1, ClientOwn DEF OwnQuiet
      <3>3. UpQuiet'
        BY <1>2, <2>3, ClientOwn DEF UpQuiet
      <3>4. OutQuiet' /\ PlaceQuiet'
        BY <1>4, <2>3, ClientOwn DEF FinishDisc, Reply, OutQuiet, PlaceQuiet
      <3>5. QED BY <3>2, <3>3, <3>4
    <2>4. QED BY <1>2, <2>2, <2>3, TableKeeps
  <1>5. ASSUME FinishDm PROVE TableInv'
    <2> DEFINE refused == [[conn[h] EXCEPT !.status = "REJECTED"] EXCEPT !.thread = 0]
    <2>1. conn' = [conn EXCEPT ![h] = refused] /\ UNCHANGED handler
      BY <1>5, <1>1 DEF FinishDm, ConnsOK
    <2>2. h \in Conn => refused.life = conn[h].life /\ refused.local = conn[h].local
      BY <1>1 DEF ConnsOK, ConnType
    <2>3. OutQuiet' /\ PlaceQuiet'
      BY <1>5, ToSweepQuiet DEF FinishDm
    <2> HIDE DEF refused, h
    <2>4. QED BY <1>2, <1>3, <2>1, <2>2, <2>3, TableEdit
  <1>6. ASSUME Deliver PROVE TableInv'
    <2> DEFINE fuller == [conn[h] EXCEPT !.up = @ + 1]
    <2>1. conn' = [conn EXCEPT ![h] = fuller] /\ UNCHANGED handler
      BY <1>6, <1>1 DEF Deliver, ConnsOK
    <2>2. h \in Conn => fuller.life = conn[h].life /\ fuller.local = conn[h].local
      BY <1>1 DEF ConnsOK, ConnType
    <2>3. OutQuiet' /\ PlaceQuiet'
      BY <1>6, ToSweepQuiet DEF Deliver
    <2> HIDE DEF fuller, h
    <2>4. QED BY <1>2, <1>3, <2>1, <2>2, <2>3, TableEdit
  <1>7. QED BY <1>4, <1>5, <1>6

LEMMA TableDispatch == ASSUME TypeInv, TableInv, Dispatch PROVE TableInv'
  <1>1. ASSUME Symmetry PROVE TableInv'
    <2>1. /\ UNCHANGED <<handler, conn, llcUp, llcDown, main, peer, cur>>
          /\ OutQuiet' /\ PlaceQuiet'
      BY <1>1, ToSweepQuiet DEF Symmetry
    <2>2. Early => cur' # 1
      BY <2>1, ClientOwn DEF OwnQuiet
    <2>3. QED BY <2>1, <2>2, TableStill
  <1>2. ASSUME ReceiveFails PROVE TableInv'
    <2>1. UNCHANGED <<handler, conn, pc, slot, out, llcUp, llcDown, main, peer, cur>>
      BY <1>2 DEF ReceiveFails, Crash, engine
    <2>2. Early => cur' # 1 /\ OutQuiet' /\ PlaceQuiet'
      BY <2>1, ClientOwn DEF OwnQuiet, OutQuiet, PlaceQuiet
    <2>3. QED BY <2>1, <2>2, TableStill
  <1>3. QED BY <1>1, <1>2, TableConnect, TableCancel, TableCc, TableI, TableRr, TableFinish
            DEF Dispatch

LEMMA VisitsNotOwn ==
    ASSUME TypeInv, TableInv, Early, handler[slot] = 1
    PROVE  slot = Outgoing /\ conn[handler[slot]].status = "NEW" /\ conn[handler[slot]].thread = 0
  <1>1. slot \in Slot
    BY DEF TypeInv, EngineOK
  <1>2. QED BY <1>1, ClientOwn DEF OwnQuiet

\* The sweep takes a message from the queue, and perhaps puts it back: only the
\* numbers of the connection change.
LEMMA NumbersEdit ==
    ASSUME ConnsOK, VisitData \/ VisitPostpone \/ Requeue
    PROVE  \E new :
             /\ conn' = [conn EXCEPT ![handler[slot]] = new]
             /\ handler[slot] \in Conn =>
                  LET old == conn[handler[slot]]
                  IN  /\ new.life = old.life /\ new.local = old.local
                      /\ new.thread = old.thread /\ new.status = old.status
                      /\ new.remote = old.remote /\ new.up = old.up
  <1> DEFINE h == handler[slot]
             sent == [conn[h] EXCEPT !.down = Tail(@), !.s = NextNo(@)]
             taken == [conn[h] EXCEPT !.down = Tail(@)]
             m == [ns |-> out.ns, nr |-> out.nr]
             put == [conn[h] EXCEPT !.down = IF Len(@) < MaxMsg THEN <<m>> \o @ ELSE @]
  <1>1. ASSUME NEW new \in {sent, taken, put}, h \in Conn
        PROVE  /\ new.life = conn[h].life /\ new.local = conn[h].local
               /\ new.thread = conn[h].thread /\ new.status = conn[h].status
               /\ new.remote = conn[h].remote /\ new.up = conn[h].up
    <2>1. conn[h] \in ConnType
      BY <1>1 DEF ConnsOK
    <2>2. QED BY <1>1, <2>1 DEF ConnType
  <1>2. PICK new \in {sent, taken, put} : conn' = [conn EXCEPT ![h] = new]
    <2>1. CASE VisitData
      BY <2>1 DEF VisitData, Visited, ConnsOK
    <2>2. CASE VisitPostpone
      BY <2>2 DEF VisitPostpone, Visited, ConnsOK
    <2>3. CASE Requeue
      BY <2>3 DEF Requeue, Visited, ConnsOK
    <2>4. QED BY <2>1, <2>2, <2>3
  <1> HIDE DEF sent, taken, put
  <1>3. QED BY <1>1, <1>2

LEMMA TableSweep == ASSUME TypeInv, TableInv, Sweep PROVE TableInv'
  <1> DEFINE h == handler[slot]
  <1>1. slot \in Slot /\ ConnsOK
    BY DEF TypeInv, EngineOK
  <1>2. ASSUME VisitDangling PROVE TableInv'
    <2>1. UNCHANGED <<handler, conn, pc, slot, out, llcUp, llcDown, main, peer, cur>>
      BY <1>2 DEF VisitDangling, Crash, engine
    <2>2. Early => cur' # 1 /\ OutQuiet' /\ PlaceQuiet'
      BY <2>1, ClientOwn DEF OwnQuiet, OutQuiet, PlaceQuiet
    <2>3. QED BY <2>1, <2>2, TableStill
  <1> SUFFICES ASSUME ~VisitDangling PROVE TableInv'
    BY <1>2
  <1>3. UNCHANGED <<llcUp, llcDown, main, peer>>
    BY DEF Sweep
  <1>4. cur' = cur /\ (Early => cur' # 1)
    <2>1. cur' = cur
      BY DEF Sweep, VisitEmpty, VisitData, VisitPostpone, Requeue, VisitRunning, VisitWaiting,
             VisitEstablished, MarkConnected, VisitEnded
    <2>2. QED BY <2>1, ClientOwn DEF OwnQuiet
  <1>5. ASSUME VisitEmpty \/ VisitWaiting PROVE TableInv'
    <2>1. UNCHANGED <<handler, conn>> /\ (Advance(out) \/ Advance(None))
      BY <1>5 DEF VisitEmpty, VisitWaiting
    <2>2. Early => OutQuiet' /\ PlaceQuiet'
      BY <2>1, ClientOwn, AdvanceQuiet DEF OutQuiet, None
    <2>3. QED BY <1>3, <1>4, <2>1, <2>2, TableStill
  <1>6. ASSUME VisitRunning PROVE TableInv'
    <2> DEFINE said == [conn[h] EXCEPT !.owed = FALSE]
    <2>1. conn' = [conn EXCEPT ![h] = said] /\ UNCHANGED handler /\ conn[h].thread # 0
      BY <1>1, <1>6 DEF VisitRunning, Visited, ConnsOK
    <2>2. h \in Conn => said.life = conn[h].life /\ said.local = conn[h].local
      BY <1>1 DEF ConnsOK, ConnType
    <2>3. OutQuiet' /\ PlaceQuiet'
      BY <1>6, AdvanceQuiet DEF VisitRunning, Acknowledgement, None
    <2>4. Early => h # 1
      BY <2>1, VisitsNotOwn
    <2> HIDE DEF said, h
    <2>5. QED BY <1>3, <1>4, <2>1, <2>2, <2>3, <2>4, TableEdit
  <1>7. ASSUME VisitData \/ VisitPostpone \/ Requeue PROVE TableInv'
    <2>1. PICK new : /\ conn' = [conn EXCEPT ![h] = new]
                     /\ h \in Conn => /\ new.life = conn[h].life /\ new.local = conn[h].local
                                      /\ new.thread = conn[h].thread
                                      /\ new.status = conn[h].status
      BY <1>1, <1>7, NumbersEdit
    <2>2. UNCHANGED handler
      BY <1>7 DEF VisitData, VisitPostpone, Requeue
    <2>3. OutQuiet' /\ PlaceQuiet'
      <3>1. CASE Requeue
        BY <3>1, AdvanceQuiet DEF Requeue, None
      <3>2. CASE VisitData \/ VisitPostpone
        BY <3>2 DEF VisitData, VisitPostpone, Unqueue, OutQuiet, PlaceQuiet
      <3>3. QED BY <1>7, <3>1, <3>2
    <2>4. h = 1 => h \in Conn
      BY Numbers
    <2> HIDE DEF h
    <2>5. QED BY <1>3, <1>4, <2>1, <2>2, <2>3, <2>4, TableEdit
  <1>8. ASSUME VisitEstablished PROVE TableInv'
    <2>1. PICK t : conn' = [conn EXCEPT ![cur].thread = t]
      BY <1>8 DEF VisitEstablished
    <2> DEFINE served == [conn[cur] EXCEPT !.thread = t]
    <2>2. /\ cur \in Conn /\ conn[cur] \in ConnType /\ conn[cur].life = "live"
      BY <1>8, CurUsable DEF VisitEstablished
    <2>3. conn' = [conn EXCEPT ![cur] = served] /\ UNCHANGED handler
      BY <1>1, <1>8, <2>1, <2>2 DEF ConnsOK, VisitEstablished
    <2>4. served.life = conn[cur].life /\ served.local = conn[cur].local
      BY <2>2 DEF ConnType
    <2>5. ASSUME Early PROVE OutQuiet' /\ PlaceQuiet'
      <3>1. slot # Outgoing
        <4>1. conn[handler[slot]].status # "NEW"
          BY <1>8 DEF VisitEstablished, Visited
        <4>2. QED BY <2>5, <4>1, ClientOwn DEF OwnQuiet
      <3>2. conn[cur].local # Outgoing
        BY <1>4, <2>2, <2>5, ClientOwn
      <3>3. QED BY <1>8, <3>1, <3>2 DEF VisitEstablished, OutQuiet, PlaceQuiet, None
    <2> HIDE DEF served
    <2>6. QED BY <1>3, <1>4, <2>3, <2>4, <2>5, TableEdit
  <1>9. ASSUME MarkConnected PROVE TableInv'
    <2> DEFINE marked == [conn[h] EXCEPT !.status = "CONNECTED"]
    <2>1. conn' = [conn EXCEPT ![h] = marked] /\ UNCHANGED handler /\ pc = "spawned" /\ Advance(out)
      BY <1>1, <1>9 DEF MarkConnected, Visited, ConnsOK
    <2>2. h \in Conn => marked.life = conn[h].life /\ marked.local = conn[h].local
      BY <1>1 DEF ConnsOK, ConnType
    <2>3. ASSUME Early PROVE h # 1 /\ OutQuiet' /\ PlaceQuiet'
      <3>1. h # 1
        BY <2>1, <2>3, VisitsNotOwn, ClientOwn DEF PlaceQuiet
      <3>2. OutQuiet' /\ PlaceQuiet'
        BY <2>1, <2>3, ClientOwn, AdvanceQuiet DEF OutQuiet
      <3>3. QED BY <3>1, <3>2
    <2> HIDE DEF marked, h
    <2>4. QED BY <1>3, <1>4, <2>1, <2>2, <2>3, TableEdit
  <1>10. ASSUME VisitEnded PROVE TableInv'
    <2>1. /\ handler' = [handler EXCEPT ![slot] = 0] /\ conn' = [conn EXCEPT ![handler[slot]] = Freed]
          /\ conn[handler[slot]].status # "NEW" /\ SlotTable
      BY <1>10 DEF VisitEnded, Visited, TableInv
    <2>2. SlotTable'
      BY <1>1, <2>1, SeatEmptied
    <2>3. OutQuiet' /\ PlaceQuiet'
      BY <1>10, AdvanceQuiet DEF VisitEnded, Dm
    <2>4. ASSUME Early PROVE OwnQuiet' /\ UpQuiet'
      <3>1. slot # Outgoing /\ handler[slot] # 1
        BY <1>1, <2>1, <2>4, ClientOwn DEF OwnQuiet
      <3>2. handler'[Outgoing] = handler[Outgoing] /\ conn'[1] = conn[1]
        BY <1>1, <2>1, <2>4, <3>1, ClientOwn DEF TypeInv, HandlerOK, ConnsOK
      <3>3. QED BY <1>3, <1>4, <2>4, <3>2, ClientOwn DEF OwnQuiet, UpQuiet
    <2>5. QED BY <1>3, <2>2, <2>3, <2>4, TableKeeps
  <1>11. QED BY <1>5, <1>6, <1>7, <1>8, <1>9, <1>10 DEF Sweep

LEMMA TableHandOver == ASSUME TypeInv, TableInv, HandOver PROVE TableInv'
  <1>1. /\ UNCHANGED <<handler, conn, cur, llcUp, main, peer>> /\ out' = None
        /\ llcDown \in Seq(DownPdu) /\ llcDown' = Append(llcDown, out) /\ out \in EnginePdu
        /\ pc' \in {"sweep", "recv"}
    BY DEF HandOver, ToSweep, TypeInv, DownOK, EngineOK
  <1>2. /\ Len(llcDown') = Len(llcDown) + 1 /\ Len(llcDown) \in Nat
        /\ \A j \in 1..Len(llcDown) : llcDown'[j] = llcDown[j]
        /\ llcDown'[Len(llcDown) + 1] = out
    BY <1>1
  <1>3. out.ptype # "CONNECT"
    BY <1>1 DEF EnginePdu, DataPdu
  <1>4. SlotTable'
    BY <1>1 DEF TableInv, SlotTable
  <1>5. Unsent'
    <2>1. \A j \in 1..Len(llcDown') : j \in 1..Len(llcDown) \/ j = Len(llcDown) + 1
      BY <1>2
    <2>2. QED BY <1>1, <1>2, <1>3, <2>1 DEF TableInv, Unsent
  <1>6. ASSUME Early PROVE DownQuiet'
    <2>1. \A j \in 1..Len(llcDown') : j \in 1..Len(llcDown) \/ j = Len(llcDown) + 1
      BY <1>2
    <2>2. DownQuiet /\ OutQuiet
      BY <1>6, ClientOwn
    <2>3. QED BY <1>2, <2>1, <2>2 DEF DownQuiet, OutQuiet
  <1>7. ASSUME Early PROVE OwnQuiet' /\ UpQuiet' /\ PeersQuiet'
    BY <1>1, <1>7, ClientOwn DEF OwnQuiet, UpQuiet, PeersQuiet
  <1>8. OutQuiet' /\ PlaceQuiet'
    BY <1>1 DEF OutQuiet, PlaceQuiet, None
  <1>9. QED BY <1>1, <1>4, <1>5, <1>6, <1>7, <1>8 DEF TableInv, Unheard, Early

(***************************************************************************)
(* The threads change neither slots nor seats.                             *)
(***************************************************************************)
LEMMA TableRun == ASSUME TypeInv, TableInv, NEW t \in Thread, Run(t) PROVE TableInv'
  <1> DEFINE h == On(t)
  <1>1. UNCHANGED <<handler, pc, slot, out, cur, llcUp, llcDown, main, peer>>
    BY DEF Run, Decide, Leave, Recv, Send, Stop, Misplaced, Cancelled, At, engine
  <1>2. Early => cur' # 1 /\ OutQuiet' /\ PlaceQuiet'
    BY <1>1, ClientOwn DEF OwnQuiet, OutQuiet, PlaceQuiet
  <1>3. h = 1 => h \in Conn
    BY Numbers
  <1>4. h \in Conn => conn[h] \in ConnType
    BY DEF TypeInv, ConnsOK
  <1>5. Early /\ h = 1 => conn[h].thread = 0 /\ t # 0
    BY ClientOwn, Numbers DEF OwnQuiet, Thread
  <1>6. ASSUME Misplaced(t) \/ Cancelled(t) PROVE TableInv'
    <2>1. UNCHANGED conn
      BY <1>6 DEF Misplaced, Cancelled
    <2>2. QED BY <1>1, <1>2, <2>1, TableStill
  <1>7. ASSUME NEW new, Set(t, new),
               h \in Conn => new.life = conn[h].life /\ new.local = conn[h].local,
               Early /\ h = 1 => new.thread = 0 /\ new.status = conn[h].status
        PROVE  TableInv'
    <2>1. conn' = [conn EXCEPT ![h] = new]
      BY <1>7 DEF Set
    <2> HIDE DEF h
    <2>2. Early => h # 1 \/ (new.thread = conn[1].thread /\ new.status = conn[1].status)
      BY <1>5, <1>7
    <2>3. QED BY <1>1, <1>2, <1>7, <2>1, <2>2, TableEdit
  <1>8. ASSUME Decide(t) PROVE TableInv'
    <2>1. PICK status : Set(t, [conn[h] EXCEPT !.status = status])
      BY <1>8 DEF Decide
    <2>2. conn[h].thread = t
      BY <1>8 DEF Decide
    <2>3. h \in Conn => /\ [conn[h] EXCEPT !.status = status].life = conn[h].life
                        /\ [conn[h] EXCEPT !.status = status].local = conn[h].local
      BY <1>4 DEF ConnType
    <2>4. ~(Early /\ h = 1)
      BY <1>5, <2>2
    <2>5. QED BY <1>7, <2>1, <2>3, <2>4
  <1>9. ASSUME Leave(t) PROVE TableInv'
    <2>1. Set(t, [conn[h] EXCEPT !.thread = 0])
      BY <1>9 DEF Leave
    <2>2. h \in Conn => /\ [conn[h] EXCEPT !.thread = 0].life = conn[h].life
                        /\ [conn[h] EXCEPT !.thread = 0].local = conn[h].local
                        /\ [conn[h] EXCEPT !.thread = 0].thread = 0
                        /\ [conn[h] EXCEPT !.thread = 0].status = conn[h].status
      BY <1>4 DEF ConnType
    <2>3. QED BY <1>3, <1>7, <2>1, <2>2
  <1>10. ASSUME Recv(t) PROVE TableInv'
    <2> DEFINE new == [conn[h] EXCEPT !.up = @ - 1]
    <2>1. Set(t, new)
      BY <1>10 DEF Recv
    <2>2. h \in Conn => /\ new.life = conn[h].life /\ new.local = conn[h].local
                        /\ new.thread = conn[h].thread /\ new.status = conn[h].status
      BY <1>4 DEF ConnType
    <2> HIDE DEF new
    <2>3. QED BY <1>3, <1>5, <1>7, <2>1, <2>2
  <1>11. ASSUME Send(t) PROVE TableInv'
    <2> DEFINE m == [ns |-> conn[h].s, nr |-> conn[h].r]
               new == [conn[h] EXCEPT !.down = IF Len(@) < MaxMsg THEN Append(@, m) ELSE @]
    <2>1. Set(t, new)
      BY <1>11 DEF Send
    <2>2. h \in Conn => /\ new.life = conn[h].life /\ new.local = conn[h].local
                        /\ new.thread = conn[h].thread /\ new.status = conn[h].status
      BY <1>4 DEF ConnType
    <2> HIDE DEF new
    <2>3. QED BY <1>3, <1>5, <1>7, <2>1, <2>2
  <1>12. ASSUME Stop(t) PROVE TableInv'
    <2>1. Set(t, [conn[h] EXCEPT !.status = "DISCONNECTED"]) /\ conn[h].thread = t
      BY <1>12 DEF Stop
    <2>2. h \in Conn => /\ [conn[h] EXCEPT !.status = "DISCONNECTED"].life = conn[h].life
                        /\ [conn[h] EXCEPT !.status = "DISCONNECTED"].local = conn[h].local
      BY <1>4 DEF ConnType
    <2>3. QED BY <1>5, <1>7, <2>1, <2>2
  <1>13. QED BY <1>6, <1>8, <1>9, <1>10, <1>11, <1>12 DEF Run


(***************************************************************************)
(* The client and the peers.                                               *)
(***************************************************************************)
LEMMA TableClient == ASSUME TypeInv, TableInv, Client PROVE TableInv'
  <1>1. ASSUME Connect PROVE TableInv'
    <2>1. /\ UNCHANGED <<handler, conn, pc, slot, out, cur, llcUp, peer>>
          /\ main' = "reset" /\ Early
      BY <1>1 DEF Connect, engine, Early
    <2> DEFINE asked == [ptype |-> "CONNECT", dsap |-> conn[1].remote, ssap |-> Outgoing]
    <2>2. llcDown \in Seq(DownPdu) /\ llcDown' = Append(llcDown, asked) /\ asked.ptype = "CONNECT"
      BY <1>1 DEF Connect, TypeInv, DownOK
    <2> HIDE DEF asked
    <2>3. /\ Len(llcDown') = Len(llcDown) + 1 /\ Len(llcDown) \in Nat
          /\ \A j \in 1..Len(llcDown) : llcDown'[j] = llcDown[j]
          /\ llcDown'[Len(llcDown) + 1] = asked
      BY <2>2
    <2>4. \A j \in 1..Len(llcDown') : j \in 1..Len(llcDown) \/ j = Len(llcDown) + 1
      BY <2>3
    <2>5. DownQuiet'
      <3>1. DownQuiet
        BY <2>1, ClientOwn
      <3>2. QED BY <2>2, <2>3, <2>4, <3>1 DEF DownQuiet
    <2>6. OwnQuiet' /\ UpQuiet' /\ OutQuiet' /\ PeersQuiet' /\ PlaceQuiet'
      BY <2>1, ClientOwn DEF OwnQuiet, UpQuiet, OutQuiet, PeersQuiet, PlaceQuiet
    <2>7. SlotTable' /\ Unsent'
      BY <2>1 DEF TableInv, SlotTable, Unsent
    <2>8. QED BY <2>5, <2>6, <2>7 DEF TableInv, Unheard
  <1>2. ASSUME Reset PROVE TableInv'
    <2>1. /\ handler' = [handler EXCEPT ![Outgoing] = 1]
          /\ conn' = [conn EXCEPT ![1] = [conn[1] EXCEPT !.status = "NEW"]]
          /\ main' = "wait" /\ Early
      BY <1>2 DEF Reset, Early
    <2>2. handler' = handler
      BY <2>1, ClientOwn DEF TypeInv, HandlerOK
    <2> DEFINE new == [conn[1] EXCEPT !.status = "NEW"]
    <2>3. new.life = conn[1].life /\ new.local = conn[1].local
      BY Numbers DEF TypeInv, ConnsOK, ConnType
    <2>4. conn' = [conn EXCEPT ![1] = new]
      BY <2>1
    <2> HIDE DEF new
    <2>5. SlotTable'
      <3>1. SameSeats
        BY <2>3, <2>4, SeatEdit
      <3>2. QED BY <2>2, <3>1, SeatsKept DEF TableInv
    <2>6. QED BY <2>1, <2>5 DEF TableInv, Unsent, Unheard
  <1>3. ASSUME Wait \/ Join PROVE TableInv'
    <2>1. SlotTable'
      BY <1>3 DEF TableInv, SlotTable, Wait, Join
    <2>2. main' \notin {"connect", "reset"}
      BY <1>3 DEF Wait, Join
    <2>3. QED BY <2>1, <2>2 DEF TableInv, Unsent, Unheard
  <1>4. QED BY <1>1, <1>2, <1>3 DEF Client

LEMMA TablePeerSends ==
    ASSUME TypeInv, TableInv, NEW q \in Peer, NEW p, NEW new, PeerSends(q, p, new),
           Early => /\ p.dsap = Outgoing => p.ptype = "CONNECT"
                    /\ new.st \in {"open", "broken", "closing"} => new.at # Outgoing
    PROVE  TableInv'
  <1>1. /\ UNCHANGED <<handler, conn, pc, slot, out, cur, llcDown, main>>
        /\ llcUp \in Seq(UpPdu) /\ llcUp' = Append(llcUp, p)
        /\ peer' = [peer EXCEPT ![q] = new] /\ peer \in [Peer -> PeerType]
    BY DEF PeerSends, engine, TypeInv, UpOK, PeersOK
  <1>2. SlotTable' /\ Unsent'
    BY <1>1 DEF TableInv, SlotTable, Unsent
  <1>3. ASSUME Early PROVE UpQuiet'
    <2>1. /\ Len(llcUp') = Len(llcUp) + 1 /\ Len(llcUp) \in Nat
          /\ \A j \in 1..Len(llcUp) : llcUp'[j] = llcUp[j]
          /\ llcUp'[Len(llcUp) + 1] = p
      BY <1>1
    <2>2. \A j \in 1..Len(llcUp') : j \in 1..Len(llcUp) \/ j = Len(llcUp) + 1
      BY <2>1
    <2>3. UpQuiet
      BY <1>3, ClientOwn
    <2>4. QED BY <1>3, <2>1, <2>2, <2>3 DEF UpQuiet
  <1>4. ASSUME Early PROVE PeersQuiet'
    <2>1. PeersQuiet
      BY <1>4, ClientOwn
    <2>2. QED BY <1>1, <1>4, <2>1 DEF PeersQuiet
  <1>5. ASSUME Early PROVE OwnQuiet' /\ DownQuiet' /\ OutQuiet' /\ PlaceQuiet'
    BY <1>1, <1>5, ClientOwn DEF OwnQuiet, DownQuiet, OutQuiet, PlaceQuiet
  <1>6. QED BY <1>1, <1>2, <1>3, <1>4, <1>5 DEF TableInv, Unheard, Early

LEMMA TablePeerStep ==
    ASSUME TypeInv, TableInv, NEW q \in Peer,
           PeerConnect(q) \/ PeerData(q) \/ PeerAck(q) \/ PeerClose(q) \/ PeerDrop(q)
    PROVE  TableInv'
  <1>1. peer[q] \in PeerType
    BY DEF TypeInv, PeersOK
  <1>2. Early /\ peer[q].st \in {"open", "broken"} => peer[q].at # Outgoing
    BY ClientOwn DEF PeersQuiet
  <1>3. ASSUME PeerConnect(q) PROVE TableInv'
    <2>1. PICK i \in Target : PeerSends(q, [ptype |-> "CONNECT", dsap |-> i, ssap |-> q],
                                         [NoPeer EXCEPT !.st = "connecting"])
      BY <1>3 DEF PeerConnect
    <2>2. [NoPeer EXCEPT !.st = "connecting"].st = "connecting"
      BY AskingType
    <2>3. QED BY <2>1, <2>2, TablePeerSends
  <1>4. ASSUME PeerData(q) PROVE TableInv'
    <2> DEFINE new == [peer[q] EXCEPT !.unacked = TRUE, !.vs = NextNo(@), !.owes = "none"]
               p   == [ptype |-> "I", dsap |-> peer[q].at, ssap |-> q, nr |-> peer[q].vr]
    <2>1. peer[q].st = "open" /\ PeerSends(q, p, new)
      BY <1>4 DEF PeerData
    <2>2. new.at = peer[q].at /\ p.dsap = peer[q].at
      BY <1>1 DEF PeerType
    <2> HIDE DEF new, p
    <2>3. QED BY <1>2, <2>1, <2>2, TablePeerSends
  <1>5. ASSUME PeerClose(q) PROVE TableInv'
    <2> DEFINE new == [peer[q] EXCEPT !.st = "closing", !.owes = "none"]
               p   == [ptype |-> "DISC", dsap |-> peer[q].at, ssap |-> q]
    <2>1. peer[q].st \in {"open", "broken"} /\ PeerSends(q, p, new)
      BY <1>5 DEF PeerClose
    <2>2. new.at = peer[q].at /\ p.dsap = peer[q].at
      BY <1>1 DEF PeerType
    <2> HIDE DEF new, p
    <2>3. QED BY <1>2, <2>1, <2>2, TablePeerSends
  <1>6. ASSUME PeerDrop(q) PROVE TableInv'
    <2>1. peer[q].st = "open" /\ PeerSends(q, Dm(peer[q].at, q), NoPeer)
      BY <1>6 DEF PeerDrop
    <2>2. NoPeer.st = "idle" /\ Dm(peer[q].at, q).dsap = peer[q].at
      BY DEF NoPeer, Dm
    <2>3. QED BY <1>2, <2>1, <2>2, TablePeerSends
  <1>7. ASSUME PeerAck(q) PROVE TableInv'
    <2> DEFINE new == [peer[q] EXCEPT !.owes = "none"]
               p   == [ptype |-> peer[q].owes, dsap |-> peer[q].at, ssap |-> q,
                       nr |-> peer[q].vr]
    <2>1. peer[q].st \in {"open", "broken"} /\ PeerSends(q, p, new)
      BY <1>7 DEF PeerAck
    <2>2. new.at = peer[q].at /\ p.dsap = peer[q].at
      BY <1>1 DEF PeerType
    <2> HIDE DEF new, p
    <2>3. QED BY <1>2, <2>1, <2>2, TablePeerSends
  <1>8. QED BY <1>3, <1>4, <1>5, <1>6, <1>7

\* An answer that is neither CC nor DM leaves a peer where it is.
LEMMA AfterOther ==
    ASSUME NEW q \in Peer, peer[q] \in PeerType, NEW p,
           ~(p.ptype = "CC" /\ peer[q].st = "connecting"), p.ptype # "DM"
    PROVE  /\ After(q, p).at = peer[q].at
           /\ \/ After(q, p).st = peer[q].st
              \/ peer[q].st = "open" /\ After(q, p).st = "broken"
  <1>1. CASE p.ptype \in {"RR", "RNR"} /\ peer[q].st = "open"
    <2>1. After(q, p) = [peer[q] EXCEPT !.unacked = @ /\ p.nr # peer[q].vs,
                                        !.busy = p.ptype = "RNR"]
      BY <1>1 DEF After
    <2>2. QED BY <2>1 DEF PeerType
  <1>2. CASE p.ptype = "I" /\ peer[q].st = "open"
    <2>1. \/ After(q, p) = [peer[q] EXCEPT !.unacked = @ /\ p.nr # peer[q].vs,
                                           !.vr = NextNo(@), !.owes = "RR"]
          \/ After(q, p) = [peer[q] EXCEPT !.st = "broken", !.owes = "FRMR"]
      BY <1>2 DEF After
    <2>2. QED BY <1>2, <2>1 DEF PeerType
  <1>3. CASE ~(p.ptype \in {"RR", "RNR", "I"} /\ peer[q].st = "open")
    <2>1. After(q, p) = peer[q]
      BY <1>3 DEF After
    <2>2. QED BY <2>1
  <1>4. QED BY <1>1, <1>2, <1>3

LEMMA TableRemote ==
    ASSUME TypeInv, TableInv, Remote, "early" \notin May \/ Outgoing = 0
    PROVE  TableInv'
  <1> DEFINE p == Head(llcDown)
  <1>1. /\ UNCHANGED <<handler, conn, pc, slot, out, cur, main>>
        /\ llcDown \in Seq(DownPdu) /\ llcDown # <<>> /\ llcDown' = Tail(llcDown)
    BY DEF Remote, PeerReceive, PeerAnswer, engine, TypeInv, DownOK
  <1>2. /\ Len(llcDown) \in Nat /\ Len(llcDown) >= 1 /\ Len(llcDown') = Len(llcDown) - 1
        /\ \A j \in 1..Len(llcDown') : llcDown'[j] = llcDown[j + 1]
        /\ p = llcDown[1]
    BY <1>1
  <1>3. SlotTable'
    BY <1>1 DEF TableInv, SlotTable
  <1>4. Unsent'
    BY <1>1, <1>2 DEF TableInv, Unsent
  <1>5. ASSUME Early PROVE OwnQuiet' /\ DownQuiet' /\ OutQuiet' /\ PlaceQuiet'
    <2>1. DownQuiet
      BY <1>5, ClientOwn
    <2>2. DownQuiet'
      BY <1>2, <2>1 DEF DownQuiet
    <2>3. QED BY <1>1, <1>5, <2>2, ClientOwn DEF OwnQuiet, OutQuiet, PlaceQuiet
  <1>6. ASSUME Early PROVE UpQuiet' /\ PeersQuiet'
    <2>1. p.ptype # "CONNECT"
      <3>1. CASE main = "connect"
        BY <1>2, <3>1 DEF TableInv, Unsent
      <3>2. CASE main = "reset"
        BY <1>1, <1>6, <3>2, ClientOwn, Numbers DEF Remote, PeerReceive, PeerAnswer, Slot
      <3>3. QED BY <1>6, <3>1, <3>2 DEF Early
    <2>2. UNCHANGED llcUp /\ peer' = [peer EXCEPT ![p.dsap] = After(p.dsap, p)]
      BY <2>1 DEF Remote, PeerReceive, PeerAnswer
    <2>3. UpQuiet'
      BY <1>6, <2>2, ClientOwn DEF UpQuiet
    <2>4. ASSUME NEW q \in Peer, peer'[q].st \in {"open", "broken", "closing"}
          PROVE  peer'[q].at # Outgoing
      <3>1. peer \in [Peer -> PeerType] /\ PeersQuiet
        BY <1>6, ClientOwn DEF TypeInv, PeersOK
      <3>2. CASE q # p.dsap
        BY <2>2, <2>4, <3>1, <3>2 DEF PeersQuiet
      <3>3. CASE q = p.dsap
        <4>1. peer'[q] = After(q, p)
          BY <2>2, <3>1, <3>3
        <4>2. CASE p.ptype = "CC" /\ peer[q].st = "connecting"
          <5>1. After(q, p) = [NoPeer EXCEPT !.st = "open", !.at = p.ssap]
            BY <4>2 DEF After
          <5>2. After(q, p).at = p.ssap
            BY <5>1, NoPeerType DEF PeerType
          <5>3. p.ssap # Outgoing
            BY <1>2, <1>6, <4>2, ClientOwn DEF DownQuiet
          <5>4. QED BY <4>1, <5>2, <5>3
        <4>3. CASE p.ptype = "DM"
          <5>1. After(q, p) = NoPeer
            BY <4>3 DEF After
          <5>2. QED BY <2>4, <4>1, <5>1 DEF NoPeer
        <4>4. CASE ~(p.ptype = "CC" /\ peer[q].st = "connecting") /\ p.ptype # "DM"
          <5>1. /\ After(q, p).at = peer[q].at
                /\ After(q, p).st = peer[q].st \/ peer[q].st = "open"
            BY <3>1, <4>4, AfterOther
          <5>2. QED BY <2>4, <3>1, <4>1, <5>1 DEF PeersQuiet
        <4>5. QED BY <4>2, <4>3, <4>4
      <3>4. QED BY <3>2, <3>3
    <2>5. QED BY <2>3, <2>4 DEF PeersQuiet
  <1>7. QED BY <1>1, <1>3, <1>4, <1>5, <1>6 DEF TableInv, Unheard, Early

LEMMA TableNext ==
    ASSUME TypeInv, TableInv, "early" \notin May \/ Outgoing = 0, [Next]_vars
    PROVE  TableInv'
  <1>1. ASSUME UNCHANGED vars PROVE TableInv'
    BY <1>1 DEF vars, engine, TableInv, SlotTable, Unsent, Unheard, OwnQuiet, UpQuiet, DownQuiet,
       OutQuiet, PeersQuiet, PlaceQuiet
  <1>2. QED BY <1>1, TableDispatch, TableSweep, TableHandOver, TableRun, TableClient, TableRemote,
               TablePeerStep DEF Next, Steps, Engine

(***************************************************************************)
(* Through slot search, rejection, disconnection and reuse of slots and    *)
(* objects, however peers and services behave, transmission_handlers and   *)
(* the allocated connections stay one and the same thing - as long as      *)
(* there is no client, or no answer to its CONNECT is taken before         *)
(* llc_connection_connect has put the connection into the table.           *)
(***************************************************************************)
THEOREM OneTable ==
    ASSUME "early" \notin May \/ Outgoing = 0
    PROVE  Spec => []SlotTable
  <1>1. Init => TypeInv /\ TableInv
    BY TypeInit, TableInit
  <1>2. TypeInv /\ TableInv /\ [Next]_vars => TypeInv' /\ TableInv'
    BY TypeNext, TableNext
  <1>3. TableInv => SlotTable
    BY DEF TableInv
  <1>4. QED BY <1>1, <1>2, <1>3, PTL DEF Spec
-----------------------------------------------------------------------------
(***************************************************************************)
(* A link that only serves, and whose peers neither connect while another  *)
(* one's CONNECT is pending nor answer DM on an open connection.           *)
(***************************************************************************)
Serving == Outgoing = 0 /\ FirstStep = "recv" /\ "drop" \notin May /\ "overlap" \notin May

Live(c)    == conn[c].life = "live"
Home(c, q) == Live(c) /\ conn[c].remote = q
Opening(c) == conn[c].status \in {"NEW", "ACCEPTED", "REJECTED"}
Settled(c) == conn[c].status \in {"CONNECTED", "DISCONNECTED"}
Runs(t, c) == Active(t) /\ On(t) = c
\* The engine between the start of a service thread and the status, and waiting for
\* the end of one.
Marking(c) == pc = "spawned" /\ handler[slot] = c
Slaying(c) == pc = "slayDisc" /\ handler[slot] = c

\* The answers to the CONNECT or the DISC of a peer that are under way.
IsAnswer(p, q) == p.ptype \in {"CC", "DM"} /\ p.dsap = q
Unsaid(q)     == \A j \in 1..Len(llcDown) : ~IsAnswer(llcDown[j], q)
Unanswered(q) == Unsaid(q) /\ ~IsAnswer(out, q)
Silent(q)     == \A j \in 1..Len(llcUp) : llcUp[j].ssap # q
Homeless(q)   == \A c \in Conn : ~Home(c, q)

\* What a peer sends on its connection.
Session == {"DISC", "I", "RR", "FRMR"}

\* A slot holds the connection of a peer; the slot a peer was given does.
Holds(i, q) == \E c \in Conn : handler[i] = c /\ Home(c, q) /\ Settled(c)
Served(q)   == \E i \in Slot : peer[q].at = i /\ Holds(i, q)

(***************************************************************************)
(* An allocated connection is of one peer only; it is opening, and then    *)
(* the engine's `connection` is this one and its peer has had no answer,   *)
(* or a service thread has been started for it.                            *)
(***************************************************************************)
LifeP(c) ==
    Live(c) => /\ conn[c].remote \in Peer
               /\ Opening(c) \/ Settled(c)
               /\ Settled(c) => conn[c].thread # 0
               /\ Opening(c) => cur = c /\ conn[c].up = 0
\* A thread that is still named by a connection is not started for another one.
OwnThreadP(c) == conn[c].thread # 0 => \A d \in Conn : conn[d].thread = conn[c].thread => d = c
HomeP(c, q) ==
    Home(c, q) => /\ peer[q].st # "idle"
                  /\ \A d \in Conn : Home(d, q) => d = c
                  /\ Opening(c) => peer[q].st = "connecting" /\ (Marking(c) \/ Unanswered(q))

(***************************************************************************)
(* A thread runs on a connection that names it, at a place that goes with  *)
(* the status; and the engine waits for those it has cancelled.            *)
(***************************************************************************)
LabelP(t, c) ==
    /\ thr[t].pc = "accept" => conn[c].status = "NEW"
    /\ thr[t].pc = "leave" => conn[c].status \in {"ACCEPTED", "REJECTED"} /\ ~Marking(c)
    /\ thr[t].pc = "recv" => conn[c].status = "CONNECTED" \/ Marking(c)
    /\ thr[t].pc \in {"send", "stop"} => conn[c].status = "CONNECTED"
ThreadP(t) ==
    /\ Active(t) => On(t) \in Conn
    /\ ~Active(t) => ~thr[t].cancelled
    /\ \A c \in Conn : Runs(t, c) =>
          Live(c) /\ conn[c].thread = t /\ LabelP(t, c) /\ (thr[t].cancelled <=> Slaying(c))

(***************************************************************************)
(* Each PDU on its way finds the connection it is about, and whoever waits *)
(* for an answer has one under way at most.                                *)
(***************************************************************************)
UpP(j, q) ==
    llcUp[j].ssap = q =>
        /\ llcUp[j].ptype = "CONNECT" =>
              /\ peer[q].st = "connecting" /\ Homeless(q) /\ Unanswered(q)
              /\ \A k \in 1..Len(llcUp) : llcUp[k].ssap = q => k = j
        /\ llcUp[j].ptype \in Session =>
              peer[q].st \in {"open", "broken", "closing"} /\ llcUp[j].dsap = peer[q].at /\ Served(q)
        /\ llcUp[j].ptype = "DISC" =>
              /\ peer[q].st = "closing" /\ Unanswered(q)
              /\ \A k \in 1..Len(llcUp) : k > j => llcUp[k].ssap # q
UpTyped(j) == llcUp[j].ptype \in Session \cup {"CONNECT"} /\ llcUp[j].ssap \in Peer

DownP(j, q) ==
    IsAnswer(llcDown[j], q) =>
        /\ ~IsAnswer(out, q)
        /\ \A k \in 1..Len(llcDown) : IsAnswer(llcDown[k], q) => k = j
        /\ llcDown[j].ptype = "CC" =>
              peer[q].st = "connecting" /\ \E i \in Slot : llcDown[j].ssap = i /\ Holds(i, q)
        /\ llcDown[j].ptype = "DM" =>
              peer[q].st \in {"connecting", "closing"} /\ Homeless(q) /\ Silent(q)

OutP(q) ==
    IsAnswer(out, q) =>
        /\ out.ptype = "CC" => /\ peer[q].st = "connecting"
                               /\ pc = "spawned" \/ \E i \in Slot : out.ssap = i /\ Holds(i, q)
        /\ out.ptype = "DM" => /\ peer[q].st \in {"connecting", "closing"} /\ Silent(q)
                               /\ pc = "slayDisc" \/ Homeless(q)

PlaceP ==
    /\ pc = "spawned" => \E c \in Conn, q \in Peer :
          /\ handler[slot] = c /\ cur = c /\ Home(c, q) /\ conn[c].status = "ACCEPTED"
          /\ conn[c].thread # 0 /\ Unsaid(q)
          /\ out = [ptype |-> "CC", dsap |-> q, ssap |-> slot]
    /\ pc = "slayDisc" => \E c \in Conn, q \in Peer :
          /\ handler[slot] = c /\ Home(c, q) /\ Settled(c)
          /\ peer[q].st = "closing" /\ Unsaid(q) /\ out = Dm(q, slot)
    /\ pc = "deliver" => \E c \in Conn : handler[slot] = c /\ Settled(c)
    /\ pc # "slayDm"

PeerInv(q) ==
    /\ \A c \in Conn : HomeP(c, q)
    /\ \A j \in 1..Len(llcUp) : UpP(j, q)
    /\ \A j \in 1..Len(llcDown) : DownP(j, q)
    /\ OutP(q)
    /\ peer[q].st \in {"open", "broken"} => Served(q) /\ Unanswered(q)

ConnsInv   == \A c \in Conn : LifeP(c) /\ OwnThreadP(c)
ThreadsInv == \A t \in Thread : ThreadP(t)
UpInv      == \A j \in 1..Len(llcUp) : UpTyped(j)
PeersInv   == \A q \in Peer : PeerInv(q)
AloneInv   == \A q, r \in Peer :
    peer[q].st = "connecting" /\ peer[r].st = "connecting" => q = r

ServeInv ==
    ConnsInv /\ ThreadsInv /\ UpInv /\ PlaceP /\ PeersInv /\ AloneInv /\ fault = "none"
-----------------------------------------------------------------------------
(***************************************************************************)
(* What a step does to the peers it is not about: they stay where they     *)
(* are (or find their connection broken) and keep it, and of the queues    *)
(* they see no more than that the first n messages up and m messages down  *)
(* are gone.                                                               *)
(***************************************************************************)
SameHome(q) ==
    \A c \in Conn : Home(c, q)' => /\ Home(c, q) /\ (Opening(c)' => Opening(c))
                                   /\ Marking(c) => Marking(c)'
SameHolds(q) == \A i \in Slot : Holds(i, q) => Holds(i, q)'
SamePeer(q)  == /\ peer'[q].at = peer[q].at
                /\ \/ peer'[q].st = peer[q].st
                   \/ peer[q].st = "open" /\ peer'[q].st = "broken"
SameOut(q)   == IsAnswer(out', q) =>
    out' = out /\ (pc = "spawned" => pc' = "spawned") /\ (pc = "slayDisc" => pc' = "slayDisc")
UpOnly(q, n) == \A j \in 1..Len(llcUp') :
    /\ j + n <= Len(llcUp) => llcUp'[j] = llcUp[j + n]
    /\ j + n > Len(llcUp) => llcUp'[j].ssap # q
DownOnly(q, m) == \A j \in 1..Len(llcDown') :
    /\ j + m <= Len(llcDown) => llcDown'[j] = llcDown[j + m]
    /\ j + m > Len(llcDown) => ~IsAnswer(llcDown'[j], q)
Elsewhere(q, n, m) ==
    SameHome(q) /\ SameHolds(q) /\ SamePeer(q) /\ SameOut(q) /\ UpOnly(q, n) /\ DownOnly(q, m)

LEMMA Lengths ==
    ASSUME TypeInv
    PROVE  /\ Len(llcUp) \in Nat /\ Len(llcDown) \in Nat
           /\ llcUp \in Seq(UpPdu) /\ llcDown \in Seq(DownPdu)
  BY DEF TypeInv, UpOK, DownOK

LEMMA ElsewhereKept ==
    ASSUME TypeInv, TypeInv', NEW q \in Peer, PeerInv(q),
           NEW n \in {0, 1}, NEW m \in {0, 1}, Elsewhere(q, n, m)
    PROVE  PeerInv(q)' /\ (Silent(q) => Silent(q)') /\ (Unanswered(q) => Unanswered(q)')
  <1>1. /\ Len(llcUp) \in Nat /\ Len(llcDown) \in Nat
        /\ Len(llcUp') \in Nat /\ Len(llcDown') \in Nat
    BY Lengths
  <1>2. ASSUME Silent(q) PROVE Silent(q)'
    <2>1. ASSUME NEW j \in 1..Len(llcUp') PROVE llcUp'[j].ssap # q
      <3>1. j + n <= Len(llcUp) => j + n \in 1..Len(llcUp)
        BY <1>1
      <3>2. j + n <= Len(llcUp) \/ j + n > Len(llcUp)
        BY <1>1
      <3>3. QED BY <1>2, <3>1, <3>2 DEF Silent, Elsewhere, UpOnly
    <2>2. QED BY <2>1 DEF Silent
  <1>3. \A j \in 1..Len(llcDown') : IsAnswer(llcDown'[j], q) =>
            j + m \in 1..Len(llcDown) /\ llcDown'[j] = llcDown[j + m]
    BY <1>1 DEF Elsewhere, DownOnly
  <1>4. Unsaid(q) => Unsaid(q)'
    BY <1>3 DEF Unsaid
  <1>5. ~IsAnswer(out, q) => ~IsAnswer(out', q)
    BY DEF Elsewhere, SameOut
  <1>6. Unanswered(q) => Unanswered(q)'
    BY <1>4, <1>5 DEF Unanswered
  <1>7. Homeless(q) => Homeless(q)'
    BY DEF Homeless, Elsewhere, SameHome
  <1>8. \A i \in Slot : Holds(i, q) => Holds(i, q)'
    BY DEF Elsewhere, SameHolds
  <1>9. SamePeer(q)
    BY DEF Elsewhere
  <1>10. Served(q) => Served(q)'
    BY <1>8, <1>9 DEF Served, SamePeer
  <1>11. ASSUME NEW c \in Conn PROVE HomeP(c, q)'
    <2>1. HomeP(c, q)
      BY DEF PeerInv
    <2>2. SameHome(q)
      BY DEF Elsewhere
    <2>3. QED BY <1>6, <1>9, <2>1, <2>2 DEF HomeP, SameHome, SamePeer
  <1>12. ASSUME NEW j \in 1..Len(llcUp') PROVE UpP(j, q)'
    <2> SUFFICES ASSUME llcUp'[j].ssap = q PROVE UpP(j, q)'
      BY DEF UpP
    <2>1. \A k \in 1..Len(llcUp') : llcUp'[k].ssap = q =>
              k + n \in 1..Len(llcUp) /\ llcUp'[k] = llcUp[k + n]
      <3>1. ASSUME NEW k \in 1..Len(llcUp'), llcUp'[k].ssap = q
            PROVE  k + n \in 1..Len(llcUp) /\ llcUp'[k] = llcUp[k + n]
        <4>1. k + n <= Len(llcUp) \/ k + n > Len(llcUp)
          BY <1>1
        <4>2. k + n <= Len(llcUp) /\ llcUp'[k] = llcUp[k + n]
          BY <3>1, <4>1 DEF Elsewhere, UpOnly
        <4>3. QED BY <1>1, <4>2
      <3>2. QED BY <3>1
    <2>2. UpP(j + n, q)
      BY <2>1 DEF PeerInv
    <2>3. /\ llcUp'[j] = llcUp[j + n] /\ llcUp[j + n].ssap = q
      BY <2>1
    <2>4. llcUp'[j].ptype = "CONNECT" =>
              /\ peer'[q].st = "connecting" /\ Homeless(q)' /\ Unanswered(q)'
              /\ \A k \in 1..Len(llcUp') : llcUp'[k].ssap = q => k = j
      <3>1. \A k \in 1..Len(llcUp') : k + n = j + n => k = j
        OBVIOUS
      <3>2. QED BY <1>6, <1>7, <1>9, <2>1, <2>2, <2>3, <3>1 DEF UpP, SamePeer
    <2>5. llcUp'[j].ptype \in Session =>
              peer'[q].st \in {"open", "broken", "closing"} /\ llcUp'[j].dsap = peer'[q].at /\ Served(q)'
      BY <1>9, <1>10, <2>2, <2>3 DEF UpP, SamePeer
    <2>6. llcUp'[j].ptype = "DISC" =>
              /\ peer'[q].st = "closing" /\ Unanswered(q)'
              /\ \A k \in 1..Len(llcUp') : k > j => llcUp'[k].ssap # q
      <3>1. \A k \in 1..Len(llcUp') : k > j => k + n > j + n
        OBVIOUS
      <3>2. QED BY <1>6, <1>9, <2>1, <2>2, <2>3, <3>1 DEF UpP, SamePeer
    <2>7. QED BY <2>4, <2>5, <2>6 DEF UpP
  <1>13. ASSUME NEW j \in 1..Len(llcDown') PROVE DownP(j, q)'
    <2> SUFFICES ASSUME IsAnswer(llcDown'[j], q) PROVE DownP(j, q)'
      BY DEF DownP
    <2>1. DownP(j + m, q) /\ llcDown'[j] = llcDown[j + m] /\ IsAnswer(llcDown[j + m], q)
      BY <1>3 DEF PeerInv
    <2>2. ~IsAnswer(out', q)
      BY <1>5, <2>1 DEF DownP
    <2>3. \A k \in 1..Len(llcDown') : IsAnswer(llcDown'[k], q) => k = j
      <3>1. \A k \in 1..Len(llcDown') : k + m = j + m => k = j
        OBVIOUS
      <3>2. QED BY <1>3, <2>1, <3>1 DEF DownP
    <2>4. llcDown'[j].ptype = "CC" =>
              peer'[q].st = "connecting" /\ \E i \in Slot : llcDown'[j].ssap = i /\ Holds(i, q)'
      BY <1>8, <1>9, <2>1 DEF DownP, SamePeer
    <2>5. llcDown'[j].ptype = "DM" =>
              peer'[q].st \in {"connecting", "closing"} /\ Homeless(q)' /\ Silent(q)'
      BY <1>2, <1>7, <1>9, <2>1 DEF DownP, SamePeer
    <2>6. QED BY <2>2, <2>3, <2>4, <2>5 DEF DownP
  <1>14. OutP(q)'
    <2>1. OutP(q) /\ SameOut(q)
      BY DEF PeerInv, Elsewhere
    <2>2. QED BY <1>2, <1>7, <1>8, <1>9, <2>1 DEF OutP, SameOut, SamePeer
  <1>15. peer'[q].st \in {"open", "broken"} => Served(q)' /\ Unanswered(q)'
    BY <1>6, <1>9, <1>10 DEF PeerInv, SamePeer
  <1>16. QED BY <1>2, <1>6, <1>11, <1>12, <1>13, <1>14, <1>15 DEF PeerInv

(***************************************************************************)
(* The queues: one message taken, or none.                                 *)
(***************************************************************************)
LEMMA QueueStill ==
    ASSUME TypeInv, NEW q
    PROVE  /\ llcUp' = llcUp => UpOnly(q, 0) /\ (UpInv => UpInv')
           /\ llcDown' = llcDown => DownOnly(q, 0)
  <1>1. Len(llcUp) \in Nat /\ Len(llcDown) \in Nat
    BY Lengths
  <1>2. llcUp' = llcUp => UpInv' = UpInv
    BY DEF UpInv, UpTyped
  <1>3. QED BY <1>1, <1>2 DEF UpOnly, DownOnly

LEMMA TakeUp ==
    ASSUME TypeInv, UpInv, NEW type, Take(type)
    PROVE  /\ 1 \in 1..Len(llcUp) /\ Pdu = llcUp[1] /\ Pdu.ptype = type
           /\ Pdu.ssap \in Peer /\ Pdu.dsap \in Slot
           /\ UpInv' /\ \A q : UpOnly(q, 1) /\ DownOnly(q, 0)
           /\ pc = "recv" /\ UNCHANGED <<llcDown, main, peer, fault>>
  <1>1. /\ llcUp \in Seq(UpPdu) /\ llcUp # <<>> /\ llcUp' = Tail(llcUp)
        /\ Pdu = llcUp[1] /\ Pdu.ptype = type
        /\ pc = "recv" /\ UNCHANGED <<llcDown, main, peer, fault>>
    BY DEF Take, Pdu, TypeInv, UpOK
  <1>2. /\ Len(llcUp) \in Nat /\ Len(llcUp) >= 1 /\ Len(llcUp') = Len(llcUp) - 1
        /\ \A j \in 1..Len(llcUp') : llcUp'[j] = llcUp[j + 1]
        /\ 1 \in 1..Len(llcUp) /\ llcUp[1] \in UpPdu
    BY <1>1
  <1>3. Pdu.ssap \in Peer /\ Pdu.dsap \in Slot
    BY <1>1, <1>2 DEF UpInv, UpTyped, UpPdu
  <1>4. UpInv'
    BY <1>2 DEF UpInv, UpTyped
  <1>5. \A q : UpOnly(q, 1)
    BY <1>2 DEF UpOnly
  <1>6. \A q : DownOnly(q, 0)
    BY <1>1, QueueStill
  <1>7. QED BY <1>1, <1>2, <1>3, <1>4, <1>5, <1>6

(***************************************************************************)
(* Steps that leave what matters of every connection.                      *)
(***************************************************************************)
SameShape == \A c \in Conn :
    /\ conn'[c].life = conn[c].life /\ conn'[c].remote = conn[c].remote
    /\ (Opening(c)' <=> Opening(c)) /\ (Settled(c)' <=> Settled(c))

LEMMA ShapeKept ==
    ASSUME TypeInv, SameShape, UNCHANGED handler
    PROVE  /\ \A c \in Conn : \A q : Home(c, q)' <=> Home(c, q)
           /\ \A c \in Conn : Live(c)' <=> Live(c)
           /\ \A q : SameHolds(q)
           /\ (\A c \in Conn : Marking(c) => Marking(c)') => \A q : SameHome(q)
  <1>1. \A c \in Conn : \A q : Home(c, q)' <=> Home(c, q)
    BY DEF SameShape, Home, Live
  <1>2. \A c \in Conn : Live(c)' <=> Live(c)
    BY DEF SameShape, Live
  <1>3. \A q : SameHolds(q)
    BY <1>1 DEF SameShape, SameHolds, Holds
  <1>4. ASSUME \A c \in Conn : Marking(c) => Marking(c)' PROVE \A q : SameHome(q)
    BY <1>1, <1>4 DEF SameShape, SameHome
  <1>5. QED BY <1>1, <1>2, <1>3, <1>4

\* The arrows of StatusDiagram that a step takes.
Arrowed == \A c \in Conn : Phase(c)' # Phase(c) => <<Phase(c), Phase(c)'>> \in Arrows

LEMMA ArrowEdit ==
    ASSUME NEW c \in Conn, \A d \in Conn : d # c => conn'[d] = conn[d],
           \/ conn'[c].life = conn[c].life /\ conn'[c].status = conn[c].status
           \/ conn[c].life = "freed" /\ conn'[c].life = "live" /\ conn'[c].status \in {"NEW", "ACCEPTED"}
           \/ /\ conn[c].life = "live" /\ conn'[c].life = "freed"
              /\ conn[c].status \in {"CONNECTED", "DISCONNECTED", "REJECTED"}
           \/ /\ conn[c].life = "live" /\ conn'[c].life = "live"
              /\ \/ conn[c].status = "NEW" /\ conn'[c].status \in {"ACCEPTED", "REJECTED"}
                 \/ conn[c].status = "ACCEPTED" /\ conn'[c].status = "CONNECTED"
                 \/ conn[c].status = "CONNECTED" /\ conn'[c].status = "DISCONNECTED"
    PROVE  Arrowed
  <1>1. \A d \in Conn : d # c => Phase(d)' = Phase(d)
    BY DEF Phase
  <1>2. Phase(c)' # Phase(c) => <<Phase(c), Phase(c)'>> \in Arrows
    BY DEF Phase, Arrows
  <1>3. QED BY <1>1, <1>2 DEF Arrowed

\* The engine goes on without a word to a peer that waits for an answer.
CalmConns == \A c \in Conn :
    /\ conn'[c].life = conn[c].life /\ conn'[c].remote = conn[c].remote
    /\ conn'[c].status = conn[c].status /\ conn'[c].thread = conn[c].thread
    /\ Opening(c) => conn'[c].up = conn[c].up

LEMMA CalmArrows == ASSUME CalmConns PROVE Arrowed
  BY DEF CalmConns, Arrowed, Phase

LEMMA CalmStep ==
    ASSUME TypeInv, TypeInv', ServeInv, CalmConns,
           UNCHANGED <<handler, thr, llcDown, peer, cur, fault>>,
           llcUp' = llcUp \/ \E type : Take(type),
           out' = out \/ \A q \in Peer : ~IsAnswer(out', q),
           pc \notin {"spawned", "slayDisc"}, pc' \notin {"spawned", "slayDisc", "slayDm"},
           pc' = "deliver" => \E c \in Conn : handler[slot'] = c /\ Settled(c)
    PROVE  ServeInv' /\ Arrowed
  <1>1. SameShape
    BY DEF CalmConns, SameShape, Opening, Settled
  <1>2. \A c \in Conn : Marking(c) => Marking(c)'
    BY DEF Marking
  <1>3. /\ \A c \in Conn : \A q : Home(c, q)' <=> Home(c, q)
        /\ \A c \in Conn : Live(c)' <=> Live(c)
        /\ \A q : SameHolds(q) /\ SameHome(q)
    BY <1>1, <1>2, ShapeKept
  <1>4. UpInv' /\ \E n \in {0, 1} : \A q : UpOnly(q, n)
    <2>1. UpInv
      BY DEF ServeInv
    <2>2. CASE llcUp' = llcUp
      BY <2>1, <2>2, QueueStill
    <2>3. CASE \E type : Take(type)
      BY <2>1, <2>3, TakeUp
    <2>4. QED BY <2>2, <2>3
  <1>5. PICK n \in {0, 1} : \A q : UpOnly(q, n)
    BY <1>4
  <1>6. PeersInv'
    <2>1. ASSUME NEW q \in Peer PROVE PeerInv(q)'
      <3>1. SamePeer(q) /\ SameOut(q) /\ DownOnly(q, 0)
        BY QueueStill DEF SamePeer, SameOut
      <3>2. Elsewhere(q, n, 0)
        BY <1>3, <1>5, <3>1 DEF Elsewhere
      <3>3. PeerInv(q)
        BY DEF ServeInv, PeersInv
      <3>4. QED BY <3>2, <3>3, ElsewhereKept
    <2>2. QED BY <2>1 DEF PeersInv
  <1>7. ConnsInv'
    <2>1. ConnsInv
      BY DEF ServeInv
    <2>2. ASSUME NEW c \in Conn PROVE LifeP(c)'
      BY <1>1, <1>3, <2>1 DEF ConnsInv, LifeP, CalmConns, SameShape
    <2>3. ASSUME NEW c \in Conn PROVE OwnThreadP(c)'
      BY <2>1 DEF ConnsInv, OwnThreadP, CalmConns
    <2>4. QED BY <2>2, <2>3 DEF ConnsInv
  <1>8. ThreadsInv'
    <2>1. ThreadsInv
      BY DEF ServeInv
    <2>2. ASSUME NEW t \in Thread, NEW c \in Conn, Runs(t, c)'
          PROVE  /\ Live(c)' /\ conn'[c].thread = t /\ LabelP(t, c)'
                 /\ (thr'[t].cancelled <=> Slaying(c)')
      <3>1. Runs(t, c)
        BY <2>2 DEF Runs, Active, On
      <3>2. Live(c) /\ conn[c].thread = t /\ LabelP(t, c) /\ (thr[t].cancelled <=> Slaying(c))
        BY <2>1, <3>1 DEF ThreadsInv, ThreadP
      <3>3. ~Slaying(c) /\ ~Slaying(c)' /\ ~Marking(c) /\ ~Marking(c)'
        BY DEF Slaying, Marking
      <3>4. LabelP(t, c)'
        BY <3>2, <3>3 DEF LabelP, CalmConns
      <3>5. QED BY <1>3, <3>2, <3>3, <3>4 DEF CalmConns
    <2>3. ASSUME NEW t \in Thread
          PROVE  /\ Active(t)' => On(t)' \in Conn
                 /\ ~Active(t)' => ~thr'[t].cancelled
      BY <2>1 DEF ThreadsInv, ThreadP, Active, On
    <2>4. QED BY <2>2, <2>3 DEF ThreadsInv, ThreadP
  <1>9. PlaceP'
    BY <1>1 DEF PlaceP, SameShape
  <1>10. AloneInv' /\ fault' = "none"
    BY DEF ServeInv, AloneInv
  <1>11. Arrowed
    BY CalmArrows
  <1>12. QED BY <1>11, <1>4, <1>6, <1>7, <1>8, <1>9, <1>10 DEF ServeInv

LEMMA CalmEdit ==
    ASSUME TypeInv, NEW c, NEW new, conn' = [conn EXCEPT ![c] = new],
           c \in Conn => /\ new.life = conn[c].life /\ new.remote = conn[c].remote
                         /\ new.status = conn[c].status /\ new.thread = conn[c].thread
                         /\ Opening(c) => new.up = conn[c].up
    PROVE  CalmConns
  <1>1. \A d \in Conn : conn'[d] = IF d = c THEN new ELSE conn[d]
    BY DEF TypeInv, ConnsOK
  <1>2. QED BY <1>1 DEF CalmConns

LEMMA CalmStill == ASSUME UNCHANGED conn PROVE CalmConns
  BY DEF CalmConns

\* A PDU from a peer that is connected: the slot holds its connection.
LEMMA ServedPdu ==
    ASSUME TypeInv, ServeInv, NEW type \in Session, Take(type)
    PROVE  /\ \E c \in Conn : handler[Pdu.dsap] = c /\ Home(c, Pdu.ssap) /\ Settled(c)
           /\ UpP(1, Pdu.ssap) /\ PeerInv(Pdu.ssap)
           /\ peer[Pdu.ssap].st \in {"open", "broken", "closing"}
  <1>1. UpInv
    BY DEF ServeInv
  <1>2. /\ 1 \in 1..Len(llcUp) /\ Pdu = llcUp[1] /\ Pdu.ptype = type
        /\ Pdu.ssap \in Peer /\ Pdu.dsap \in Slot
    BY <1>1, TakeUp
  <1>3. PeerInv(Pdu.ssap)
    BY <1>2 DEF ServeInv, PeersInv
  <1>4. UpP(1, Pdu.ssap)
    BY <1>2, <1>3 DEF PeerInv
  <1>5. /\ peer[Pdu.ssap].st \in {"open", "broken", "closing"}
        /\ Pdu.dsap = peer[Pdu.ssap].at /\ Served(Pdu.ssap)
    BY <1>2, <1>4 DEF UpP
  <1>6. QED BY <1>3, <1>4, <1>5 DEF Served, Holds

LEMMA CalmDispatch ==
    ASSUME TypeInv, TypeInv', ServeInv, Symmetry \/ ReceiveI \/ ReceiveRr \/ ReceiveFrmr \/ Deliver
    PROVE  ServeInv' /\ Arrowed
  <1>1. ASSUME Symmetry PROVE ServeInv' /\ Arrowed
    <2>1. CalmConns
      BY <1>1, CalmStill DEF Symmetry
    <2>2. /\ UNCHANGED <<handler, thr, llcUp, llcDown, peer, cur, fault>>
          /\ pc = "recv" /\ pc' = "sweep" /\ out' = None
      BY <1>1 DEF Symmetry, ToSweep
    <2>3. \A q \in Peer : ~IsAnswer(out', q)
      BY <2>2 DEF IsAnswer, None
    <2>4. QED BY <2>1, <2>2, <2>3, CalmStep
  <1>2. ASSUME ReceiveI PROVE ServeInv' /\ Arrowed
    <2> DEFINE h == handler[Pdu.dsap]
               owing == [conn[h] EXCEPT !.owed = TRUE, !.r = NextNo(@), !.sa = Pdu.nr]
    <2>1. /\ Take("I") /\ UNCHANGED <<handler, thr, llcDown, peer, cur, fault, out>>
          /\ pc = "recv" /\ pc' = "deliver" /\ slot' = Pdu.dsap
      BY <1>2 DEF ReceiveI, Take
    <2>2. h \in Conn /\ Settled(h)
      BY <2>1, ServedPdu DEF Session
    <2>3. conn[h] \in ConnType
      BY <2>2 DEF TypeInv, ConnsOK
    <2>4. conn' = [conn EXCEPT ![h] = owing]
      BY <1>2, <2>3 DEF ReceiveI, TypeInv, ConnsOK
    <2>5. /\ owing.life = conn[h].life /\ owing.remote = conn[h].remote
          /\ owing.thread = conn[h].thread /\ owing.status = conn[h].status
          /\ owing.up = conn[h].up
      BY <2>3 DEF ConnType
    <2> HIDE DEF owing
    <2>6. CalmConns
      BY <2>4, <2>5, CalmEdit
    <2>7. QED BY <2>1, <2>2, <2>6, CalmStep
  <1>3. ASSUME Deliver PROVE ServeInv' /\ Arrowed
    <2> DEFINE h == handler[slot]
               fuller == [conn[h] EXCEPT !.up = @ + 1]
    <2>1. /\ UNCHANGED <<handler, thr, llcUp, llcDown, peer, cur, fault>>
          /\ pc = "deliver" /\ pc' = "sweep" /\ out' = None
      BY <1>3 DEF Deliver, ToSweep
    <2>2. h \in Conn /\ Settled(h)
      BY <2>1 DEF ServeInv, PlaceP
    <2>3. conn' = [conn EXCEPT ![h] = fuller] /\ conn[h] \in ConnType
      BY <1>3, <2>2 DEF Deliver, TypeInv, ConnsOK
    <2>4. /\ fuller.life = conn[h].life /\ fuller.remote = conn[h].remote
          /\ fuller.thread = conn[h].thread /\ fuller.status = conn[h].status
      BY <2>3 DEF ConnType
    <2>5. ~Opening(h)
      BY <2>2 DEF Opening, Settled
    <2> HIDE DEF fuller, h
    <2>6. CalmConns
      BY <2>3, <2>4, <2>5, CalmEdit
    <2>7. \A q \in Peer : ~IsAnswer(out', q)
      BY <2>1 DEF IsAnswer, None
    <2>8. QED BY <2>1, <2>6, <2>7, CalmStep
  <1>4. ASSUME ReceiveRr PROVE ServeInv' /\ Arrowed
    <2> DEFINE h == handler[Pdu.dsap]
               acked == [conn[h] EXCEPT !.sa = Pdu.nr]
    <2>1. /\ Take("RR") /\ UNCHANGED <<handler, thr, llcDown, peer, cur, fault>>
          /\ pc = "recv" /\ pc' = "sweep" /\ out' = None
      BY <1>4 DEF ReceiveRr, Take, ToSweep
    <2>2. h \in Conn
      BY <2>1, ServedPdu DEF Session
    <2>3. conn[h] \in ConnType
      BY <2>2 DEF TypeInv, ConnsOK
    <2>4. conn' = [conn EXCEPT ![h] = acked]
      BY <1>4, <2>3 DEF ReceiveRr, TypeInv, ConnsOK
    <2>5. /\ acked.life = conn[h].life /\ acked.remote = conn[h].remote
          /\ acked.thread = conn[h].thread /\ acked.status = conn[h].status
          /\ acked.up = conn[h].up
      BY <2>3 DEF ConnType
    <2> HIDE DEF acked
    <2>6. CalmConns
      BY <2>4, <2>5, CalmEdit
    <2>7. \A q \in Peer : ~IsAnswer(out', q)
      BY <2>1 DEF IsAnswer, None
    <2>8. QED BY <2>1, <2>6, <2>7, CalmStep
  <1>5. ASSUME ReceiveFrmr PROVE ServeInv' /\ Arrowed
    <2>1. /\ Take("FRMR") /\ UNCHANGED <<handler, conn, thr, llcDown, peer, cur, fault>>
          /\ pc = "recv" /\ pc' = "sweep" /\ out' = None
      BY <1>5 DEF ReceiveFrmr, Take, ToSweep
    <2>2. CalmConns
      BY <2>1, CalmStill
    <2>3. \A q \in Peer : ~IsAnswer(out', q)
      BY <2>1 DEF IsAnswer, None
    <2>4. QED BY <2>1, <2>2, <2>3, CalmStep
  <1>6. QED BY <1>1, <1>2, <1>3, <1>4, <1>5

LEMMA CalmSweep ==
    ASSUME TypeInv, TypeInv', ServeInv, UNCHANGED <<llcUp, llcDown, peer, fault>>,
           \/ VisitEmpty \/ VisitData \/ VisitPostpone \/ Requeue
           \/ VisitRunning \/ VisitWaiting
    PROVE  ServeInv' /\ Arrowed
  <1>1. UNCHANGED <<handler, thr, cur>> /\ pc \in {"sweep", "postpone"}
    BY DEF VisitEmpty, VisitData, VisitPostpone, Requeue, VisitRunning, VisitWaiting, Unqueue,
           Visiting
  <1>2. pc' \in {"sweep", "recv", "transmit", "postpone"}
    BY DEF VisitEmpty, VisitData, VisitPostpone, Requeue, VisitRunning, VisitWaiting, Advance
  <1>3. slot \in Slot /\ (Visited # 0 => Visited \in Conn /\ conn[Visited] \in ConnType)
    BY HandlerType DEF TypeInv, EngineOK, Visited
  <1>4. CalmConns
    <2>1. CASE VisitEmpty \/ VisitWaiting
      BY <2>1, CalmStill DEF VisitEmpty, VisitWaiting
    <2>2. CASE VisitData \/ VisitPostpone \/ Requeue
      <3>1. ConnsOK
        BY DEF TypeInv
      <3>2. QED BY <2>2, <3>1, NumbersEdit, CalmEdit
    <2>3. CASE VisitRunning
      <3> DEFINE c == Visited
                 new == [conn[c] EXCEPT !.owed = FALSE]
      <3>1. conn' = [conn EXCEPT ![c] = new] /\ c \in Conn /\ conn[c] \in ConnType
        BY <1>3, <2>3 DEF VisitRunning, Quiet, TypeInv, ConnsOK
      <3>2. /\ new.life = conn[c].life /\ new.remote = conn[c].remote /\ new.up = conn[c].up
            /\ new.thread = conn[c].thread /\ new.status = conn[c].status
        BY <3>1 DEF ConnType
      <3> HIDE DEF new, c
      <3>3. QED BY <3>1, <3>2, CalmEdit
    <2>4. QED BY <2>1, <2>2, <2>3
  <1>5. out' = out \/ \A q \in Peer : ~IsAnswer(out', q)
    BY DEF VisitEmpty, VisitData, VisitPostpone, Requeue, VisitRunning, VisitWaiting, Unqueue,
           Advance, IsAnswer, None, Acknowledgement
  <1>6. QED BY <1>1, <1>2, <1>4, <1>5, CalmStep

(***************************************************************************)
(* A step of the thread of a connection.                                   *)
(***************************************************************************)
LEMMA ThreadStands ==
    ASSUME TypeInv, ServeInv, NEW t \in Thread, Active(t)
    PROVE  /\ On(t) \in Conn /\ conn[On(t)] \in ConnType /\ Live(On(t))
           /\ conn[On(t)].thread = t /\ LabelP(t, On(t))
           /\ thr[t].cancelled <=> Slaying(On(t))
           /\ \A u \in Thread, c \in Conn : Runs(u, c) /\ u # t => c # On(t)
           /\ LifeP(On(t))
           /\ Marking(On(t)) => conn[On(t)].status = "ACCEPTED" /\ conn[On(t)].thread # 0
  <1>1. ThreadP(t) /\ \A u \in Thread, c \in Conn : Runs(u, c) => conn[c].thread = u
    BY DEF ServeInv, ThreadsInv, ThreadP
  <1>2. On(t) \in Conn
    BY <1>1 DEF ThreadP
  <1>3. Runs(t, On(t))
    BY DEF Runs
  <1>4. conn[On(t)] \in ConnType
    BY <1>2 DEF TypeInv, ConnsOK
  <1>5. LifeP(On(t))
    BY <1>2 DEF ServeInv, ConnsInv
  <1>6. Marking(On(t)) => conn[On(t)].status = "ACCEPTED" /\ conn[On(t)].thread # 0
    BY DEF ServeInv, PlaceP, Marking
  <1>7. QED BY <1>1, <1>2, <1>3, <1>4, <1>5, <1>6 DEF ThreadP

LEMMA ThreadStep ==
    ASSUME TypeInv, TypeInv', ServeInv, NEW t \in Thread, Active(t),
           UNCHANGED <<handler, engine, llcUp, llcDown, peer, fault>>,
           NEW new, conn' = [conn EXCEPT ![On(t)] = new],
           NEW w, thr' = [thr EXCEPT ![t] = w],
           new.life = "live", new.remote = conn[On(t)].remote,
           new.status = conn[On(t)].status
              \/ (~Marking(On(t)) /\ conn[On(t)].status = "NEW" /\ new.status \in {"ACCEPTED", "REJECTED"})
              \/ (conn[On(t)].status = "CONNECTED" /\ new.status = "DISCONNECTED"),
           Opening(On(t)) => new.up = conn[On(t)].up,
           new.thread = conn[On(t)].thread
              \/ (new.thread = 0 /\ Opening(On(t)) /\ ~Marking(On(t)) /\ w.pc = "exited"),
           \/ w.pc = "exited" /\ ~w.cancelled
           \/ /\ w.conn = On(t) /\ w.cancelled = thr[t].cancelled
              /\ \/ w.pc = "leave" /\ new.status \in {"ACCEPTED", "REJECTED"} /\ ~Marking(On(t))
                 \/ w.pc \in {"recv", "send", "stop"} /\ new.status = "CONNECTED"
    PROVE  ServeInv' /\ Arrowed
  <1>0a. PICK c \in Conn : c = On(t)
    BY ThreadStands
  <1>1. /\ c \in Conn /\ conn[c] \in ConnType /\ Live(c)
        /\ conn[c].thread = t /\ LabelP(t, c)
        /\ thr[t].cancelled <=> Slaying(c)
        /\ \A u \in Thread, d \in Conn : Runs(u, d) /\ u # t => d # c
        /\ LifeP(c) /\ (Marking(c) => conn[c].status = "ACCEPTED" /\ conn[c].thread # 0)
    BY <1>0a, ThreadStands
  <1>2. /\ conn'[c] = new /\ \A d \in Conn : d # c => conn'[d] = conn[d]
        /\ thr'[t] = w /\ \A u \in Thread : u # t => thr'[u] = thr[u]
    BY <1>1, <1>0a DEF TypeInv, ConnsOK, ThreadsOK
  <1>0. UNCHANGED <<handler, pc, slot, cur, out, llcUp, llcDown, peer>>
    BY DEF engine
  <1>3. SameShape
    <2>1. ASSUME NEW d \in Conn
          PROVE  /\ conn'[d].life = conn[d].life /\ conn'[d].remote = conn[d].remote
                 /\ (Opening(d)' <=> Opening(d)) /\ (Settled(d)' <=> Settled(d))
      <3>1. CASE d = c
        BY <1>1, <1>2, <1>0a, <3>1 DEF Opening, Settled, Live
      <3>2. CASE d # c
        BY <1>2, <2>1, <3>2 DEF Opening, Settled
      <3>3. QED BY <3>1, <3>2
    <2>2. QED BY <2>1 DEF SameShape
  <1>4. \A d \in Conn : (Marking(d)' <=> Marking(d)) /\ (Slaying(d)' <=> Slaying(d))
    BY <1>0 DEF Marking, Slaying
  <1>5. /\ \A d \in Conn : \A q : Home(d, q)' <=> Home(d, q)
        /\ \A d \in Conn : Live(d)' <=> Live(d)
        /\ \A q : SameHolds(q) /\ SameHome(q)
    BY <1>3, <1>4, ShapeKept
  <1>6. PeersInv'
    <2>1. ASSUME NEW q \in Peer PROVE PeerInv(q)'
      <3>1. SamePeer(q) /\ SameOut(q) /\ DownOnly(q, 0) /\ UpOnly(q, 0)
        BY QueueStill DEF SamePeer, SameOut, engine
      <3>2. Elsewhere(q, 0, 0)
        BY <1>5, <3>1 DEF Elsewhere
      <3>3. PeerInv(q)
        BY DEF ServeInv, PeersInv
      <3>4. QED BY <3>2, <3>3, ElsewhereKept
    <2>2. QED BY <2>1 DEF PeersInv
  <1>7. ConnsInv'
    <2>1. ConnsInv
      BY DEF ServeInv
    <2>2. ASSUME NEW d \in Conn PROVE LifeP(d)'
      <3>1. LifeP(d) /\ cur' = cur
        BY <2>1 DEF ConnsInv, engine
      <3>2. CASE d = c
        BY <1>1, <1>2, <1>0a, <1>3, <1>5, <3>1, <3>2 DEF LifeP, SameShape, Opening, Settled
      <3>3. CASE d # c
        BY <1>2, <1>3, <1>5, <2>2, <3>1, <3>3 DEF LifeP, SameShape
      <3>4. QED BY <3>2, <3>3
    <2>3. ASSUME NEW d \in Conn PROVE OwnThreadP(d)'
      <3>1. \A e \in Conn : conn'[e].thread = conn[e].thread \/ conn'[e].thread = 0
        BY <1>2, <1>0a
      <3>2. QED BY <2>1, <2>3, <3>1 DEF ConnsInv, OwnThreadP
    <2>4. QED BY <2>2, <2>3 DEF ConnsInv
  <1>8. ThreadsInv'
    <2>1. ThreadsInv
      BY DEF ServeInv
    <2>2. ASSUME NEW u \in Thread, u # t PROVE ThreadP(u)'
      <3>1. thr'[u] = thr[u] /\ ThreadP(u)
        BY <1>2, <2>1, <2>2 DEF ThreadsInv
      <3>2. ASSUME NEW d \in Conn, Runs(u, d)'
            PROVE  /\ Live(d)' /\ conn'[d].thread = u /\ LabelP(u, d)'
                   /\ (thr'[u].cancelled <=> Slaying(d)')
        <4>1. Runs(u, d)
          BY <3>1, <3>2 DEF Runs, Active, On
        <4>2. d # c
          BY <1>1, <2>2, <4>1
        <4>3. /\ Live(d) /\ conn[d].thread = u /\ LabelP(u, d)
              /\ (thr[u].cancelled <=> Slaying(d))
          BY <3>1, <4>1 DEF ThreadP
        <4>4. conn'[d] = conn[d]
          BY <1>2, <4>2
        <4>5. LabelP(u, d)'
          BY <1>4, <3>1, <4>3, <4>4 DEF LabelP
        <4>6. QED BY <1>4, <1>5, <3>1, <4>3, <4>4, <4>5
      <3>3. /\ Active(u)' => On(u)' \in Conn
            /\ ~Active(u)' => ~thr'[u].cancelled
        BY <3>1 DEF ThreadP, Active, On
      <3>4. QED BY <3>2, <3>3 DEF ThreadP
    <2>3. ThreadP(t)'
      <3>1. CASE w.pc = "exited" /\ ~w.cancelled
        BY <1>2, <3>1 DEF ThreadP, Active, Runs
      <3>2. CASE /\ w.conn = On(t) /\ w.cancelled = thr[t].cancelled
                 /\ \/ w.pc = "leave" /\ new.status \in {"ACCEPTED", "REJECTED"} /\ ~Marking(On(t))
                    \/ w.pc \in {"recv", "send", "stop"} /\ new.status = "CONNECTED"
        <4>1. On(t)' = c /\ Active(t)' /\ new.thread = t
          BY <1>1, <1>2, <1>0a, <3>2 DEF On, Active
        <4>2. thr'[t].pc = w.pc /\ conn'[c].status = new.status /\ (Marking(c)' <=> Marking(c))
          BY <1>1, <1>2, <1>4
        <4>3. w.pc = "leave" => ~Marking(c)
          BY <1>0a, <3>2
        <4>4. LabelP(t, c)'
          BY <3>2, <4>2, <4>3 DEF LabelP
        <4>5. thr'[t].cancelled = thr[t].cancelled /\ (Slaying(c)' <=> Slaying(c))
          BY <1>1, <1>2, <1>4, <3>2
        <4>6. thr'[t].cancelled <=> Slaying(c)'
          BY <1>1, <4>5
        <4>7. Live(c)' /\ conn'[c].thread = t
          BY <1>1, <1>2, <1>5, <4>1
        <4>8. QED BY <1>1, <4>1, <4>4, <4>6, <4>7 DEF ThreadP, Runs
      <3>3. QED BY <3>1, <3>2
    <2>4. QED BY <2>2, <2>3 DEF ThreadsInv
  <1>9. PlaceP'
    <2>1. PlaceP /\ UNCHANGED <<handler, pc, slot, cur, out, llcDown, peer>>
      BY DEF ServeInv, engine
    <2>2. \A d \in Conn : Marking(d) =>
              conn'[d].status = conn[d].status /\ conn'[d].thread = conn[d].thread
      BY <1>1, <1>2, <1>0a DEF Opening, Settled
    <2>3. \A q : Unsaid(q)' <=> Unsaid(q)
      BY <2>1 DEF Unsaid
    <2>4. pc = "spawned" => \E d \in Conn, q \in Peer :
          /\ handler[slot] = d /\ cur = d /\ Home(d, q)' /\ conn'[d].status = "ACCEPTED"
          /\ conn'[d].thread # 0 /\ Unsaid(q)'
          /\ out = [ptype |-> "CC", dsap |-> q, ssap |-> slot]
      BY <1>5, <2>1, <2>2, <2>3 DEF PlaceP, Marking
    <2>5. QED BY <1>3, <1>5, <2>1, <2>3, <2>4 DEF PlaceP, SameShape
  <1>10. AloneInv' /\ fault' = "none" /\ UpInv'
    BY QueueStill DEF ServeInv, AloneInv
  <1>11. Arrowed
    BY <1>1, <1>2, <1>0a, ArrowEdit DEF Live
  <1>12. QED BY <1>11, <1>6, <1>7, <1>8, <1>9, <1>10 DEF ServeInv

LEMMA GotoThread ==
    ASSUME TypeInv, NEW t \in Thread, NEW label, Goto(t, label)
    PROVE  \E w : /\ thr' = [thr EXCEPT ![t] = w] /\ w.pc = label
                  /\ label = "exited" => ~w.cancelled
                  /\ label # "exited" => w.conn = On(t) /\ w.cancelled = thr[t].cancelled
  <1>1. thr[t] \in ThreadType /\ thr \in [Thread -> ThreadType]
    BY DEF TypeInv, ThreadsOK
  <1>2. CASE label = "exited"
    <2>1. NoThread.pc = "exited" /\ ~NoThread.cancelled
      BY DEF NoThread
    <2>2. thr' = [thr EXCEPT ![t] = NoThread]
      BY <1>2 DEF Goto
    <2>3. QED BY <1>2, <2>1, <2>2
  <1>3. CASE label # "exited"
    <2> DEFINE w == [thr[t] EXCEPT !.pc = label]
    <2>1. thr' = [thr EXCEPT ![t] = w]
      BY <1>1, <1>3 DEF Goto
    <2>2. w.pc = label /\ w.conn = On(t) /\ w.cancelled = thr[t].cancelled
      BY <1>1 DEF ThreadType, On
    <2> HIDE DEF w
    <2>3. QED BY <1>3, <2>1, <2>2
  <1>4. QED BY <1>2, <1>3

LEMMA ServeRun ==
    ASSUME TypeInv, TypeInv', ServeInv, NEW t \in Thread, Run(t)
    PROVE  ServeInv' /\ Arrowed
  <1>1. Active(t)
    BY DEF Run, Decide, Leave, Recv, Send, Stop, Misplaced, Cancelled, At, Active
  <1>2. /\ On(t) \in Conn /\ conn[On(t)] \in ConnType /\ Live(On(t))
        /\ conn[On(t)].thread = t /\ LabelP(t, On(t))
        /\ LifeP(On(t)) /\ (Marking(On(t)) => conn[On(t)].status = "ACCEPTED")
    BY <1>1, ThreadStands
  <1>3. \A new : Set(t, new) => conn' = [conn EXCEPT ![On(t)] = new] /\ UNCHANGED fault
    BY DEF Set
  <1>4. \A label : At(t, label) =>
            thr[t].pc = label /\ UNCHANGED <<handler, engine, llcUp, llcDown, peer>>
    BY DEF At
  <1>5. ASSUME Decide(t) PROVE ServeInv' /\ Arrowed
    <2>1. PICK status \in {"ACCEPTED", "REJECTED"} :
              Set(t, [conn[On(t)] EXCEPT !.status = status])
      BY <1>5 DEF Decide
    <2> DEFINE new == [conn[On(t)] EXCEPT !.status = status]
    <2>2. /\ new.life = "live" /\ new.remote = conn[On(t)].remote /\ new.status = status
          /\ new.up = conn[On(t)].up /\ new.thread = conn[On(t)].thread
      BY <1>2 DEF ConnType, Live
    <2>3. conn' = [conn EXCEPT ![On(t)] = new] /\ UNCHANGED fault
      BY <1>3, <2>1
    <2>4. At(t, "accept") /\ Goto(t, "leave")
      BY <1>5 DEF Decide
    <2> HIDE DEF new
    <2>5. PICK w : /\ thr' = [thr EXCEPT ![t] = w] /\ w.pc = "leave"
                   /\ w.conn = On(t) /\ w.cancelled = thr[t].cancelled
      BY <2>4, GotoThread
    <2>6. conn[On(t)].status = "NEW"
      BY <1>2, <1>4, <2>4 DEF LabelP
    <2>7. Opening(On(t)) /\ ~Marking(On(t))
      BY <1>2, <2>6 DEF Opening
    <2>8. QED BY <1>1, <1>4, <2>2, <2>3, <2>4, <2>5, <2>6, <2>7, ThreadStep
  <1>6. ASSUME Leave(t) PROVE ServeInv' /\ Arrowed
    <2> DEFINE new == [conn[On(t)] EXCEPT !.thread = 0]
    <2>1. /\ new.life = "live" /\ new.remote = conn[On(t)].remote
          /\ new.status = conn[On(t)].status
          /\ new.up = conn[On(t)].up /\ new.thread = 0
      BY <1>2 DEF ConnType, Live
    <2>2. conn' = [conn EXCEPT ![On(t)] = new] /\ UNCHANGED fault
      BY <1>3, <1>6 DEF Leave
    <2>3. At(t, "leave") /\ Goto(t, "exited")
      BY <1>6 DEF Leave
    <2> HIDE DEF new
    <2>4. PICK w : /\ thr' = [thr EXCEPT ![t] = w] /\ w.pc = "exited" /\ ~w.cancelled
      BY <2>3, GotoThread
    <2>5. Opening(On(t)) /\ ~Marking(On(t))
      BY <1>2, <1>4, <2>3 DEF LabelP, Opening
    <2>6. QED BY <1>1, <1>4, <2>1, <2>2, <2>3, <2>4, <2>5, ThreadStep
  <1>7. ASSUME Recv(t) PROVE ServeInv' /\ Arrowed
    <2> DEFINE new == [conn[On(t)] EXCEPT !.up = @ - 1]
    <2>1. /\ new.life = "live" /\ new.remote = conn[On(t)].remote
          /\ new.status = conn[On(t)].status /\ new.thread = conn[On(t)].thread
      BY <1>2 DEF ConnType, Live
    <2>2. conn' = [conn EXCEPT ![On(t)] = new] /\ UNCHANGED fault
      BY <1>3, <1>7 DEF Recv
    <2>3. At(t, "recv") /\ conn[On(t)].up > 0
      BY <1>7 DEF Recv
    <2>4. PICK next \in {"recv", "send", "stop"} : Goto(t, next)
      BY <1>7 DEF Recv, Replying, Leaving
    <2> HIDE DEF new
    <2>5. PICK w : /\ thr' = [thr EXCEPT ![t] = w] /\ w.pc = next
                   /\ w.conn = On(t) /\ w.cancelled = thr[t].cancelled
      BY <2>4, GotoThread
    <2>6. ~Opening(On(t))
      BY <1>2, <2>3 DEF LifeP
    <2>7. conn[On(t)].status = "CONNECTED"
      BY <1>2, <1>4, <2>3, <2>6 DEF LabelP, Opening
    <2>8. QED BY <1>1, <1>4, <2>1, <2>2, <2>3, <2>4, <2>5, <2>6, <2>7, ThreadStep
  <1>8. ASSUME Send(t) PROVE ServeInv' /\ Arrowed
    <2> DEFINE m == [ns |-> conn[On(t)].s, nr |-> conn[On(t)].r]
               more == IF Len(conn[On(t)].down) < MaxMsg
                       THEN Append(conn[On(t)].down, m) ELSE conn[On(t)].down
               new == [conn[On(t)] EXCEPT !.down = more]
    <2>1. /\ new.life = "live" /\ new.remote = conn[On(t)].remote /\ new.up = conn[On(t)].up
          /\ new.status = conn[On(t)].status /\ new.thread = conn[On(t)].thread
      <3> HIDE DEF more
      <3>1. QED BY <1>2 DEF ConnType, Live
    <2>2. conn' = [conn EXCEPT ![On(t)] = new] /\ UNCHANGED fault
      BY <1>2, <1>3, <1>8 DEF Send, ConnType
    <2>3. At(t, "send") /\ conn[On(t)].status = "CONNECTED"
      BY <1>8 DEF Send
    <2>4. PICK next \in {"recv", "stop"} : Goto(t, next)
      BY <1>8 DEF Send, Leaving
    <2> HIDE DEF new, more, m
    <2>5. PICK w : /\ thr' = [thr EXCEPT ![t] = w] /\ w.pc = next
                   /\ w.conn = On(t) /\ w.cancelled = thr[t].cancelled
      BY <2>4, GotoThread
    <2>6. QED BY <1>1, <1>4, <2>1, <2>2, <2>3, <2>4, <2>5, ThreadStep
  <1>9. ASSUME Stop(t) PROVE ServeInv' /\ Arrowed
    <2> DEFINE new == [conn[On(t)] EXCEPT !.status = "DISCONNECTED"]
    <2>1. /\ new.life = "live" /\ new.remote = conn[On(t)].remote /\ new.up = conn[On(t)].up
          /\ new.status = "DISCONNECTED" /\ new.thread = conn[On(t)].thread
      BY <1>2 DEF ConnType, Live
    <2>2. conn' = [conn EXCEPT ![On(t)] = new] /\ UNCHANGED fault
      BY <1>3, <1>9 DEF Stop
    <2>3. At(t, "stop") /\ Goto(t, "exited")
      BY <1>9 DEF Stop
    <2> HIDE DEF new
    <2>4. PICK w : /\ thr' = [thr EXCEPT ![t] = w] /\ w.pc = "exited" /\ ~w.cancelled
      BY <2>3, GotoThread
    <2>5. conn[On(t)].status = "CONNECTED"
      BY <1>2, <1>4, <2>3 DEF LabelP
    <2>6. QED BY <1>1, <1>4, <2>1, <2>2, <2>3, <2>4, <2>5, ThreadStep
  <1>10. ~Misplaced(t)
    BY <1>2 DEF Misplaced, LabelP
  <1>11. ASSUME Cancelled(t) PROVE ServeInv' /\ Arrowed
    <2>1. At(t, thr[t].pc) /\ Goto(t, "exited") /\ UNCHANGED <<conn, fault>>
      BY <1>11 DEF Cancelled
    <2>2. PICK w : /\ thr' = [thr EXCEPT ![t] = w] /\ w.pc = "exited" /\ ~w.cancelled
      BY <2>1, GotoThread
    <2>3. conn' = [conn EXCEPT ![On(t)] = conn[On(t)]]
      BY <1>2, <2>1 DEF TypeInv, ConnsOK
    <2>4. conn[On(t)].life = "live"
      BY <1>2 DEF Live
    <2>5. QED BY <1>1, <1>4, <2>1, <2>2, <2>3, <2>4, ThreadStep
  <1>12. QED BY <1>5, <1>6, <1>7, <1>8, <1>9, <1>10, <1>11 DEF Run

(***************************************************************************)
(* A step about one peer.                                                  *)
(***************************************************************************)
LEMMA PeersExcept ==
    ASSUME TypeInv, TypeInv', ServeInv, NEW q0 \in Peer, PeerInv(q0)',
           NEW n \in {0, 1}, NEW m \in {0, 1},
           \A q \in Peer : q # q0 => Elsewhere(q, n, m)
    PROVE  PeersInv'
  <1>1. ASSUME NEW q \in Peer PROVE PeerInv(q)'
    <2>1. CASE q # q0
      <3>1. PeerInv(q)
        BY DEF ServeInv, PeersInv
      <3>2. QED BY <2>1, <3>1, ElsewhereKept
    <2>2. QED BY <2>1
  <1>2. QED BY <1>1 DEF PeersInv

\* A peer with no message in either queue.
LEMMA QuietPeer ==
    ASSUME NEW q \in Peer, Silent(q)', Unsaid(q)', OutP(q)', \A c \in Conn : HomeP(c, q)',
           peer'[q].st \notin {"open", "broken"}
    PROVE  PeerInv(q)'
  <1>1. ASSUME NEW j \in 1..Len(llcUp') PROVE UpP(j, q)'
    BY DEF UpP, Silent
  <1>2. ASSUME NEW j \in 1..Len(llcDown') PROVE DownP(j, q)'
    BY DEF DownP, Unsaid
  <1>3. QED BY <1>1, <1>2 DEF PeerInv

LEMMA OpeningPeer ==
    ASSUME ServeInv, NEW c \in Conn, Live(c), Opening(c)
    PROVE  \E q \in Peer :
              /\ Home(c, q) /\ peer[q].st = "connecting" /\ Silent(q)
              /\ Marking(c) \/ Unanswered(q)
              /\ \A d \in Conn : Home(d, q) => d = c
  <1>1. PICK q \in Peer : conn[c].remote = q
    BY DEF ServeInv, ConnsInv, LifeP
  <1>2. Home(c, q)
    BY <1>1 DEF Home
  <1>3. PeerInv(q)
    BY DEF ServeInv, PeersInv
  <1>4. /\ peer[q].st = "connecting" /\ (Marking(c) \/ Unanswered(q))
        /\ \A d \in Conn : Home(d, q) => d = c
    BY <1>2, <1>3 DEF PeerInv, HomeP
  <1>5. ASSUME NEW j \in 1..Len(llcUp) PROVE llcUp[j].ssap # q
    <2>1. UpP(j, q) /\ UpTyped(j)
      BY <1>3 DEF PeerInv, ServeInv, UpInv
    <2>2. ~Homeless(q)
      BY <1>2 DEF Homeless
    <2>3. QED BY <1>4, <2>1, <2>2 DEF UpP, UpTyped
  <1>6. QED BY <1>2, <1>4, <1>5 DEF Silent

\* While a peer without a connection connects, no other connection is opening.
LEMMA NoneOpening ==
    ASSUME ServeInv, NEW q \in Peer, peer[q].st = "connecting", Homeless(q),
           NEW c \in Conn, Live(c)
    PROVE  ~Opening(c)
  <1> SUFFICES ASSUME Opening(c) PROVE FALSE
    OBVIOUS
  <1>1. PICK r \in Peer : Home(c, r) /\ peer[r].st = "connecting"
    BY OpeningPeer
  <1>2. r = q
    BY <1>1 DEF ServeInv, AloneInv
  <1>3. QED BY <1>1, <1>2 DEF Homeless

\* A CONNECT is the only PDU of its peer, who has no connection and no answer yet.
LEMMA ConnectPdu ==
    ASSUME TypeInv, ServeInv, Take("CONNECT")
    PROVE  \E q \in Peer :
              /\ Pdu.ssap = q /\ peer[q].st = "connecting" /\ Homeless(q)
              /\ Unanswered(q) /\ Unsaid(q)' /\ Silent(q)'
              /\ \A c \in Conn : Live(c) => ~Opening(c)
  <1>1. UpInv
    BY DEF ServeInv
  <1>2. /\ 1 \in 1..Len(llcUp) /\ Pdu = llcUp[1] /\ Pdu.ptype = "CONNECT" /\ Pdu.ssap \in Peer
        /\ llcDown' = llcDown /\ \A q : UpOnly(q, 1)
    BY <1>1, TakeUp
  <1>3. PICK q \in Peer : Pdu.ssap = q
    BY <1>2
  <1>4. UpP(1, q)
    BY <1>2, <1>3 DEF ServeInv, PeersInv, PeerInv
  <1>5. /\ peer[q].st = "connecting" /\ Homeless(q) /\ Unanswered(q)
        /\ \A k \in 1..Len(llcUp) : llcUp[k].ssap = q => k = 1
    BY <1>2, <1>3, <1>4 DEF UpP
  <1>6. Unsaid(q)'
    BY <1>2, <1>5 DEF Unanswered, Unsaid
  <1>7. Silent(q)'
    <2>1. Len(llcUp) \in Nat /\ llcUp' = Tail(llcUp) /\ llcUp # <<>> /\ llcUp \in Seq(UpPdu)
      BY Lengths DEF Take
    <2>2. \A j \in 1..Len(llcUp') : j + 1 \in 1..Len(llcUp) /\ llcUp'[j] = llcUp[j + 1] /\ j + 1 # 1
      BY <2>1
    <2>3. QED BY <1>5, <2>2 DEF Silent
  <1>8. \A c \in Conn : Live(c) => ~Opening(c)
    BY <1>5, NoneOpening
  <1>9. QED BY <1>3, <1>5, <1>6, <1>7, <1>8

LEMMA ServeRefuse ==
    ASSUME TypeInv, TypeInv', ServeInv, ConnectUnbound \/ ConnectNoSlot
    PROVE  ServeInv'
  <1>1. /\ Take("CONNECT") /\ UNCHANGED <<handler, conn, thr, slot>>
        /\ pc' = "reply" /\ out' = Dm(Pdu.ssap, Pdu.dsap)
    BY DEF ConnectUnbound, ConnectNoSlot, Reply
  <1>2. PICK q0 \in Peer :
              /\ Pdu.ssap = q0 /\ peer[q0].st = "connecting" /\ Homeless(q0)
              /\ Unanswered(q0) /\ Unsaid(q0)' /\ Silent(q0)'
              /\ \A c \in Conn : Live(c) => ~Opening(c)
    BY <1>1, ConnectPdu
  <1>3. /\ UpInv' /\ \A q : UpOnly(q, 1) /\ DownOnly(q, 0)
        /\ pc = "recv" /\ UNCHANGED <<llcDown, main, peer, fault>>
    BY <1>1, TakeUp DEF ServeInv
  <1>4. /\ \A c \in Conn : \A q : Home(c, q)' <=> Home(c, q)
        /\ \A c \in Conn : /\ Live(c)' <=> Live(c)
                           /\ Opening(c)' <=> Opening(c)
                           /\ Settled(c)' <=> Settled(c)
                           /\ ~Marking(c) /\ ~Marking(c)' /\ ~Slaying(c) /\ ~Slaying(c)'
        /\ \A q : SameHolds(q) /\ SameHome(q)
    BY <1>1, <1>3 DEF Home, Live, Opening, Settled, Marking, Slaying, SameHolds, Holds, SameHome
  <1>5. out'.ptype = "DM" /\ out'.dsap = q0
    BY <1>1, <1>2 DEF Dm
  <1>6. PeerInv(q0)'
    <2>1. Homeless(q0)'
      BY <1>2, <1>4 DEF Homeless
    <2>2. \A c \in Conn : HomeP(c, q0)'
      BY <2>1 DEF HomeP, Homeless
    <2>3. OutP(q0)'
      BY <1>1, <1>2, <1>3, <1>5, <2>1 DEF OutP, IsAnswer
    <2>4. QED BY <1>2, <1>3, <2>2, <2>3, QuietPeer
  <1>7. \A q \in Peer : q # q0 => Elsewhere(q, 1, 0)
    BY <1>3, <1>4, <1>5 DEF Elsewhere, SamePeer, SameOut, IsAnswer
  <1>8. PeersInv'
    BY <1>6, <1>7, PeersExcept
  <1>9. ConnsInv'
    <2>1. ASSUME NEW c \in Conn PROVE LifeP(c)'
      <3>1. LifeP(c)
        BY DEF ServeInv, ConnsInv
      <3>2. QED BY <1>1, <1>2, <1>4, <3>1 DEF LifeP
    <2>2. ASSUME NEW c \in Conn PROVE OwnThreadP(c)'
      BY <1>1 DEF ServeInv, ConnsInv, OwnThreadP
    <2>3. QED BY <2>1, <2>2 DEF ConnsInv
  <1>10. ThreadsInv'
    <2>1. \A t \in Thread, c \in Conn : LabelP(t, c) => LabelP(t, c)'
      BY <1>1, <1>4 DEF LabelP
    <2>2. \A t \in Thread, c \in Conn : Runs(t, c)' <=> Runs(t, c)
      BY <1>1 DEF Runs, Active, On
    <2>3. ASSUME NEW t \in Thread PROVE ThreadP(t)'
      <3>1. ThreadP(t)
        BY DEF ServeInv, ThreadsInv
      <3>2. QED BY <1>1, <1>4, <2>1, <2>2, <3>1 DEF ThreadP, Active, On
    <2>4. QED BY <2>3 DEF ThreadsInv
  <1>11. PlaceP'
    BY <1>1 DEF PlaceP
  <1>12. AloneInv' /\ fault' = "none"
    BY <1>3 DEF ServeInv, AloneInv
  <1>13. QED BY <1>3, <1>8, <1>9, <1>10, <1>11, <1>12 DEF ServeInv

LEMMA ServeSpawn ==
    ASSUME TypeInv, TypeInv', ServeInv, ConnectSpawn
    PROVE  ServeInv' /\ Arrowed
  <1>1. /\ Take("CONNECT") /\ pc' = "sweep" /\ out' = None
    BY DEF ConnectSpawn, ToSweep
  <1>2. PICK q0 \in Peer :
              /\ Pdu.ssap = q0 /\ peer[q0].st = "connecting" /\ Homeless(q0)
              /\ Unanswered(q0) /\ Unsaid(q0)' /\ Silent(q0)'
              /\ \A d \in Conn : Live(d) => ~Opening(d)
    BY <1>1, ConnectPdu
  <1>3. /\ UpInv' /\ \A q : UpOnly(q, 1) /\ DownOnly(q, 0) /\ Pdu.dsap \in Slot
        /\ pc = "recv" /\ UNCHANGED <<llcDown, main, peer, fault>>
    BY <1>1, TakeUp DEF ServeInv
  <1>4. PICK i \in FirstFree(Pdu.dsap), c \in FreshConn, t \in FreshThread :
            /\ handler' = [handler EXCEPT ![i] = c]
            /\ cur' = c
            /\ IF Pdu.dsap \in Accepting
               THEN /\ conn' = [conn EXCEPT ![c] = [NewConn(i, Pdu.dsap, Pdu.ssap) EXCEPT !.thread = t]]
                    /\ thr' = [thr EXCEPT ![t] = Started(c, "accept")]
               ELSE /\ conn' = [conn EXCEPT ![c] = [NewConn(i, Pdu.dsap, Pdu.ssap) EXCEPT !.status = "ACCEPTED"]]
                    /\ UNCHANGED thr
    BY DEF ConnectSpawn
  <1>5. /\ i \in Slot /\ handler[i] = 0 /\ c \in Conn /\ conn[c].life = "freed" /\ c # 0
        /\ t \in Thread /\ thr[t].pc = "exited" /\ \A d \in Conn : conn[d].thread # t
    BY <1>3, Numbers DEF FirstFree, FreeSlots, FreshConn, FreshThread, Least, Slot, Conn
  <1>6. PICK new : /\ conn' = [conn EXCEPT ![c] = new]
                   /\ new.life = "live" /\ new.remote = q0 /\ new.up = 0
                   /\ \/ new.status = "NEW" /\ new.thread = t /\ thr' = [thr EXCEPT ![t] = Started(c, "accept")]
                      \/ new.status = "ACCEPTED" /\ new.thread = 0 /\ thr' = thr
    <2>1. CASE Pdu.dsap \in Accepting
      <3> DEFINE n == [NewConn(i, Pdu.dsap, Pdu.ssap) EXCEPT !.thread = t]
      <3>1. n.life = "live" /\ n.remote = q0 /\ n.up = 0 /\ n.status = "NEW" /\ n.thread = t
        BY <1>2 DEF NewConn
      <3>2. conn' = [conn EXCEPT ![c] = n] /\ thr' = [thr EXCEPT ![t] = Started(c, "accept")]
        BY <1>4, <2>1
      <3> HIDE DEF n
      <3>3. QED BY <3>1, <3>2
    <2>2. CASE Pdu.dsap \notin Accepting
      <3> DEFINE n == [NewConn(i, Pdu.dsap, Pdu.ssap) EXCEPT !.status = "ACCEPTED"]
      <3>1. n.life = "live" /\ n.remote = q0 /\ n.up = 0 /\ n.status = "ACCEPTED" /\ n.thread = 0
        BY <1>2 DEF NewConn
      <3>2. conn' = [conn EXCEPT ![c] = n] /\ thr' = thr
        BY <1>4, <2>2
      <3> HIDE DEF n
      <3>3. QED BY <3>1, <3>2
    <2>3. QED BY <2>1, <2>2
  <1>7. /\ conn'[c] = new /\ \A d \in Conn : d # c => conn'[d] = conn[d]
        /\ handler'[i] = c /\ \A j \in Slot : j # i => handler'[j] = handler[j]
        /\ \A u \in Thread : u # t => thr'[u] = thr[u]
        /\ thr'[t] = thr[t] \/ (new.thread = t /\ new.status = "NEW" /\ thr'[t] = Started(c, "accept"))
    BY <1>4, <1>5, <1>6 DEF TypeInv, ConnsOK, HandlerOK, ThreadsOK
  <1>8. /\ Home(c, q0)' /\ Live(c)' /\ ~Live(c) /\ \A q : q # q0 => ~Home(c, q)'
        /\ \A d \in Conn : d # c => /\ Live(d)' <=> Live(d)
                                    /\ \A q : Home(d, q)' <=> Home(d, q)
                                    /\ Opening(d)' <=> Opening(d)
                                    /\ Settled(d)' <=> Settled(d)
        /\ Opening(c)' /\ ~Settled(c)'
    BY <1>5, <1>6, <1>7 DEF Home, Live, Opening, Settled
  <1>9. \A d \in Conn : ~Marking(d) /\ ~Marking(d)' /\ ~Slaying(d) /\ ~Slaying(d)'
    BY <1>1, <1>3 DEF Marking, Slaying
  <1>10. PeerInv(q0)'
    <2>1. \A d \in Conn : Home(d, q0)' => d = c
      BY <1>2, <1>8 DEF Homeless
    <2>2. ~IsAnswer(out', q0)
      BY <1>1 DEF IsAnswer, None
    <2>3. Unanswered(q0)' /\ OutP(q0)'
      BY <1>2, <2>2 DEF Unanswered, OutP
    <2>4. \A d \in Conn : HomeP(d, q0)'
      BY <1>2, <1>3, <2>1, <2>3 DEF HomeP
    <2>5. QED BY <1>2, <1>3, <2>3, <2>4, QuietPeer
  <1>11. ASSUME NEW q \in Peer, q # q0 PROVE Elsewhere(q, 1, 0)
    <2>1. SameHome(q)
      BY <1>8, <1>9, <1>11 DEF SameHome
    <2>2. SameHolds(q)
      <3>1. ASSUME NEW j \in Slot, Holds(j, q) PROVE Holds(j, q)'
        <4>1. PICK d \in Conn : handler[j] = d /\ Home(d, q) /\ Settled(d)
          BY <3>1 DEF Holds
        <4>2. d # c /\ j # i
          BY <1>5, <1>8, <4>1, Numbers DEF Home, Conn
        <4>3. handler'[j] = d /\ Home(d, q)' /\ Settled(d)'
          BY <1>7, <1>8, <4>1, <4>2
        <4>4. QED BY <4>3 DEF Holds
      <3>2. QED BY <3>1 DEF SameHolds
    <2>3. SamePeer(q) /\ SameOut(q)
      BY <1>1, <1>3 DEF SamePeer, SameOut, IsAnswer, None
    <2>4. QED BY <1>3, <2>1, <2>2, <2>3 DEF Elsewhere
  <1>12. PeersInv'
    BY <1>10, <1>11, PeersExcept
  <1>13. ConnsInv'
    <2>1. ASSUME NEW d \in Conn PROVE LifeP(d)'
      <3>1. CASE d = c
        BY <1>4, <1>6, <1>7, <1>8, <3>1 DEF LifeP
      <3>2. CASE d # c
        <4>1. LifeP(d) /\ (Live(d) => ~Opening(d))
          BY <1>2 DEF ServeInv, ConnsInv
        <4>2. QED BY <1>7, <1>8, <2>1, <3>2, <4>1 DEF LifeP
      <3>3. QED BY <3>1, <3>2
    <2>2. ASSUME NEW d \in Conn PROVE OwnThreadP(d)'
      <3>1. \A e \in Conn : OwnThreadP(e)
        BY DEF ServeInv, ConnsInv
      <3>2. \A e \in Conn : e # c => conn'[e].thread = conn[e].thread /\ conn'[e].thread # t
        BY <1>5, <1>7
      <3>3. conn'[c].thread \in {0, t}
        BY <1>6, <1>7
      <3>4. QED BY <2>2, <3>1, <3>2, <3>3 DEF OwnThreadP
    <2>3. QED BY <2>1, <2>2 DEF ConnsInv
  <1>14. ThreadsInv'
    <2>1. ASSUME NEW u \in Thread, thr'[u] = thr[u] PROVE ThreadP(u)'
      <3>1. ThreadP(u)
        BY DEF ServeInv, ThreadsInv
      <3>2. ASSUME NEW d \in Conn, Runs(u, d)'
            PROVE  Live(d)' /\ conn'[d].thread = u /\ LabelP(u, d)' /\ (thr'[u].cancelled <=> Slaying(d)')
        <4>1. Runs(u, d)
          BY <2>1, <3>2 DEF Runs, Active, On
        <4>2. Live(d) /\ conn[d].thread = u /\ LabelP(u, d) /\ (thr[u].cancelled <=> Slaying(d))
          BY <3>1, <4>1 DEF ThreadP
        <4>3. d # c /\ conn'[d] = conn[d]
          BY <1>7, <1>8, <4>2
        <4>4. LabelP(u, d)'
          BY <1>9, <2>1, <4>2, <4>3 DEF LabelP
        <4>5. QED BY <1>8, <1>9, <2>1, <4>2, <4>3, <4>4
      <3>3. /\ Active(u)' => On(u)' \in Conn
            /\ ~Active(u)' => ~thr'[u].cancelled
        BY <2>1, <3>1 DEF ThreadP, Active, On
      <3>4. QED BY <3>2, <3>3 DEF ThreadP
    <2>2. ASSUME thr'[t] # thr[t] PROVE ThreadP(t)'
      <3>1. conn'[c].thread = t /\ conn'[c].status = "NEW" /\ thr'[t] = Started(c, "accept")
        BY <1>7, <2>2
      <3>2. thr'[t].pc = "accept" /\ thr'[t].conn = c /\ ~thr'[t].cancelled
        BY <3>1 DEF Started
      <3>3. LabelP(t, c)'
        BY <3>1, <3>2 DEF LabelP
      <3>4. Active(t)' /\ On(t)' = c
        BY <3>2 DEF Active, On
      <3>5. QED BY <1>5, <1>8, <1>9, <3>1, <3>2, <3>3, <3>4 DEF ThreadP, Runs
    <2>3. QED BY <1>7, <2>1, <2>2 DEF ThreadsInv
  <1>15. PlaceP'
    BY <1>1 DEF PlaceP
  <1>16. AloneInv' /\ fault' = "none"
    BY <1>3 DEF ServeInv, AloneInv
  <1>17. Arrowed
    BY <1>5, <1>6, <1>7, ArrowEdit
  <1>18. QED BY <1>17, <1>3, <1>12, <1>13, <1>14, <1>15, <1>16 DEF ServeInv

(***************************************************************************)
(* DISC: the last PDU of its peer.  The engine waits for the thread of the *)
(* connection, and nobody else's.                                          *)
(***************************************************************************)
LEMMA DiscPdu ==
    ASSUME TypeInv, ServeInv, Take("DISC")
    PROVE  \E q \in Peer, c \in Conn :
              /\ Pdu.ssap = q /\ handler[Pdu.dsap] = c /\ Home(c, q) /\ Settled(c)
              /\ peer[q].st = "closing" /\ Unsaid(q)' /\ Silent(q)' /\ conn[c].thread \in Thread
  <1>1. UpInv
    BY DEF ServeInv
  <1>2. /\ 1 \in 1..Len(llcUp) /\ Pdu = llcUp[1] /\ Pdu.ptype = "DISC" /\ Pdu.ssap \in Peer
        /\ llcDown' = llcDown
    BY <1>1, TakeUp
  <1>3. PICK q \in Peer : Pdu.ssap = q
    BY <1>2
  <1>4. PICK c \in Conn : handler[Pdu.dsap] = c /\ Home(c, q) /\ Settled(c)
    BY <1>3, ServedPdu DEF Session
  <1>5. UpP(1, q)
    BY <1>3, ServedPdu DEF Session
  <1>6. /\ peer[q].st = "closing" /\ Unanswered(q)
        /\ \A k \in 1..Len(llcUp) : k > 1 => llcUp[k].ssap # q
    BY <1>2, <1>3, <1>5 DEF UpP
  <1>7. Unsaid(q)'
    BY <1>2, <1>6 DEF Unanswered, Unsaid
  <1>8. Silent(q)'
    <2>1. Len(llcUp) \in Nat /\ llcUp' = Tail(llcUp) /\ llcUp # <<>> /\ llcUp \in Seq(UpPdu)
      BY Lengths DEF Take
    <2>2. \A j \in 1..Len(llcUp') : j + 1 \in 1..Len(llcUp) /\ llcUp'[j] = llcUp[j + 1] /\ j + 1 > 1
      BY <2>1
    <2>3. QED BY <1>6, <2>2 DEF Silent
  <1>9. conn[c].thread \in Thread
    <2>1. conn[c].thread # 0
      BY <1>4 DEF ServeInv, ConnsInv, LifeP, Home
    <2>2. conn[c] \in ConnType
      BY DEF TypeInv, ConnsOK
    <2>3. QED BY <2>1, <2>2 DEF ConnType
  <1>10. QED BY <1>3, <1>4, <1>6, <1>7, <1>8, <1>9

LEMMA ServeDisc ==
    ASSUME TypeInv, TypeInv', ServeInv, ReceiveDisc
    PROVE  ServeInv'
  <1>1. /\ Take("DISC") /\ CancelHandler /\ UNCHANGED <<handler, conn, cur>>
        /\ pc' = "slayDisc" /\ out' = Dm(Pdu.ssap, Pdu.dsap) /\ slot' = Pdu.dsap
    BY DEF ReceiveDisc, CancelHandler
  <1>2. PICK q0 \in Peer, c \in Conn :
              /\ Pdu.ssap = q0 /\ handler[Pdu.dsap] = c /\ Home(c, q0) /\ Settled(c)
              /\ peer[q0].st = "closing" /\ Unsaid(q0)' /\ Silent(q0)' /\ conn[c].thread \in Thread
    BY <1>1, DiscPdu
  <1>3. /\ UpInv' /\ \A q : UpOnly(q, 1) /\ DownOnly(q, 0)
        /\ pc = "recv" /\ UNCHANGED <<llcDown, main, peer, fault>>
    BY <1>1, TakeUp DEF ServeInv
  <1>4. PICK t \in Thread : t = conn[c].thread
    BY <1>2
  <1>5. thr' = [thr EXCEPT ![t].cancelled = thr[t].pc # "exited"]
    BY <1>1, <1>2, <1>4 DEF CancelHandler
  <1>6. /\ thr'[t].pc = thr[t].pc /\ thr'[t].conn = thr[t].conn
        /\ thr'[t].cancelled <=> Active(t)
        /\ \A u \in Thread : u # t => thr'[u] = thr[u]
    <2>1. thr[t] \in ThreadType /\ thr \in [Thread -> ThreadType]
      BY DEF TypeInv, ThreadsOK
    <2>2. QED BY <1>5, <2>1 DEF ThreadType, Active
  <1>7. \A d \in Conn : /\ ~Marking(d) /\ ~Marking(d)' /\ ~Slaying(d)
                        /\ Slaying(d)' <=> d = c
    BY <1>1, <1>2, <1>3 DEF Marking, Slaying
  <1>8. /\ \A d \in Conn : \A q : Home(d, q)' <=> Home(d, q)
        /\ \A d \in Conn : /\ Live(d)' <=> Live(d)
                           /\ Opening(d)' <=> Opening(d)
                           /\ Settled(d)' <=> Settled(d)
        /\ \A q : SameHolds(q)
    BY <1>1 DEF Home, Live, Opening, Settled, SameHolds, Holds
  <1>9. \A q : SameHome(q)
    BY <1>7, <1>8 DEF SameHome
  <1>10. out'.ptype = "DM" /\ out'.dsap = q0 /\ out' = Dm(q0, slot')
    BY <1>1, <1>2 DEF Dm
  <1>11. PeerInv(q0)'
    <2>1. OutP(q0)'
      BY <1>1, <1>2, <1>3, <1>10 DEF OutP
    <2>2. ASSUME NEW d \in Conn PROVE HomeP(d, q0)'
      <3>1. HomeP(d, q0) /\ (Home(d, q0) => ~Opening(d))
        BY <1>2 DEF ServeInv, PeersInv, PeerInv, HomeP
      <3>2. QED BY <1>3, <1>8, <3>1 DEF HomeP
    <2>3. QED BY <1>2, <1>3, <2>1, <2>2, QuietPeer
  <1>12. \A q \in Peer : q # q0 => Elsewhere(q, 1, 0)
    BY <1>3, <1>8, <1>9, <1>10 DEF Elsewhere, SamePeer, SameOut, IsAnswer
  <1>13. PeersInv'
    BY <1>11, <1>12, PeersExcept
  <1>14. ConnsInv'
    <2>1. ASSUME NEW d \in Conn PROVE LifeP(d)'
      BY <1>1, <1>8 DEF ServeInv, ConnsInv, LifeP
    <2>2. ASSUME NEW d \in Conn PROVE OwnThreadP(d)'
      BY <1>1 DEF ServeInv, ConnsInv, OwnThreadP
    <2>3. QED BY <2>1, <2>2 DEF ConnsInv
  <1>15. ThreadsInv'
    <2>1. ASSUME NEW u \in Thread PROVE ThreadP(u)'
      <3>1. ThreadP(u) /\ thr'[u].pc = thr[u].pc /\ thr'[u].conn = thr[u].conn
        BY <1>6 DEF ServeInv, ThreadsInv
      <3>2. (Active(u)' <=> Active(u)) /\ On(u)' = On(u)
        BY <3>1 DEF Active, On
      <3>3. ASSUME NEW d \in Conn, Runs(u, d)'
            PROVE  Live(d)' /\ conn'[d].thread = u /\ LabelP(u, d)' /\ (thr'[u].cancelled <=> Slaying(d)')
        <4>1. Runs(u, d) /\ Active(u)
          BY <3>2, <3>3 DEF Runs
        <4>2. Live(d) /\ conn[d].thread = u /\ LabelP(u, d) /\ (thr[u].cancelled <=> Slaying(d))
          BY <3>1, <4>1 DEF ThreadP
        <4>3. LabelP(u, d)'
          BY <1>1, <1>7, <3>1, <4>2 DEF LabelP
        <4>4. d = c <=> u = t
          <5>1. OwnThreadP(c) /\ conn[c].thread # 0
            BY <1>2, <1>4, Numbers DEF ServeInv, ConnsInv, Thread
          <5>2. QED BY <1>4, <4>2, <5>1 DEF OwnThreadP
        <4>5. thr'[u].cancelled <=> Slaying(d)'
          <5>1. CASE u = t
            BY <1>6, <1>7, <4>1, <4>4, <5>1
          <5>2. CASE u # t
            <6>1. thr'[u] = thr[u] /\ ~Slaying(d) /\ ~Slaying(d)'
              BY <1>6, <1>7, <4>4, <5>2
            <6>2. QED BY <4>2, <6>1
          <5>3. QED BY <5>1, <5>2
        <4>6. QED BY <1>1, <1>8, <4>2, <4>3, <4>5
      <3>4. ~Active(u)' => ~thr'[u].cancelled
        <4>1. CASE u = t
          BY <1>6, <3>2, <4>1
        <4>2. CASE u # t
          BY <1>6, <3>1, <3>2, <4>2 DEF ThreadP
        <4>3. QED BY <4>1, <4>2
      <3>5. QED BY <3>1, <3>2, <3>3, <3>4 DEF ThreadP
    <2>2. QED BY <2>1 DEF ThreadsInv
  <1>16. PlaceP'
    <2>1. /\ handler'[slot'] = c /\ Home(c, q0)' /\ Settled(c)'
          /\ peer'[q0].st = "closing" /\ Unsaid(q0)' /\ out' = Dm(q0, slot')
      BY <1>1, <1>2, <1>3, <1>8, <1>10
    <2>2. QED BY <1>1, <2>1 DEF PlaceP
  <1>17. AloneInv' /\ fault' = "none"
    BY <1>3 DEF ServeInv, AloneInv
  <1>18. QED BY <1>3, <1>13, <1>14, <1>15, <1>16, <1>17 DEF ServeInv

(***************************************************************************)
(* llc_connection_free, with nobody left on the connection.                *)
(***************************************************************************)
LEMMA Freeing ==
    ASSUME TypeInv, TypeInv', ServeInv, NEW v \in Conn, NEW q0 \in Peer,
           handler[slot] = v, Home(v, q0), conn[v].status # "NEW", conn[v].status # "ACCEPTED",
           peer[q0].st \in {"connecting", "closing"},
           handler' = [handler EXCEPT ![slot] = 0], conn' = [conn EXCEPT ![v] = Freed],
           UNCHANGED <<thr, cur, llcUp, llcDown, peer, fault>>,
           \A t \in Thread : ~thr[t].cancelled /\ ~Runs(t, v),
           Silent(q0), Unsaid(q0), \A d \in Conn : ~Marking(d),
           out' = Dm(q0, slot), pc' \in {"reply", "sweep", "recv", "transmit"}
    PROVE  ServeInv' /\ Arrowed
  <1>1. /\ conn'[v] = Freed /\ \A d \in Conn : d # v => conn'[d] = conn[d]
        /\ slot \in Slot /\ v # 0
        /\ handler'[slot] = 0 /\ \A j \in Slot : j # slot => handler'[j] = handler[j]
    BY Numbers DEF TypeInv, ConnsOK, HandlerOK, EngineOK, Conn
  <1>2. /\ ~Live(v)' /\ \A q : ~Home(v, q)'
        /\ \A d \in Conn : d # v => /\ Live(d)' <=> Live(d)
                                    /\ \A q : Home(d, q)' <=> Home(d, q)
                                    /\ Opening(d)' <=> Opening(d)
                                    /\ Settled(d)' <=> Settled(d)
        /\ Freed.thread = 0
    BY <1>1 DEF Home, Live, Opening, Settled, Freed, NewConn
  <1>3. \A d \in Conn : ~Marking(d)' /\ ~Slaying(d)'
    BY DEF Marking, Slaying
  <1>4. out'.ptype = "DM" /\ out'.dsap = q0
    BY DEF Dm
  <1>5. UpInv' /\ \A q : UpOnly(q, 0) /\ DownOnly(q, 0)
    BY QueueStill DEF ServeInv
  <1>6. PeerInv(q0)'
    <2>1. \A d \in Conn : Home(d, q0) => d = v
      BY DEF ServeInv, PeersInv, PeerInv, HomeP
    <2>2. Homeless(q0)' /\ \A d \in Conn : ~Home(d, q0)'
      BY <1>2, <2>1 DEF Homeless
    <2>3. Silent(q0)' /\ Unsaid(q0)'
      BY DEF Silent, Unsaid
    <2>4. OutP(q0)'
      BY <1>4, <2>2, <2>3 DEF OutP
    <2>5. \A d \in Conn : HomeP(d, q0)'
      BY <2>2 DEF HomeP
    <2>6. QED BY <2>3, <2>4, <2>5, QuietPeer
  <1>7. ASSUME NEW q \in Peer, q # q0 PROVE Elsewhere(q, 0, 0)
    <2>1. SameHome(q)
      BY <1>2 DEF SameHome
    <2>2. SameHolds(q)
      <3>1. ASSUME NEW j \in Slot, Holds(j, q) PROVE Holds(j, q)'
        <4>1. PICK d \in Conn : handler[j] = d /\ Home(d, q) /\ Settled(d)
          BY <3>1 DEF Holds
        <4>2. d # v /\ j # slot
          BY <1>7, <4>1 DEF Home
        <4>3. handler'[j] = d /\ Home(d, q)' /\ Settled(d)'
          BY <1>1, <1>2, <4>1, <4>2
        <4>4. QED BY <4>3 DEF Holds
      <3>2. QED BY <3>1 DEF SameHolds
    <2>3. SamePeer(q) /\ SameOut(q)
      BY <1>4, <1>7 DEF SamePeer, SameOut, IsAnswer
    <2>4. QED BY <1>5, <2>1, <2>2, <2>3 DEF Elsewhere
  <1>8. PeersInv'
    BY <1>6, <1>7, PeersExcept
  <1>9. ConnsInv'
    <2>1. ASSUME NEW d \in Conn PROVE LifeP(d)'
      <3>1. CASE d = v
        BY <1>2, <3>1 DEF LifeP
      <3>2. CASE d # v
        <4>1. LifeP(d)
          BY DEF ServeInv, ConnsInv
        <4>2. QED BY <1>1, <1>2, <2>1, <3>2, <4>1 DEF LifeP
      <3>3. QED BY <3>1, <3>2
    <2>2. ASSUME NEW d \in Conn PROVE OwnThreadP(d)'
      <3>1. \A e \in Conn : conn'[e].thread = conn[e].thread \/ conn'[e].thread = 0
        BY <1>1, <1>2
      <3>2. QED BY <2>2, <3>1 DEF ServeInv, ConnsInv, OwnThreadP
    <2>3. QED BY <2>1, <2>2 DEF ConnsInv
  <1>10. ThreadsInv'
    <2>1. ASSUME NEW u \in Thread PROVE ThreadP(u)'
      <3>1. ThreadP(u) /\ thr'[u] = thr[u] /\ ~thr[u].cancelled
        BY DEF ServeInv, ThreadsInv
      <3>2. (Active(u)' <=> Active(u)) /\ On(u)' = On(u)
        BY DEF Active, On
      <3>3. ASSUME NEW d \in Conn, Runs(u, d)'
            PROVE  Live(d)' /\ conn'[d].thread = u /\ LabelP(u, d)' /\ ~thr'[u].cancelled
        <4>1. Runs(u, d)
          BY <3>2, <3>3 DEF Runs
        <4>2. Live(d) /\ conn[d].thread = u /\ LabelP(u, d) /\ d # v
          BY <3>1, <4>1 DEF ThreadP
        <4>3. LabelP(u, d)'
          BY <1>1, <1>3, <3>1, <4>2 DEF LabelP
        <4>4. QED BY <1>1, <1>2, <3>1, <4>2, <4>3
      <3>4. QED BY <1>3, <3>1, <3>2, <3>3 DEF ThreadP
    <2>2. QED BY <2>1 DEF ThreadsInv
  <1>11. PlaceP'
    BY DEF PlaceP
  <1>12. AloneInv' /\ fault' = "none"
    BY DEF ServeInv, AloneInv
  <1>13. Arrowed
    <2>1. Live(v) /\ LifeP(v)
      BY DEF ServeInv, ConnsInv, Home
    <2>2. conn[v].life = "live" /\ conn[v].status \in {"CONNECTED", "DISCONNECTED", "REJECTED"}
      BY <2>1 DEF LifeP, Live, Opening, Settled
    <2>3. conn'[v].life = "freed"
      BY <1>1 DEF Freed, NewConn
    <2>4. QED BY <1>1, <2>2, <2>3, ArrowEdit
  <1>14. QED BY <1>13, <1>5, <1>8, <1>9, <1>10, <1>11, <1>12 DEF ServeInv

LEMMA ServeFinish ==
    ASSUME TypeInv, TypeInv', ServeInv, FinishDisc
    PROVE  ServeInv' /\ Arrowed
  <1>1. /\ pc = "slayDisc" /\ \A t \in Thread : ~thr[t].cancelled
        /\ conn' = [conn EXCEPT ![handler[slot]] = Freed]
        /\ handler' = [handler EXCEPT ![slot] = 0]
        /\ UNCHANGED <<thr, cur, llcUp, llcDown, peer, fault>>
        /\ pc' = "reply" /\ out' = out
    BY DEF FinishDisc, Slain, Reply
  <1>2. PICK v \in Conn, q0 \in Peer :
          /\ handler[slot] = v /\ Home(v, q0) /\ Settled(v)
          /\ peer[q0].st = "closing" /\ Unsaid(q0) /\ out = Dm(q0, slot)
    BY <1>1 DEF ServeInv, PlaceP
  <1>3. ASSUME NEW t \in Thread PROVE ~Runs(t, v)
    <2>1. ThreadP(t) /\ Slaying(v)
      BY <1>1, <1>2 DEF ServeInv, ThreadsInv, Slaying
    <2>2. QED BY <1>1, <2>1 DEF ThreadP
  <1>4. Silent(q0)
    <2>1. OutP(q0)
      BY DEF ServeInv, PeersInv, PeerInv
    <2>2. QED BY <1>2, <2>1 DEF OutP, IsAnswer, Dm
  <1>5. \A d \in Conn : ~Marking(d)
    BY <1>1 DEF Marking
  <1>6. conn[v].status # "NEW" /\ conn[v].status # "ACCEPTED"
    BY <1>2 DEF Settled
  <1>7. QED BY <1>1, <1>2, <1>3, <1>4, <1>5, <1>6, Freeing

LEMMA ServeEnded ==
    ASSUME TypeInv, TypeInv', ServeInv, SlotTable, VisitEnded,
           UNCHANGED <<llcUp, llcDown, peer, fault>>
    PROVE  ServeInv' /\ Arrowed
  <1>1. /\ pc = "sweep" /\ UNCHANGED <<thr, cur>>
        /\ conn' = [conn EXCEPT ![handler[slot]] = Freed]
        /\ handler' = [handler EXCEPT ![slot] = 0]
        /\ handler[slot] # 0 /\ conn[handler[slot]].thread = 0
        /\ conn[handler[slot]].status \in {"REJECTED", "DISCONNECTED"}
        /\ out' = Dm(conn[cur].remote, conn[cur].local)
        /\ pc' \in {"sweep", "recv", "transmit"}
    BY DEF VisitEnded, Visiting, Visited, Quiet, Advance
  <1>2. PICK v \in Conn : handler[slot] = v
    BY <1>1, HandlerType DEF TypeInv, EngineOK
  <1>3. Live(v) /\ conn[v].local = slot
    BY <1>1, <1>2 DEF SlotTable, Live, TypeInv, EngineOK
  <1>4. LifeP(v)
    BY DEF ServeInv, ConnsInv
  <1>5. Opening(v) /\ cur = v
    BY <1>1, <1>2, <1>3, <1>4 DEF LifeP, Opening, Settled
  <1>6. \A d \in Conn : ~Marking(d) /\ ~Slaying(d)
    BY <1>1 DEF Marking, Slaying
  <1>7. PICK q0 \in Peer :
              Home(v, q0) /\ peer[q0].st = "connecting" /\ Silent(q0) /\ Unanswered(q0)
    BY <1>3, <1>5, <1>6, OpeningPeer
  <1>8. Unsaid(q0) /\ out' = Dm(q0, slot)
    BY <1>1, <1>3, <1>5, <1>7 DEF Unanswered, Home
  <1>9. ASSUME NEW t \in Thread PROVE ~thr[t].cancelled /\ ~Runs(t, v)
    <2>1. ThreadP(t)
      BY DEF ServeInv, ThreadsInv
    <2>2. ~Runs(t, v)
      BY <1>1, <1>2, <2>1, Numbers DEF ThreadP, Thread
    <2>3. ~thr[t].cancelled
      <3>1. CASE Active(t)
        <4>1. PICK d \in Conn : On(t) = d
          BY <2>1, <3>1 DEF ThreadP
        <4>2. Runs(t, d)
          BY <3>1, <4>1 DEF Runs
        <4>3. QED BY <1>6, <2>1, <4>2 DEF ThreadP
      <3>2. CASE ~Active(t)
        BY <2>1, <3>2 DEF ThreadP
      <3>3. QED BY <3>1, <3>2
    <2>4. QED BY <2>2, <2>3
  <1>10. QED BY <1>1, <1>2, <1>6, <1>7, <1>8, <1>9, Freeing

(***************************************************************************)
(* The two steps that make a connection CONNECTED.                         *)
(***************************************************************************)
LEMMA ServeEstablished ==
    ASSUME TypeInv, TypeInv', ServeInv, SlotTable, Serving, VisitEstablished,
           UNCHANGED <<llcUp, llcDown, peer, fault>>
    PROVE  ServeInv' /\ Arrowed
  <1>1. /\ pc = "sweep" /\ UNCHANGED <<handler, slot, cur>> /\ pc' = "spawned"
        /\ handler[slot] # 0 /\ conn[handler[slot]].thread = 0
        /\ conn[handler[slot]].status \in {"ACCEPTED", "RECEIVED_CC"}
    BY DEF VisitEstablished, Visiting, Visited, Quiet
  <1>2. PICK v \in Conn : handler[slot] = v
    BY <1>1, HandlerType DEF TypeInv, EngineOK
  <1>3. Live(v) /\ conn[v].local = slot
    BY <1>1, <1>2 DEF SlotTable, Live, TypeInv, EngineOK
  <1>4. LifeP(v)
    BY DEF ServeInv, ConnsInv
  <1>5. Opening(v) /\ cur = v /\ conn[v].status = "ACCEPTED"
    BY <1>1, <1>2, <1>3, <1>4 DEF LifeP, Opening, Settled
  <1>6. \A d \in Conn : ~Marking(d) /\ ~Slaying(d) /\ ~Slaying(d)' /\ (Marking(d)' <=> d = v)
    BY <1>1, <1>2 DEF Marking, Slaying
  <1>7. PICK q0 \in Peer :
              /\ Home(v, q0) /\ peer[q0].st = "connecting" /\ Silent(q0) /\ Unanswered(q0)
              /\ \A d \in Conn : Home(d, q0) => d = v
    BY <1>3, <1>5, <1>6, OpeningPeer
  <1>8. out' = [ptype |-> "CC", dsap |-> q0, ssap |-> slot]
    BY <1>1, <1>2, <1>3, <1>5, <1>7 DEF VisitEstablished, Visited, Home
  <1>9. PICK t \in FreshThread : /\ conn' = [conn EXCEPT ![cur].thread = t]
                                 /\ thr' = [thr EXCEPT ![t] = Started(cur, FirstStep)]
    BY DEF VisitEstablished
  <1>10. t \in Thread /\ thr[t].pc = "exited" /\ (\A d \in Conn : conn[d].thread # t) /\ t # 0
    BY Numbers DEF FreshThread, Least, Thread
  <1>11. /\ \A d \in Conn : d # v => conn'[d] = conn[d]
         /\ conn'[v].life = conn[v].life /\ conn'[v].remote = conn[v].remote
         /\ conn'[v].status = conn[v].status /\ conn'[v].up = conn[v].up
         /\ conn'[v].thread = t
    BY <1>5, <1>9 DEF TypeInv, ConnsOK, ConnType
  <1>12. /\ thr'[t].pc = "recv" /\ thr'[t].conn = v /\ ~thr'[t].cancelled
         /\ \A u \in Thread : u # t => thr'[u] = thr[u]
    BY <1>5, <1>9, <1>10 DEF TypeInv, ThreadsOK, Started, Serving
  <1>13. SameShape
    BY <1>11 DEF SameShape, Opening, Settled
  <1>14. /\ \A d \in Conn : \A q : Home(d, q)' <=> Home(d, q)
         /\ \A d \in Conn : Live(d)' <=> Live(d)
         /\ \A q : SameHolds(q) /\ SameHome(q)
    BY <1>1, <1>6, <1>13, ShapeKept
  <1>15. UpInv' /\ \A q : UpOnly(q, 0) /\ DownOnly(q, 0)
    BY QueueStill DEF ServeInv
  <1>16. Unsaid(q0)' /\ Silent(q0)'
    BY <1>7 DEF Unanswered, Unsaid, Silent
  <1>17. PeerInv(q0)'
    <2>1. OutP(q0)'
      BY <1>1, <1>7, <1>8 DEF OutP
    <2>2. \A d \in Conn : HomeP(d, q0)'
      BY <1>6, <1>7, <1>14 DEF HomeP
    <2>3. QED BY <1>7, <1>16, <2>1, <2>2, QuietPeer
  <1>18. \A q \in Peer : q # q0 => Elsewhere(q, 0, 0)
    BY <1>8, <1>14, <1>15 DEF Elsewhere, SamePeer, SameOut, IsAnswer
  <1>19. PeersInv'
    BY <1>17, <1>18, PeersExcept
  <1>20. ConnsInv'
    <2>1. ASSUME NEW d \in Conn PROVE LifeP(d)'
      <3>1. CASE d = v
        BY <1>1, <1>4, <1>5, <1>10, <1>11, <1>13, <1>14, <3>1 DEF LifeP, SameShape
      <3>2. CASE d # v
        <4>1. LifeP(d)
          BY DEF ServeInv, ConnsInv
        <4>2. QED BY <1>1, <1>11, <1>13, <1>14, <2>1, <3>2, <4>1 DEF LifeP, SameShape
      <3>3. QED BY <3>1, <3>2
    <2>2. ASSUME NEW d \in Conn PROVE OwnThreadP(d)'
      <3>1. \A e \in Conn : OwnThreadP(e)
        BY DEF ServeInv, ConnsInv
      <3>2. \A e \in Conn : e # v => conn'[e].thread = conn[e].thread /\ conn'[e].thread # t
        BY <1>10, <1>11
      <3>3. QED BY <1>11, <2>2, <3>1, <3>2 DEF OwnThreadP
    <2>3. QED BY <2>1, <2>2 DEF ConnsInv
  <1>21. ThreadsInv'
    <2>1. ASSUME NEW u \in Thread, u # t PROVE ThreadP(u)'
      <3>1. ThreadP(u) /\ thr'[u] = thr[u]
        BY <1>12, <2>1 DEF ServeInv, ThreadsInv
      <3>2. (Active(u)' <=> Active(u)) /\ On(u)' = On(u)
        BY <3>1 DEF Active, On
      <3>3. ASSUME NEW d \in Conn, Runs(u, d)'
            PROVE  Live(d)' /\ conn'[d].thread = u /\ LabelP(u, d)' /\ (thr'[u].cancelled <=> Slaying(d)')
        <4>1. Runs(u, d)
          BY <3>2, <3>3 DEF Runs
        <4>2. Live(d) /\ conn[d].thread = u /\ LabelP(u, d) /\ (thr[u].cancelled <=> Slaying(d))
          BY <3>1, <4>1 DEF ThreadP
        <4>3. d # v
          BY <1>1, <1>2, <4>2, Numbers DEF Thread
        <4>4. conn'[d] = conn[d] /\ ~Marking(d) /\ ~Marking(d)'
          BY <1>6, <1>11, <4>3
        <4>5. LabelP(u, d)'
          BY <3>1, <4>2, <4>4 DEF LabelP
        <4>6. QED BY <1>6, <1>14, <3>1, <4>2, <4>4, <4>5
      <3>4. QED BY <3>1, <3>2, <3>3 DEF ThreadP
    <2>2. ThreadP(t)'
      <3>1. Active(t)' /\ On(t)' = v
        BY <1>12 DEF Active, On
      <3>2. LabelP(t, v)'
        BY <1>6, <1>12 DEF LabelP
      <3>3. QED BY <1>3, <1>6, <1>11, <1>12, <1>14, <3>1, <3>2 DEF ThreadP, Runs
    <2>3. QED BY <2>1, <2>2 DEF ThreadsInv
  <1>22. PlaceP'
    <2>1. /\ handler'[slot'] = v /\ cur' = v /\ Home(v, q0)' /\ conn'[v].status = "ACCEPTED"
          /\ conn'[v].thread # 0 /\ Unsaid(q0)'
          /\ out' = [ptype |-> "CC", dsap |-> q0, ssap |-> slot']
      BY <1>1, <1>2, <1>5, <1>7, <1>8, <1>10, <1>11, <1>14, <1>16
    <2>2. QED BY <1>1, <2>1 DEF PlaceP
  <1>23. AloneInv' /\ fault' = "none"
    BY DEF ServeInv, AloneInv
  <1>24. Arrowed
    BY <1>11, ArrowEdit
  <1>25. QED BY <1>24, <1>15, <1>19, <1>20, <1>21, <1>22, <1>23 DEF ServeInv

LEMMA ServeMarked ==
    ASSUME TypeInv, TypeInv', ServeInv, MarkConnected, UNCHANGED <<llcUp, llcDown, peer, fault>>
    PROVE  ServeInv' /\ Arrowed
  <1>1. /\ pc = "spawned" /\ UNCHANGED <<handler, thr, cur>> /\ out' = out
        /\ conn' = [conn EXCEPT ![handler[slot]].status = "CONNECTED"]
        /\ pc' \in {"sweep", "recv", "transmit"}
    BY DEF MarkConnected, Visited, Advance
  <1>2. PICK v \in Conn, q0 \in Peer :
          /\ handler[slot] = v /\ cur = v /\ Home(v, q0) /\ conn[v].status = "ACCEPTED"
          /\ conn[v].thread # 0 /\ Unsaid(q0)
          /\ out = [ptype |-> "CC", dsap |-> q0, ssap |-> slot]
    BY <1>1 DEF ServeInv, PlaceP
  <1>3. /\ \A d \in Conn : d # v => conn'[d] = conn[d]
        /\ conn'[v].life = conn[v].life /\ conn'[v].remote = conn[v].remote
        /\ conn'[v].status = "CONNECTED" /\ conn'[v].thread = conn[v].thread
    BY <1>1, <1>2 DEF TypeInv, ConnsOK, ConnType
  <1>4. /\ Live(v) /\ Opening(v) /\ Settled(v)' /\ ~Opening(v)'
        /\ \A d \in Conn : /\ Live(d)' <=> Live(d)
                           /\ \A q : Home(d, q)' <=> Home(d, q)
                           /\ Opening(d)' => Opening(d)
                           /\ Settled(d) => Settled(d)'
                           /\ d # v => (Opening(d)' <=> Opening(d)) /\ (Settled(d)' <=> Settled(d))
    <2>1. \A d \in Conn : Live(d)' <=> Live(d)
      BY <1>3 DEF Live
    <2>2. \A d \in Conn : \A q : Home(d, q)' <=> Home(d, q)
      BY <1>3, <2>1 DEF Home
    <2>3. Live(v) /\ Opening(v) /\ Settled(v)' /\ ~Opening(v)'
      BY <1>2, <1>3 DEF Home, Opening, Settled
    <2>4. \A d \in Conn : d # v => (Opening(d)' <=> Opening(d)) /\ (Settled(d)' <=> Settled(d))
      BY <1>3 DEF Opening, Settled
    <2>5. QED BY <2>1, <2>2, <2>3, <2>4
  <1>5. \A d \in Conn : /\ ~Marking(d)' /\ ~Slaying(d) /\ ~Slaying(d)'
                        /\ Marking(d) <=> d = v
    BY <1>1, <1>2 DEF Marking, Slaying
  <1>6. peer[q0].st = "connecting" /\ Silent(q0) /\ \A d \in Conn : Home(d, q0) => d = v
    <2>1. PICK q \in Peer : /\ Home(v, q) /\ peer[q].st = "connecting" /\ Silent(q)
                            /\ \A d \in Conn : Home(d, q) => d = v
      BY <1>4, OpeningPeer
    <2>2. QED BY <1>2, <2>1 DEF Home
  <1>7. UpInv' /\ \A q : UpOnly(q, 0) /\ DownOnly(q, 0)
    BY QueueStill DEF ServeInv
  <1>8. Unsaid(q0)' /\ Silent(q0)'
    BY <1>2, <1>6 DEF Unsaid, Silent
  <1>9. slot \in Slot
    BY DEF TypeInv, EngineOK
  <1>10. PeerInv(q0)'
    <2>1. PICK s \in Slot : s = slot
      BY <1>9
    <2>2. handler'[s] = v /\ Home(v, q0)' /\ Settled(v)'
      BY <1>1, <1>2, <1>4, <2>1
    <2>3. Holds(s, q0)' /\ out'.ssap = s /\ out'.ptype = "CC"
      BY <1>1, <1>2, <2>1, <2>2 DEF Holds
    <2>4. OutP(q0)'
      BY <1>6, <2>3 DEF OutP
    <2>5. \A d \in Conn : HomeP(d, q0)'
      BY <1>4, <1>6 DEF HomeP
    <2>6. QED BY <1>6, <1>8, <2>4, <2>5, QuietPeer
  <1>11. ASSUME NEW q \in Peer, q # q0 PROVE Elsewhere(q, 0, 0)
    <2>1. SameHome(q)
      <3>1. ~Home(v, q)
        BY <1>2, <1>11 DEF Home
      <3>2. QED BY <1>4, <1>5, <3>1 DEF SameHome
    <2>2. SameHolds(q)
      BY <1>1, <1>4 DEF SameHolds, Holds
    <2>3. SamePeer(q) /\ SameOut(q)
      BY <1>1, <1>2, <1>11 DEF SamePeer, SameOut, IsAnswer
    <2>4. QED BY <1>7, <2>1, <2>2, <2>3 DEF Elsewhere
  <1>12. PeersInv'
    BY <1>10, <1>11, PeersExcept
  <1>13. ConnsInv'
    <2>1. ASSUME NEW d \in Conn PROVE LifeP(d)'
      <3>1. LifeP(d)
        BY DEF ServeInv, ConnsInv
      <3>2. CASE d = v
        BY <1>1, <1>2, <1>3, <1>4, <3>1, <3>2 DEF LifeP
      <3>3. CASE d # v
        BY <1>1, <1>3, <1>4, <2>1, <3>1, <3>3 DEF LifeP
      <3>4. QED BY <3>2, <3>3
    <2>2. ASSUME NEW d \in Conn PROVE OwnThreadP(d)'
      <3>1. \A e \in Conn : conn'[e].thread = conn[e].thread
        BY <1>3
      <3>2. QED BY <2>2, <3>1 DEF ServeInv, ConnsInv, OwnThreadP
    <2>3. QED BY <2>1, <2>2 DEF ConnsInv
  <1>14. ThreadsInv'
    <2>1. ASSUME NEW u \in Thread PROVE ThreadP(u)'
      <3>1. ThreadP(u) /\ thr'[u] = thr[u]
        BY <1>1 DEF ServeInv, ThreadsInv
      <3>2. (Active(u)' <=> Active(u)) /\ On(u)' = On(u)
        BY <3>1 DEF Active, On
      <3>3. ASSUME NEW d \in Conn, Runs(u, d)'
            PROVE  Live(d)' /\ conn'[d].thread = u /\ LabelP(u, d)' /\ (thr'[u].cancelled <=> Slaying(d)')
        <4>1. Runs(u, d)
          BY <3>2, <3>3 DEF Runs
        <4>2. Live(d) /\ conn[d].thread = u /\ LabelP(u, d) /\ (thr[u].cancelled <=> Slaying(d))
          BY <3>1, <4>1 DEF ThreadP
        <4>3. LabelP(u, d)'
          <5>1. CASE d = v
            BY <1>2, <1>3, <1>5, <3>1, <4>2, <5>1 DEF LabelP
          <5>2. CASE d # v
            BY <1>3, <1>5, <3>1, <4>2, <5>2 DEF LabelP
          <5>3. QED BY <5>1, <5>2
        <4>4. conn'[d].thread = conn[d].thread
          BY <1>3
        <4>5. QED BY <1>4, <1>5, <3>1, <4>2, <4>3, <4>4
      <3>4. QED BY <3>1, <3>2, <3>3 DEF ThreadP
    <2>2. QED BY <2>1 DEF ThreadsInv
  <1>15. PlaceP'
    BY <1>1 DEF PlaceP
  <1>16. AloneInv' /\ fault' = "none"
    BY DEF ServeInv, AloneInv
  <1>17. Arrowed
    <2>1. conn[v].life = "live" /\ conn'[v].life = "live"
      BY <1>3, <1>4 DEF Live
    <2>2. QED BY <1>2, <1>3, <2>1, ArrowEdit
  <1>18. QED BY <1>17, <1>7, <1>12, <1>13, <1>14, <1>15, <1>16 DEF ServeInv

(***************************************************************************)
(* Answers: from the engine's buffer to the queue, from there to the peer. *)
(***************************************************************************)
LEMMA AnsweredPeer ==
    ASSUME ServeInv, NEW q \in Peer, ~Unanswered(q)
    PROVE  /\ peer[q].st \in {"connecting", "closing"} /\ Silent(q)
           /\ \A c \in Conn : Home(c, q) /\ Opening(c) => Marking(c)
  <1>1. PeerInv(q)
    BY DEF ServeInv, PeersInv
  <1>2. \A c \in Conn : Home(c, q) /\ Opening(c) => Marking(c)
    BY <1>1 DEF PeerInv, HomeP
  <1>3. peer[q].st = "connecting" \/ (peer[q].st \in {"connecting", "closing"} /\ Silent(q))
    <2>1. CASE IsAnswer(out, q)
      BY <1>1, <2>1 DEF PeerInv, OutP, IsAnswer
    <2>2. CASE ~Unsaid(q)
      <3>1. PICK j \in 1..Len(llcDown) : IsAnswer(llcDown[j], q)
        BY <2>2 DEF Unsaid
      <3>2. DownP(j, q)
        BY <1>1 DEF PeerInv
      <3>3. QED BY <3>1, <3>2 DEF DownP, IsAnswer
    <2>3. QED BY <2>1, <2>2 DEF Unanswered
  <1>4. Silent(q)
    <2>1. CASE peer[q].st = "connecting"
      <3>1. ASSUME NEW j \in 1..Len(llcUp) PROVE llcUp[j].ssap # q
        <4>1. UpP(j, q) /\ UpTyped(j)
          BY <1>1 DEF PeerInv, ServeInv, UpInv
        <4>2. QED BY <2>1, <4>1 DEF UpP, UpTyped
      <3>2. QED BY <3>1 DEF Silent
    <2>2. QED BY <1>3, <2>1
  <1>5. QED BY <1>2, <1>3, <1>4

\* Steps of the queues and the peers alone.
LEMMA Standing ==
    ASSUME TypeInv, ServeInv, UNCHANGED <<handler, conn, thr, cur>>,
           \A d \in Conn : (Marking(d)' <=> Marking(d)) /\ (Slaying(d)' <=> Slaying(d))
    PROVE  /\ ConnsInv' /\ ThreadsInv'
           /\ \A q : SameHolds(q) /\ SameHome(q) /\ (Homeless(q)' <=> Homeless(q))
           /\ \A i \in Slot : \A q : Holds(i, q)' <=> Holds(i, q)
           /\ \A d \in Conn : /\ Opening(d)' <=> Opening(d)
                              /\ Settled(d)' <=> Settled(d)
                              /\ \A q : Home(d, q)' <=> Home(d, q)
  <1>1. \A d \in Conn : /\ Live(d)' <=> Live(d)
                        /\ Opening(d)' <=> Opening(d)
                        /\ Settled(d)' <=> Settled(d)
                        /\ \A q : Home(d, q)' <=> Home(d, q)
    BY DEF Live, Home, Opening, Settled
  <1>2. \A i \in Slot : \A q : Holds(i, q)' <=> Holds(i, q)
    BY <1>1 DEF Holds
  <1>3. \A q : SameHolds(q) /\ SameHome(q) /\ (Homeless(q)' <=> Homeless(q))
    BY <1>1, <1>2 DEF SameHolds, SameHome, Homeless
  <1>4. ConnsInv'
    <2>1. ASSUME NEW d \in Conn PROVE LifeP(d)' /\ OwnThreadP(d)'
      <3>1. LifeP(d) /\ OwnThreadP(d)
        BY DEF ServeInv, ConnsInv
      <3>2. QED BY <1>1, <3>1 DEF LifeP, OwnThreadP
    <2>2. QED BY <2>1 DEF ConnsInv
  <1>5. ThreadsInv'
    <2>1. ASSUME NEW u \in Thread PROVE ThreadP(u)'
      <3>1. ThreadP(u) /\ (Active(u)' <=> Active(u)) /\ On(u)' = On(u)
        BY DEF ServeInv, ThreadsInv, Active, On
      <3>2. \A d \in Conn : (Runs(u, d)' <=> Runs(u, d)) /\ (LabelP(u, d)' <=> LabelP(u, d))
        BY <3>1 DEF Runs, LabelP
      <3>3. QED BY <1>1, <3>1, <3>2 DEF ThreadP
    <2>2. QED BY <2>1 DEF ThreadsInv
  <1>6. QED BY <1>1, <1>2, <1>3, <1>4, <1>5

LEMMA ServeHandOver ==
    ASSUME TypeInv, TypeInv', ServeInv, HandOver
    PROVE  ServeInv'
  <1>1. /\ pc \in {"reply", "transmit"} /\ pc' \in {"sweep", "recv"} /\ out' = None
        /\ llcDown' = Append(llcDown, out)
        /\ UNCHANGED <<handler, conn, thr, cur, llcUp, peer, fault>>
    BY DEF HandOver, ToSweep
  <1>2. \A d \in Conn : ~Marking(d) /\ ~Marking(d)' /\ ~Slaying(d) /\ ~Slaying(d)'
    BY <1>1 DEF Marking, Slaying
  <1>3. /\ ConnsInv' /\ ThreadsInv'
        /\ \A q : SameHolds(q) /\ SameHome(q) /\ (Homeless(q)' <=> Homeless(q))
        /\ \A i \in Slot : \A q : Holds(i, q)' <=> Holds(i, q)
        /\ \A d \in Conn : /\ Opening(d)' <=> Opening(d)
                           /\ Settled(d)' <=> Settled(d)
                           /\ \A q : Home(d, q)' <=> Home(d, q)
    BY <1>1, <1>2, Standing
  <1>4. UpInv' /\ \A q : UpOnly(q, 0)
    BY <1>1, QueueStill DEF ServeInv
  <1>5. /\ Len(llcDown) \in Nat /\ Len(llcDown') = Len(llcDown) + 1
        /\ \A j \in 1..Len(llcDown) : llcDown'[j] = llcDown[j]
        /\ llcDown'[Len(llcDown) + 1] = out
        /\ \A j \in 1..Len(llcDown') : j \in 1..Len(llcDown) \/ j = Len(llcDown) + 1
    <2>1. Len(llcDown) \in Nat /\ llcDown \in Seq(DownPdu) /\ out \in DownPdu
      <3>1. out # None /\ out \in EnginePdu \cup {None}
        BY <1>1 DEF TypeInv, EngineOK
      <3>2. QED BY <3>1, Lengths DEF DownPdu
    <2>2. QED BY <1>1, <2>1
  <1>6. \A q : ~IsAnswer(out', q)
    BY <1>1 DEF IsAnswer, None
  <1>7. ASSUME NEW q \in Peer, ~IsAnswer(out, q) PROVE PeerInv(q)'
    <2>1. DownOnly(q, 0)
      <3>1. \A j \in 1..Len(llcDown') : /\ j + 0 <= Len(llcDown) => j \in 1..Len(llcDown)
                                        /\ j + 0 > Len(llcDown) => j = Len(llcDown) + 1
        BY <1>5
      <3>2. QED BY <1>5, <1>7, <3>1 DEF DownOnly
    <2>2. SamePeer(q) /\ SameOut(q)
      BY <1>1, <1>6 DEF SamePeer, SameOut
    <2>3. Elsewhere(q, 0, 0)
      BY <1>3, <1>4, <2>1, <2>2 DEF Elsewhere
    <2>4. PeerInv(q)
      BY DEF ServeInv, PeersInv
    <2>5. QED BY <2>3, <2>4, ElsewhereKept
  <1>8. ASSUME NEW q \in Peer, IsAnswer(out, q) PROVE PeerInv(q)'
    <2>1. PeerInv(q) /\ OutP(q)
      BY DEF ServeInv, PeersInv, PeerInv
    <2>2. /\ peer[q].st \in {"connecting", "closing"} /\ Silent(q)
          /\ \A c \in Conn : Home(c, q) => ~Opening(c)
      BY <1>2, <1>8, AnsweredPeer DEF Unanswered
    <2>3. Unsaid(q)
      BY <1>8, <2>1 DEF Unsaid, PeerInv, DownP
    <2>4. Silent(q)'
      BY <1>1, <2>2 DEF Silent
    <2>5. ASSUME NEW c \in Conn PROVE HomeP(c, q)'
      BY <1>1, <1>3, <2>1, <2>2 DEF HomeP, PeerInv
    <2>6. ASSUME NEW j \in 1..Len(llcUp') PROVE UpP(j, q)'
      BY <2>4 DEF UpP, Silent
    <2>7. ASSUME NEW j \in 1..Len(llcDown') PROVE DownP(j, q)'
      <3>1. \A k \in 1..Len(llcDown') : IsAnswer(llcDown'[k], q) => k = Len(llcDown) + 1
        BY <1>5, <2>3 DEF Unsaid
      <3>2. IsAnswer(llcDown'[j], q) => llcDown'[j] = out
        BY <1>5, <3>1
      <3>3. /\ out.ptype = "CC" => /\ peer'[q].st = "connecting"
                                   /\ \E i \in Slot : out.ssap = i /\ Holds(i, q)'
            /\ out.ptype = "DM" => /\ peer'[q].st \in {"connecting", "closing"}
                                   /\ Homeless(q)' /\ Silent(q)'
        BY <1>1, <1>3, <1>8, <2>1, <2>4 DEF OutP
      <3>4. QED BY <1>6, <3>1, <3>2, <3>3 DEF DownP
    <2>8. OutP(q)'
      BY <1>6 DEF OutP
    <2>9. QED BY <1>1, <2>2, <2>5, <2>6, <2>7, <2>8 DEF PeerInv
  <1>9. PeersInv'
    BY <1>7, <1>8 DEF PeersInv
  <1>10. PlaceP'
    BY <1>1 DEF PlaceP
  <1>11. AloneInv' /\ fault' = "none"
    BY <1>1 DEF ServeInv, AloneInv
  <1>12. QED BY <1>3, <1>4, <1>9, <1>10, <1>11 DEF ServeInv

LEMMA ServeReceived ==
    ASSUME TypeInv, TypeInv', ServeInv, PeerReceive
    PROVE  ServeInv'
  <1> DEFINE p == llcDown[1]
  <1>1. /\ llcDown # <<>> /\ llcDown' = Tail(llcDown) /\ Head(llcDown) = p
        /\ peer' = [peer EXCEPT ![p.dsap] = After(p.dsap, p)]
        /\ UNCHANGED <<handler, conn, thr, pc, slot, cur, out, llcUp, fault>>
    <2>1. /\ llcDown # <<>> /\ llcDown' = Tail(llcDown)
          /\ peer' = [peer EXCEPT ![Head(llcDown).dsap] = After(Head(llcDown).dsap, Head(llcDown))]
          /\ UNCHANGED <<handler, conn, thr, pc, slot, cur, out, llcUp, fault>>
      BY DEF PeerReceive, engine
    <2>2. Head(llcDown) = p
      BY <2>1, Lengths
    <2> HIDE DEF p
    <2>3. QED BY <2>1, <2>2
  <1>2. /\ Len(llcDown) \in Nat /\ Len(llcDown') = Len(llcDown) - 1 /\ 1 \in 1..Len(llcDown)
        /\ \A j \in 1..Len(llcDown') : /\ llcDown'[j] = llcDown[j + 1]
                                       /\ j + 1 \in 1..Len(llcDown) /\ j + 1 # 1
    BY <1>1, Lengths
  <1>3. \A d \in Conn : (Marking(d)' <=> Marking(d)) /\ (Slaying(d)' <=> Slaying(d))
    BY <1>1 DEF Marking, Slaying
  <1>4. /\ ConnsInv' /\ ThreadsInv'
        /\ \A q : SameHolds(q) /\ SameHome(q) /\ (Homeless(q)' <=> Homeless(q))
        /\ \A i \in Slot : \A q : Holds(i, q)' <=> Holds(i, q)
        /\ \A d \in Conn : /\ Opening(d)' <=> Opening(d)
                           /\ Settled(d)' <=> Settled(d)
                           /\ \A q : Home(d, q)' <=> Home(d, q)
    BY <1>1, <1>3, Standing
  <1>5. UpInv' /\ \A q : UpOnly(q, 0)
    BY <1>1, QueueStill DEF ServeInv
  <1>6. \A q : DownOnly(q, 1) /\ (Unsaid(q) => Unsaid(q)')
    BY <1>2 DEF DownOnly, Unsaid
  <1>7. \A q : IsAnswer(out', q) <=> IsAnswer(out, q)
    BY <1>1 DEF IsAnswer
  <1>8. ASSUME NEW q \in Peer, SamePeer(q) PROVE PeerInv(q)'
    <2>1. SameOut(q)
      BY <1>1 DEF SameOut
    <2>2. Elsewhere(q, 0, 1)
      BY <1>4, <1>5, <1>6, <1>8, <2>1 DEF Elsewhere
    <2>3. PeerInv(q)
      BY DEF ServeInv, PeersInv
    <2>4. QED BY <2>2, <2>3, ElsewhereKept
  <1>9. \A q \in Peer : q # p.dsap => SamePeer(q)
    <2>1. peer \in [Peer -> PeerType]
      BY DEF TypeInv, PeersOK
    <2>2. ASSUME NEW d, NEW new, peer' = [peer EXCEPT ![d] = new], NEW q \in Peer, q # d
          PROVE  SamePeer(q)
      BY <2>1, <2>2 DEF SamePeer
    <2> HIDE DEF p
    <2>3. QED BY <1>1, <2>2
  <1>10. ASSUME NEW q \in Peer, IsAnswer(p, q)
         PROVE  /\ PeerInv(q)' /\ ~Unsaid(q) /\ peer'[q].st # "connecting"
    <2>1. PeerInv(q) /\ DownP(1, q)
      BY <1>2 DEF ServeInv, PeersInv, PeerInv
    <2>2. /\ ~IsAnswer(out, q) /\ \A k \in 1..Len(llcDown) : IsAnswer(llcDown[k], q) => k = 1
          /\ p.ptype = "CC" => peer[q].st = "connecting" /\ \E i \in Slot : p.ssap = i /\ Holds(i, q)
          /\ p.ptype = "DM" => Homeless(q)
      BY <1>2, <1>10, <2>1 DEF DownP
    <2>3. ~Unsaid(q)
      BY <1>2, <1>10 DEF Unsaid
    <2>4. Unsaid(q)' /\ Unanswered(q)'
      BY <1>2, <1>7, <2>2 DEF Unsaid, Unanswered
    <2>5. Silent(q) /\ \A c \in Conn : Home(c, q) /\ Opening(c) => Marking(c)
      BY <2>3, AnsweredPeer DEF Unanswered
    <2>6. ASSUME NEW c \in Conn, Home(c, q) PROVE ~Opening(c)
      <3>1. ~Marking(c)
        BY <2>3, <2>6 DEF ServeInv, PlaceP, Marking, Home
      <3>2. QED BY <2>5, <2>6, <3>1
    <2>7. Silent(q)'
      BY <1>1, <2>5 DEF Silent
    <2>8. OutP(q)'
      BY <1>7, <2>2 DEF OutP
    <2>9. peer'[q] = After(q, p) /\ p.ptype \in {"CC", "DM"}
      BY <1>1, <1>10 DEF IsAnswer, TypeInv, PeersOK
    <2>10. /\ p.ptype = "CC" => peer'[q].st = "open" /\ peer'[q].at = p.ssap
           /\ p.ptype = "DM" => peer'[q].st = "idle"
      BY <2>2, <2>9 DEF After, NoPeer
    <2>11. ASSUME NEW c \in Conn PROVE HomeP(c, q)'
      <3>1. HomeP(c, q)
        BY <2>1 DEF PeerInv
      <3>2. Home(c, q) => peer'[q].st = "open"
        BY <2>2, <2>9, <2>10 DEF Homeless
      <3>3. QED BY <1>4, <2>6, <3>1, <3>2 DEF HomeP
    <2>12. ASSUME NEW j \in 1..Len(llcUp') PROVE UpP(j, q)'
      BY <2>7 DEF UpP, Silent
    <2>13. ASSUME NEW j \in 1..Len(llcDown') PROVE DownP(j, q)'
      BY <2>4 DEF DownP, Unsaid
    <2>14. peer'[q].st \in {"open", "broken"} => Served(q)' /\ Unanswered(q)'
      BY <1>4, <2>2, <2>4, <2>9, <2>10 DEF Served
    <2>15. QED BY <2>3, <2>8, <2>9, <2>10, <2>11, <2>12, <2>13, <2>14 DEF PeerInv
  <1>11. ASSUME NEW q \in Peer, ~IsAnswer(p, q) PROVE SamePeer(q)
    <2>1. CASE q # p.dsap
      BY <1>9, <2>1
    <2>2. CASE q = p.dsap
      <3>1. peer'[q] = After(q, p) /\ p.ptype \notin {"CC", "DM"} /\ peer[q] \in PeerType
        BY <1>1, <1>11, <2>2 DEF IsAnswer, TypeInv, PeersOK
      <3> HIDE DEF p
      <3>2. QED BY <3>1, AfterOther DEF SamePeer
    <2>3. QED BY <2>1, <2>2
  <1> HIDE DEF p
  <1>12. PeersInv'
    <2>1. ASSUME NEW q \in Peer PROVE PeerInv(q)'
      BY <1>8, <1>10, <1>11
    <2>2. QED BY <2>1 DEF PeersInv
  <1>13. PlaceP'
    <2>1. \A q \in Peer : Unsaid(q) => Unsaid(q)' /\ SamePeer(q)
      BY <1>6, <1>10, <1>11
    <2>2. PlaceP
      BY DEF ServeInv
    <2>3. pc = "spawned" => \E c \in Conn, q \in Peer :
          /\ handler[slot] = c /\ cur = c /\ Home(c, q)' /\ conn[c].status = "ACCEPTED"
          /\ conn[c].thread # 0 /\ Unsaid(q)'
          /\ out = [ptype |-> "CC", dsap |-> q, ssap |-> slot]
      BY <1>4, <2>1, <2>2 DEF PlaceP
    <2>4. pc = "slayDisc" => \E c \in Conn, q \in Peer :
          /\ handler[slot] = c /\ Home(c, q)' /\ Settled(c)'
          /\ peer'[q].st = "closing" /\ Unsaid(q)' /\ out = Dm(q, slot)
      <3>1. ASSUME pc = "slayDisc"
            PROVE \E c \in Conn, q \in Peer :
              /\ handler[slot] = c /\ Home(c, q)' /\ Settled(c)'
              /\ peer'[q].st = "closing" /\ Unsaid(q)' /\ out = Dm(q, slot)
        <4>1. PICK c \in Conn, q \in Peer :
                /\ handler[slot] = c /\ Home(c, q) /\ Settled(c)
                /\ peer[q].st = "closing" /\ Unsaid(q) /\ out = Dm(q, slot)
          BY <2>2, <3>1 DEF PlaceP
        <4>2. Home(c, q)' /\ Settled(c)' /\ Unsaid(q)' /\ peer'[q].st = "closing"
          BY <1>4, <2>1, <4>1 DEF SamePeer
        <4>3. QED BY <4>1, <4>2
      <3>2. QED BY <3>1
    <2>5. pc = "deliver" => \E c \in Conn : handler[slot] = c /\ Settled(c)'
      BY <1>4, <2>2 DEF PlaceP
    <2>6. pc # "slayDm"
      BY <2>2 DEF PlaceP
    <2>7. QED BY <1>1, <2>3, <2>4, <2>5, <2>6 DEF PlaceP
  <1>14. AloneInv'
    <2>1. \A q \in Peer : peer'[q].st = "connecting" => peer[q].st = "connecting"
      BY <1>10, <1>11 DEF SamePeer
    <2>2. QED BY <2>1 DEF ServeInv, AloneInv
  <1>15. fault' = "none"
    BY <1>1 DEF ServeInv
  <1>16. QED BY <1>4, <1>5, <1>12, <1>13, <1>14, <1>15 DEF ServeInv

(***************************************************************************)
(* What a peer sends: CONNECT when it is idle; I, the answers to our I     *)
(* PDUs, and DISC when it has been told that it is connected.              *)
(***************************************************************************)
LEMMA ServeSpoken ==
    ASSUME TypeInv, TypeInv', ServeInv, NEW q0 \in Peer, NEW pdu \in UpPdu, NEW new,
           PeerSends(q0, pdu, new), pdu.ssap = q0,
           \/ /\ pdu.ptype = "CONNECT" /\ peer[q0].st = "idle" /\ new.st = "connecting"
              /\ \A q \in Peer : peer[q].st # "connecting"
           \/ /\ pdu.ptype \in {"I", "RR", "FRMR"} /\ pdu.dsap = peer[q0].at
              /\ peer[q0].st \in {"open", "broken"}
              /\ new.st = peer[q0].st /\ new.at = peer[q0].at
           \/ /\ pdu.ptype = "DISC" /\ pdu.dsap = peer[q0].at
              /\ peer[q0].st \in {"open", "broken"} /\ new.st = "closing" /\ new.at = peer[q0].at
    PROVE  ServeInv'
  <1>1. /\ llcUp' = Append(llcUp, pdu)
        /\ UNCHANGED <<handler, conn, thr, pc, slot, cur, out, llcDown, fault>>
    BY DEF PeerSends, engine
  <1>2. peer'[q0] = new /\ \A q \in Peer : q # q0 => SamePeer(q)
    <2>1. peer' = [peer EXCEPT ![q0] = new] /\ peer \in [Peer -> PeerType]
      BY DEF PeerSends, TypeInv, PeersOK
    <2>2. QED BY <2>1 DEF SamePeer
  <1>3. /\ Len(llcUp) \in Nat /\ Len(llcUp') = Len(llcUp) + 1
        /\ \A j \in 1..Len(llcUp) : llcUp'[j] = llcUp[j]
        /\ llcUp'[Len(llcUp) + 1] = pdu
        /\ \A j \in 1..Len(llcUp') : j \in 1..Len(llcUp) \/ j = Len(llcUp) + 1
    <2>1. Len(llcUp) \in Nat /\ llcUp \in Seq(UpPdu)
      BY Lengths
    <2>2. QED BY <1>1, <2>1
  <1>4. \A d \in Conn : (Marking(d)' <=> Marking(d)) /\ (Slaying(d)' <=> Slaying(d))
    BY <1>1 DEF Marking, Slaying
  <1>5. /\ ConnsInv' /\ ThreadsInv'
        /\ \A q : SameHolds(q) /\ SameHome(q) /\ (Homeless(q)' <=> Homeless(q))
        /\ \A i \in Slot : \A q : Holds(i, q)' <=> Holds(i, q)
        /\ \A d \in Conn : /\ Opening(d)' <=> Opening(d)
                           /\ Settled(d)' <=> Settled(d)
                           /\ \A q : Home(d, q)' <=> Home(d, q)
    BY <1>1, <1>4, Standing
  <1>6. UpInv'
    <2>1. ASSUME NEW j \in 1..Len(llcUp') PROVE UpTyped(j)'
      <3>1. CASE j \in 1..Len(llcUp)
        BY <1>3, <3>1 DEF ServeInv, UpInv, UpTyped
      <3>2. CASE j = Len(llcUp) + 1
        BY <1>3, <3>2 DEF UpTyped, Session
      <3>3. QED BY <1>3, <3>1, <3>2
    <2>2. QED BY <2>1 DEF UpInv
  <1>7. \A q : /\ DownOnly(q, 0) /\ SameOut(q) /\ (Unsaid(q)' <=> Unsaid(q))
               /\ Unanswered(q)' <=> Unanswered(q)
    BY <1>1, QueueStill DEF SameOut, Unsaid, Unanswered, IsAnswer
  <1>8. ASSUME NEW q \in Peer, q # q0 PROVE Elsewhere(q, 0, 0)
    <2>1. UpOnly(q, 0)
      <3>1. \A j \in 1..Len(llcUp') : /\ j + 0 <= Len(llcUp) => j \in 1..Len(llcUp)
                                      /\ j + 0 > Len(llcUp) => j = Len(llcUp) + 1
        BY <1>3
      <3>2. QED BY <1>3, <1>8, <3>1 DEF UpOnly
    <2>2. QED BY <1>2, <1>5, <1>7, <1>8, <2>1 DEF Elsewhere
  <1>9. PeerInv(q0) /\ Unanswered(q0)
    <2>1. PeerInv(q0)
      BY DEF ServeInv, PeersInv
    <2>2. peer[q0].st \in {"idle", "open", "broken"}
      OBVIOUS
    <2>3. QED BY <2>1, <2>2, AnsweredPeer
  <1>10. Unanswered(q0)' /\ Unsaid(q0)' /\ ~IsAnswer(out', q0)
    BY <1>7, <1>9 DEF Unanswered
  <1>11. OutP(q0)' /\ \A j \in 1..Len(llcDown') : DownP(j, q0)'
    BY <1>10 DEF OutP, DownP, Unsaid
  <1>12. PeerInv(q0)'
    <2>1. ASSUME pdu.ptype = "CONNECT" PROVE PeerInv(q0)'
      <3>1. peer[q0].st = "idle" /\ peer'[q0].st = "connecting"
        BY <1>2, <2>1
      <3>2. Homeless(q0)
        BY <1>9, <3>1 DEF PeerInv, HomeP, Homeless
      <3>3. Silent(q0)
        <4>1. ASSUME NEW j \in 1..Len(llcUp) PROVE llcUp[j].ssap # q0
          <5>1. UpP(j, q0) /\ UpTyped(j)
            BY <1>9 DEF PeerInv, ServeInv, UpInv
          <5>2. QED BY <3>1, <5>1 DEF UpP, UpTyped
        <4>2. QED BY <4>1 DEF Silent
      <3>4. \A c \in Conn : HomeP(c, q0)'
        BY <1>5, <3>2 DEF HomeP, Homeless
      <3>5. \A k \in 1..Len(llcUp') : llcUp'[k].ssap = q0 => k = Len(llcUp) + 1
        BY <1>3, <3>3 DEF Silent
      <3>6. ASSUME NEW j \in 1..Len(llcUp') PROVE UpP(j, q0)'
        <4> SUFFICES ASSUME llcUp'[j].ssap = q0 PROVE UpP(j, q0)'
          BY DEF UpP
        <4>1. j = Len(llcUp) + 1 /\ llcUp'[j].ptype = "CONNECT"
          BY <1>3, <2>1, <3>5
        <4>2. Homeless(q0)'
          BY <1>5, <3>2
        <4>3. QED BY <1>10, <3>1, <3>5, <4>1, <4>2 DEF UpP, Session
      <3>7. QED BY <1>11, <3>1, <3>4, <3>6 DEF PeerInv
    <2>2. ASSUME pdu.ptype \in Session PROVE PeerInv(q0)'
      <3>1. /\ peer[q0].st \in {"open", "broken"} /\ pdu.dsap = peer[q0].at
            /\ peer'[q0].at = peer[q0].at
            /\ pdu.ptype # "DISC" => peer'[q0].st \in {"open", "broken"}
            /\ pdu.ptype = "DISC" => peer'[q0].st = "closing"
        BY <1>2, <2>2 DEF Session
      <3>2. Served(q0)'
        BY <1>5, <1>9, <3>1 DEF PeerInv, Served
      <3>3. ASSUME NEW c \in Conn PROVE HomeP(c, q0)'
        <4>1. HomeP(c, q0)
          BY <1>9 DEF PeerInv
        <4>2. peer'[q0].st # "idle"
          BY <2>2, <3>1
        <4>3. Home(c, q0) => ~Opening(c)
          BY <3>1, <4>1 DEF HomeP
        <4>4. QED BY <1>5, <4>1, <4>2, <4>3 DEF HomeP
      <3>4. \A j \in 1..Len(llcUp) : llcUp[j].ssap = q0 => llcUp[j].ptype \in Session \ {"DISC"}
        <4>1. ASSUME NEW j \in 1..Len(llcUp), llcUp[j].ssap = q0
             PROVE  llcUp[j].ptype \in Session \ {"DISC"}
          <5>1. UpP(j, q0) /\ UpTyped(j)
            BY <1>9 DEF PeerInv, ServeInv, UpInv
          <5>2. QED BY <3>1, <4>1, <5>1 DEF UpP, UpTyped
        <4>2. QED BY <4>1
      <3>5. ASSUME NEW j \in 1..Len(llcUp') PROVE UpP(j, q0)'
        <4> SUFFICES ASSUME llcUp'[j].ssap = q0 PROVE UpP(j, q0)'
          BY DEF UpP
        <4>1. CASE j \in 1..Len(llcUp)
          <5>1. llcUp'[j] = llcUp[j] /\ llcUp[j].ptype \in Session \ {"DISC"} /\ UpP(j, q0)
            BY <1>3, <1>9, <3>4, <4>1 DEF PeerInv
          <5>2. QED BY <2>2, <3>1, <3>2, <5>1 DEF UpP, Session
        <4>2. CASE j = Len(llcUp) + 1
          <5>1. llcUp'[j] = pdu
            BY <1>3, <4>2
          <5>2. \A k \in 1..Len(llcUp') : ~(k > j)
            BY <1>3, <4>2
          <5>3. QED BY <1>10, <2>2, <3>1, <3>2, <5>1, <5>2 DEF UpP, Session
        <4>3. QED BY <1>3, <4>1, <4>2
      <3>6. QED BY <1>10, <1>11, <3>2, <3>3, <3>5 DEF PeerInv
    <2>3. QED BY <2>1, <2>2 DEF Session
  <1>13. PeersInv'
    BY <1>8, <1>12, PeersExcept
  <1>14. PlaceP'
    <2>1. PlaceP
      BY DEF ServeInv
    <2>2. pc = "spawned" => \E c \in Conn, q \in Peer :
          /\ handler[slot] = c /\ cur = c /\ Home(c, q)' /\ conn[c].status = "ACCEPTED"
          /\ conn[c].thread # 0 /\ Unsaid(q)'
          /\ out = [ptype |-> "CC", dsap |-> q, ssap |-> slot]
      BY <1>5, <1>7, <2>1 DEF PlaceP
    <2>3. ASSUME pc = "slayDisc"
          PROVE \E c \in Conn, q \in Peer :
            /\ handler[slot] = c /\ Home(c, q)' /\ Settled(c)'
            /\ peer'[q].st = "closing" /\ Unsaid(q)' /\ out = Dm(q, slot)
      <3>1. PICK c \in Conn, q \in Peer :
              /\ handler[slot] = c /\ Home(c, q) /\ Settled(c)
              /\ peer[q].st = "closing" /\ Unsaid(q) /\ out = Dm(q, slot)
        BY <2>1, <2>3 DEF PlaceP
      <3>2. peer'[q].st = "closing"
        BY <1>2, <3>1 DEF SamePeer
      <3>3. QED BY <1>5, <1>7, <3>1, <3>2
    <2>4. pc = "deliver" => \E c \in Conn : handler[slot] = c /\ Settled(c)'
      BY <1>5, <2>1 DEF PlaceP
    <2>5. pc # "slayDm"
      BY <2>1 DEF PlaceP
    <2>6. QED BY <1>1, <2>2, <2>3, <2>4, <2>5 DEF PlaceP
  <1>15. AloneInv'
    <2>1. CASE \A q \in Peer : peer[q].st # "connecting"
      BY <1>2, <2>1 DEF AloneInv, SamePeer
    <2>2. CASE peer'[q0].st # "connecting"
      BY <1>2, <2>2 DEF ServeInv, AloneInv, SamePeer
    <2>3. QED BY <1>2, <2>1, <2>2
  <1>16. fault' = "none"
    BY <1>1 DEF ServeInv
  <1>17. QED BY <1>5, <1>6, <1>13, <1>14, <1>15, <1>16 DEF ServeInv

LEMMA ServePeer ==
    ASSUME TypeInv, TypeInv', ServeInv, Serving, NEW q \in Peer,
           PeerConnect(q) \/ PeerData(q) \/ PeerAck(q) \/ PeerClose(q) \/ PeerDrop(q)
    PROVE  ServeInv'
  <1>1. PeersOK
    BY DEF TypeInv
  <1>2. ASSUME PeerConnect(q) PROVE ServeInv'
    <2>1. ASSUME NEW r \in Peer, peer[r].st = "connecting" PROVE FALSE
      <3>1. {s \in Peer : peer[s].st = "connecting"} = {r}
        BY <2>1 DEF ServeInv, AloneInv
      <3>2. Pending = 1
        BY <3>1, FS_Singleton DEF Pending
      <3>3. QED BY <1>2, <3>2 DEF PeerConnect, Serving
    <2>2. PICK i \in Target :
            PeerSends(q, [ptype |-> "CONNECT", dsap |-> i, ssap |-> q],
                      [NoPeer EXCEPT !.st = "connecting"])
      BY <1>2 DEF PeerConnect
    <2> DEFINE pdu == [ptype |-> "CONNECT", dsap |-> i, ssap |-> q]
               new == [NoPeer EXCEPT !.st = "connecting"]
    <2>3. pdu \in UpPdu
      BY SapAssumption DEF UpPdu, Remotes
    <2>4. pdu.ptype = "CONNECT" /\ pdu.ssap = q /\ new.st = "connecting"
      BY AskingType
    <2>5. PeerSends(q, pdu, new)
      BY <2>2
    <2>6. peer[q].st = "idle"
      BY <1>2 DEF PeerConnect
    <2> HIDE DEF pdu, new
    <2>7. QED BY <2>1, <2>3, <2>4, <2>5, <2>6, ServeSpoken
  <1>3. ASSUME PeerData(q) PROVE ServeInv'
    <2> DEFINE pdu == [ptype |-> "I", dsap |-> peer[q].at, ssap |-> q, nr |-> peer[q].vr]
               new == [peer[q] EXCEPT !.unacked = TRUE, !.vs = NextNo(@), !.owes = "none"]
    <2>1. PeerSends(q, pdu, new) /\ peer[q].st = "open" /\ peer[q] \in PeerType
      BY <1>1, <1>3 DEF PeerData, PeersOK
    <2>2. pdu \in UpPdu
      BY <1>1, <2>1 DEF PeersOK, UpPdu, Remotes, PeerType
    <2>3. /\ pdu.ptype = "I" /\ pdu.dsap = peer[q].at /\ pdu.ssap = q
          /\ new.st = peer[q].st /\ new.at = peer[q].at
      BY <2>1 DEF PeerType
    <2> HIDE DEF pdu, new
    <2>4. QED BY <2>1, <2>2, <2>3, ServeSpoken
  <1>4. ASSUME PeerAck(q) PROVE ServeInv'
    <2> DEFINE pdu == [ptype |-> peer[q].owes, dsap |-> peer[q].at, ssap |-> q, nr |-> peer[q].vr]
               new == [peer[q] EXCEPT !.owes = "none"]
    <2>1. /\ PeerSends(q, pdu, new) /\ peer[q].st \in {"open", "broken"} /\ peer[q] \in PeerType
          /\ peer[q].owes \in {"RR", "FRMR"}
      BY <1>1, <1>4 DEF PeerAck, PeersOK, PeerType
    <2>2. pdu \in UpPdu
      BY <1>1, <2>1 DEF PeersOK, UpPdu, Remotes, PeerType
    <2>3. /\ pdu.ptype \in {"RR", "FRMR"} /\ pdu.dsap = peer[q].at /\ pdu.ssap = q
          /\ new.st = peer[q].st /\ new.at = peer[q].at
      BY <2>1 DEF PeerType
    <2> HIDE DEF pdu, new
    <2>4. QED BY <2>1, <2>2, <2>3, ServeSpoken
  <1>5. ASSUME PeerClose(q) PROVE ServeInv'
    <2> DEFINE pdu == [ptype |-> "DISC", dsap |-> peer[q].at, ssap |-> q]
               new == [peer[q] EXCEPT !.st = "closing", !.owes = "none"]
    <2>1. PeerSends(q, pdu, new) /\ peer[q].st \in {"open", "broken"} /\ peer[q] \in PeerType
      BY <1>1, <1>5 DEF PeerClose, PeersOK
    <2>2. pdu \in UpPdu
      BY <1>1, <2>1 DEF PeersOK, UpPdu, Remotes
    <2>3. /\ pdu.ptype = "DISC" /\ pdu.dsap = peer[q].at /\ pdu.ssap = q
          /\ new.st = "closing" /\ new.at = peer[q].at
      BY <2>1 DEF PeerType
    <2> HIDE DEF pdu, new
    <2>4. QED BY <2>1, <2>2, <2>3, ServeSpoken
  <1>6. ~PeerDrop(q)
    BY DEF PeerDrop, Serving
  <1>7. QED BY <1>2, <1>3, <1>4, <1>5, <1>6

(***************************************************************************)
(* What cannot happen: no PDU without a handler or a thread to cancel, and *)
(* no dangling `connection`.                                               *)
(***************************************************************************)
LEMMA NeverFails ==
    ASSUME TypeInv, ServeInv, SlotTable
    PROVE  ~ReceiveFails /\ ~ReceiveDm /\ ~ReceiveCc /\ ~FinishDm /\ ~VisitDangling
  <1>1. ASSUME NEW type, Take(type) PROVE type \in Session \cup {"CONNECT"}
    <2>1. 1 \in 1..Len(llcUp) /\ Pdu = llcUp[1] /\ Pdu.ptype = type
      BY <1>1, TakeUp DEF ServeInv
    <2>2. QED BY <2>1 DEF ServeInv, UpInv, UpTyped
  <1>2. ~ReceiveDm /\ ~ReceiveCc
    BY <1>1 DEF ReceiveDm, ReceiveCc, Session
  <1>3. ~FinishDm
    BY DEF FinishDm, Slain, ServeInv, PlaceP
  <1>4. ~ReceiveFails
    <2> SUFFICES ASSUME ReceiveFails PROVE FALSE
      OBVIOUS
    <2>1. llcUp # <<>> /\ (NoHandler \/ NoVictim)
      BY DEF ReceiveFails
    <2>2. 1 \in 1..Len(llcUp) /\ Pdu = llcUp[1]
      BY <2>1, Lengths DEF Pdu
    <2>3. PICK q \in Peer : Pdu.ssap = q /\ Pdu.ptype \in Session \cup {"CONNECT"}
      BY <2>2 DEF ServeInv, UpInv, UpTyped
    <2>4. UpP(1, q)
      BY <2>2 DEF ServeInv, PeersInv, PeerInv
    <2>5. Pdu.ptype \in Session
      BY <2>1, <2>3 DEF NoHandler, NoVictim
    <2>6. PICK c \in Conn : handler[Pdu.dsap] = c /\ Home(c, q) /\ Settled(c)
      BY <2>2, <2>3, <2>4, <2>5 DEF UpP, Served, Holds
    <2>7. conn[c].thread # 0 /\ c # 0
      BY <2>6, Numbers DEF ServeInv, ConnsInv, LifeP, Home, Conn
    <2>8. QED BY <2>1, <2>6, <2>7 DEF NoHandler, NoVictim
  <1>5. ~VisitDangling
    <2> SUFFICES ASSUME VisitDangling PROVE FALSE
      OBVIOUS
    <2>1. /\ handler[slot] # 0 /\ conn[handler[slot]].thread = 0 /\ ~Usable(cur)
      BY DEF VisitDangling, Visited, Quiet
    <2>2. PICK v \in Conn : handler[slot] = v
      BY <2>1, HandlerType DEF TypeInv, EngineOK
    <2>3. Live(v) /\ LifeP(v)
      BY <2>1, <2>2 DEF SlotTable, Live, TypeInv, EngineOK, ServeInv, ConnsInv
    <2>4. cur = v
      BY <2>1, <2>2, <2>3 DEF LifeP
    <2>5. QED BY <2>1, <2>2, <2>3, <2>4 DEF Usable, Live
  <1>6. QED BY <1>2, <1>3, <1>4, <1>5

LEMMA NoClient ==
    ASSUME TypeInv, Serving
    PROVE  ~Client /\ ~PeerAnswer
  <1>1. Outgoing \notin Slot
    BY Numbers DEF Serving, Slot
  <1>2. ~Client
    BY <1>1 DEF Client, Connect, Reset, Wait, Join, TypeInv, MainOK
  <1>3. ~PeerAnswer
    <2>1. ASSUME PeerAnswer PROVE FALSE
      <3>1. llcDown # <<>> /\ Head(llcDown).ptype = "CONNECT"
        BY <2>1 DEF PeerAnswer
      <3>2. Head(llcDown) \in DownPdu
        BY <3>1, Lengths
      <3>3. QED BY <1>1, <3>1, <3>2 DEF DownPdu, EnginePdu, DataPdu, ClientPdu
    <2>2. QED BY <2>1
  <1>4. QED BY <1>2, <1>3

LEMMA ServeNext ==
    ASSUME TypeInv, TypeInv', ServeInv, SlotTable, Serving, [Next]_vars
    PROVE  ServeInv' /\ Arrowed
  <1>1. conn' = conn => Arrowed
    BY DEF Arrowed, Phase
  <1>2. ASSUME Dispatch PROVE ServeInv' /\ Arrowed
    <2>1. ConnectUnbound \/ ConnectNoSlot \/ ReceiveDisc => conn' = conn
      BY DEF ConnectUnbound, ConnectNoSlot, ReceiveDisc
    <2>2. QED BY <1>1, <1>2, <2>1, CalmDispatch, ServeRefuse, ServeSpawn, ServeDisc, ServeFinish,
                 NeverFails DEF Dispatch
  <1>3. ASSUME Sweep PROVE ServeInv' /\ Arrowed
    <2>1. UNCHANGED <<llcUp, llcDown, peer, fault>> /\ ~VisitDangling
      BY <1>3, NeverFails DEF Sweep
    <2>2. QED BY <1>3, <2>1, CalmSweep, ServeEstablished, ServeMarked, ServeEnded DEF Sweep
  <1>4. ASSUME HandOver \/ Remote \/ \E q \in Peer : PeerConnect(q) \/ PeerData(q)
                                                         \/ PeerAck(q) \/ PeerClose(q) \/ PeerDrop(q)
        PROVE  ServeInv' /\ Arrowed
    <2>1. conn' = conn
      BY <1>4 DEF HandOver, Remote, PeerReceive, PeerAnswer, PeerConnect, PeerData, PeerAck, PeerClose,
                  PeerDrop, PeerSends
    <2>2. QED BY <1>1, <1>4, <2>1, ServeHandOver, ServeReceived, ServePeer, NoClient DEF Remote
  <1>5. ASSUME UNCHANGED vars PROVE ServeInv' /\ Arrowed
    <2>1. ConnsInv' /\ ThreadsInv' /\ UpInv' /\ PlaceP' /\ AloneInv' /\ fault' = "none"
      BY <1>5 DEF vars, engine, ServeInv, ConnsInv, LifeP, OwnThreadP, Live, Opening, Settled,
                  ThreadsInv, ThreadP, LabelP, Runs, Active, On, Marking, Slaying, UpInv, UpTyped,
                  PlaceP, Home, Unsaid, IsAnswer, AloneInv
    <2>2. PeersInv'
      BY <1>5 DEF vars, engine, ServeInv, PeersInv, PeerInv, HomeP, UpP, DownP, OutP, Served,
                  Holds, Silent, Unanswered, Unsaid, IsAnswer, Homeless, Home, Live, Opening,
                  Settled, Marking
    <2>3. conn' = conn
      BY <1>5 DEF vars
    <2>4. QED BY <1>1, <2>1, <2>2, <2>3 DEF ServeInv
  <1>6. ASSUME NEW t \in Thread, Run(t) PROVE ServeInv' /\ Arrowed
    BY <1>6, ServeRun
  <1>7. ~Client
    BY NoClient
  <1>8. QED BY <1>2, <1>3, <1>4, <1>5, <1>6, <1>7 DEF Next, Steps, Engine

LEMMA ServeInit == ASSUME Serving, Init PROVE ServeInv
  <1>1. /\ \A c \in Conn : conn[c] = Freed
        /\ \A t \in Thread : thr[t] = NoThread
        /\ \A q \in Peer : peer[q] = NoPeer
        /\ pc = "recv" /\ out = None /\ llcUp = <<>> /\ llcDown = <<>> /\ fault = "none"
    BY DEF Init, Serving
  <1>2. Len(<<>>) = 0
    BY EmptySeq
  <1>3. \A c \in Conn : conn[c].life = "freed" /\ conn[c].thread = 0
    BY <1>1 DEF Freed, NewConn
  <1>4. \A t \in Thread : thr[t].pc = "exited" /\ ~thr[t].cancelled
    BY <1>1 DEF NoThread
  <1>5. \A q \in Peer : peer[q].st = "idle"
    BY <1>1 DEF NoPeer
  <1>6. ConnsInv
    BY <1>3 DEF ConnsInv, LifeP, OwnThreadP, Live
  <1>7. ThreadsInv
    BY <1>4 DEF ThreadsInv, ThreadP, Active, Runs
  <1>8. UpInv /\ PlaceP /\ AloneInv
    BY <1>1, <1>2, <1>5 DEF UpInv, PlaceP, AloneInv
  <1>9. PeersInv
    <2>1. \A q \in Peer, c \in Conn : HomeP(c, q)
      BY <1>3 DEF HomeP, Home, Live
    <2>2. \A q \in Peer : OutP(q)
      BY <1>1 DEF OutP, IsAnswer, None
    <2>3. QED BY <1>1, <1>2, <1>5, <2>1, <2>2 DEF PeersInv, PeerInv
  <1>10. QED BY <1>1, <1>6, <1>7, <1>8, <1>9 DEF ServeInv

\* The three invariants together.
LEMMA ServeSpec ==
    ASSUME Serving
    PROVE  Spec => [](TypeInv /\ SlotTable /\ ServeInv) /\ [][Arrowed]_vars
  <1>1. Outgoing = 0
    BY DEF Serving
  <1>2. Init => TypeInv /\ TableInv /\ ServeInv
    BY TypeInit, TableInit, ServeInit
  <1>3. ASSUME TypeInv, TableInv, ServeInv, [Next]_vars
        PROVE  TypeInv' /\ TableInv' /\ ServeInv' /\ Arrowed
    <2>1. TypeInv' /\ TableInv' /\ SlotTable
      BY <1>1, <1>3, TypeNext, TableNext DEF TableInv
    <2>2. QED BY <1>3, <2>1, ServeNext
  <1>4. TypeInv /\ TableInv /\ ServeInv /\ [Next]_vars => TypeInv' /\ TableInv' /\ ServeInv'
    BY <1>3
  <1>5. TypeInv /\ TableInv /\ ServeInv /\ [Next]_vars => [Arrowed]_vars
    BY <1>3
  <1>6. TableInv => SlotTable
    BY DEF TableInv
  <1>7. QED BY <1>2, <1>4, <1>5, <1>6, PTL DEF Spec

(***************************************************************************)
(* On a link that serves, every thread that runs is the one its connection *)
(* names, and that connection is still allocated: a DISC that arrives      *)
(* while an accept or service thread runs, ends or has just been started   *)
(* never frees the connection under it (llcp_threadslayer, before          *)
(* llc_connection_free).                                                   *)
(***************************************************************************)
THEOREM ThreadsStayReachable ==
    ASSUME Serving
    PROVE  Spec => []ThreadsReachable
  <1>1. ASSUME ServeInv PROVE ThreadsReachable
    <2>1. ASSUME NEW t \in Thread, Active(t)
          PROVE  conn[On(t)].life = "live" /\ conn[On(t)].thread = t
      <3>1. ThreadP(t)
        BY <1>1 DEF ServeInv, ThreadsInv
      <3>2. On(t) \in Conn /\ Runs(t, On(t))
        BY <2>1, <3>1 DEF ThreadP, Runs
      <3>3. QED BY <3>1, <3>2 DEF ThreadP, Live
    <2>2. QED BY <2>1 DEF ThreadsReachable
  <1>2. ServeInv => ThreadsReachable
    BY <1>1
  <1>3. QED BY <1>2, ServeSpec, PTL

(***************************************************************************)
(* Peers that keep to the protocol, and connect one at a time, never bring *)
(* down a process that only serves: no assertion of the services fails, no *)
(* PDU finds its slot empty, the `connection` the sweep uses is never NULL *)
(* nor freed (llc_service_llc.c).                                          *)
(***************************************************************************)
THEOREM NeverCrashes ==
    ASSUME Serving
    PROVE  Spec => []NoCrash
  <1>1. ServeInv => NoCrash
    BY DEF ServeInv, NoCrash
  <1>2. QED BY <1>1, ServeSpec, PTL

(***************************************************************************)
(* A peer that has been told CC has a connection of its own in the slot it *)
(* was told, accepted, with a service thread started for it - although the *)
(* CC goes out under the `connection` of the engine, not the slot's.       *)
(***************************************************************************)
THEOREM OpenPeersAreServed ==
    ASSUME Serving
    PROVE  Spec => []OpenIsServed
  <1>1. ASSUME ServeInv PROVE OpenIsServed
    <2>1. ASSUME NEW q \in Peer, peer[q].st = "open"
          PROVE  /\ handler[peer[q].at] # 0
                 /\ conn[handler[peer[q].at]].remote = q
                 /\ conn[handler[peer[q].at]].status \in {"CONNECTED", "DISCONNECTED"}
                 /\ conn[handler[peer[q].at]].thread # 0
      <3>1. PICK i \in Slot, c \in Conn :
                peer[q].at = i /\ handler[i] = c /\ Home(c, q) /\ Settled(c)
        BY <1>1, <2>1 DEF ServeInv, PeersInv, PeerInv, Served, Holds
      <3>2. LifeP(c) /\ Live(c) /\ conn[c].remote = q
        BY <1>1, <3>1 DEF ServeInv, ConnsInv, Home
      <3>3. QED BY <3>1, <3>2, Numbers DEF LifeP, Settled, Conn
    <2>2. QED BY <2>1 DEF OpenIsServed
  <1>2. ServeInv => OpenIsServed
    BY <1>1
  <1>3. QED BY <1>2, ServeSpec, PTL

(***************************************************************************)
(* Connections follow doc/data-link-connection-status.dot, with the arrows *)
(* the code adds: whatever engine, threads and peers do in between, none   *)
(* is connected that was not accepted, or freed while it is opening        *)
(* (llc_service_llc.c, llc_connection.c).                                  *)
(***************************************************************************)
THEOREM DiagramIsFollowed ==
    ASSUME Serving
    PROVE  Spec => StatusDiagram
  <1>1. ASSUME [Arrowed]_vars
        PROVE  [\A c \in Conn : Phase(c)' # Phase(c) => <<Phase(c), Phase(c)'>> \in Arrows]_conn
    BY <1>1 DEF Arrowed, vars
  <1>2. [Arrowed]_vars =>
          [\A c \in Conn : Phase(c)' # Phase(c) => <<Phase(c), Phase(c)'>> \in Arrows]_conn
    BY <1>1
  <1>3. QED BY <1>2, ServeSpec, PTL DEF StatusDiagram
=============================================================================
