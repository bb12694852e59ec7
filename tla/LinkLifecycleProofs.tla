------------------------- MODULE LinkLifecycleProofs -------------------------
(***************************************************************************)
(* Proofs about LinkLifecycle, for all scenarios: whatever programs meet   *)
(* and whatever happens to them, an activated link has its engine, and a   *)
(* deactivated one leaves nothing behind.                                  *)
(***************************************************************************)
EXTENDS LinkLifecycle, SequenceTheorems, TLAPS

Quiet(pc)  == pc \in {"none", "exited", "report"}
InMac(d)   == at[d] \in {"macdeact", "cancel", "slayio", "drained"}
InLink(d)  == at[d] \in {"slay", "slayeng", "close"}

\* Before activation nothing runs.
Fresh(d) ==
    at[d] \in {"activate", "open"} =>
        /\ status[d] = "off" /\ macLink[d] /\ ~engThread[d] /\ ~names[d]
        /\ upFd[d] = "none" /\ downFd[d] = "none" /\ ~ioThread[d]
        /\ ioPc[d] = "none" /\ engPc[d] = "none" /\ ~engCancelled[d] /\ up[d] = <<>>

\* While it is under way the engine is idle and the exchange has not begun.
Starting(d) ==
    /\ at[d] \in {"mark", "run"} =>
        /\ ioPc[d] = "none" /\ up[d] = <<>> /\ engPc[d] = "recv" /\ ~engCancelled[d]
        /\ names[d] /\ macLink[d] /\ upFd[d] = "open" /\ downFd[d] = "open"
    /\ at[d] \in {"activate", "open", "mark", "run"} => call[d] = "activate"

\* Deactivation, the outer call and the inner one.
Stopping(d) ==
    /\ InMac(d) => macLink[d] /\ call[d] \in {"macdeact", "deactivate", "again"}
    /\ InMac(d) /\ call[d] # "macdeact" => status[d] = "off"
    /\ InLink(d) => status[d] = "off" /\ ~ioThread[d]
    /\ InLink(d) \/ at[d] = "deactivate" => call[d] \in {"deactivate", "again"}
    /\ at[d] = "close" => ~engThread[d]
    /\ at[d] \in {"slayio", "drained"} => names[d]

\* The inner call comes before the MAC link is forgotten, and nothing is
\* deactivated once it has been freed.
MacKnown(d) ==
    /\ call[d] \in {"activate", "connect", "session", "disconnect"} => macLink[d]
    /\ ~macLink[d] /\ call[d] \notin {"macfree", "linkfree", "exit"} => ~ioThread[d]
    /\ at[d] = "macfree" => call[d] = "macfree"
    /\ at[d] = "linkfree" => call[d] = "linkfree"
    /\ at[d] \in {"wait", "join", "joining"} => call[d] = "wait"
    /\ at[d] \in {"connect", "session", "disconnect"} => call[d] = at[d]

\* The fields that name the threads are set while these run.
Named(d) ==
    /\ ~ioThread[d] => Quiet(ioPc[d])
    /\ ~engThread[d] => Ended(engPc[d])
    /\ ioThread[d] => names[d]

\* Who has closed what.
Closing(d) ==
    /\ "closed" \in {upFd[d], downFd[d]} => engPc[d] = "forget"
    /\ engCancelled[d] => status[d] = "off"
    /\ status[d] = "on" =>
            /\ upFd[d] = "open" /\ downFd[d] = "open"
            /\ engPc[d] \in {"recv", "reply", "transmit"} /\ names[d]
    /\ ~names[d] => upFd[d] = "none" /\ downFd[d] = "none" /\ ~engThread[d]
    /\ fault[d] # "closed twice"

DevInv(d) ==
    Fresh(d) /\ Starting(d) /\ Stopping(d) /\ MacKnown(d) /\ Named(d) /\ Closing(d)

Inv == TypeOK /\ \A d \in Dev : DevInv(d)
-----------------------------------------------------------------------------
LEMMA Initially == Init => Inv
<1> SUFFICES ASSUME Init PROVE Inv
  OBVIOUS
<1>1. TypeOK
  BY EmptySeq DEF Init, TypeOK, MainAt, Fault, IoPc, EngPc, Descriptor, Call, NoFrame, MaxMsg, Pdu
<1>2. ASSUME NEW d \in Dev PROVE DevInv(d)
  BY <1>2, ZenonT(60) DEF Init, DevInv, Fresh, Starting, Stopping, MacKnown, Named, Closing, InMac, InLink,
     Quiet, Ended
<1> QED
  BY <1>1, <1>2 DEF Inv

\* A device of which nothing changes keeps its part of the invariant.
Same(e) ==
    UNCHANGED <<call[e], at[e], status[e], macLink[e], engThread[e], upFd[e], downFd[e], names[e],
                ioThread[e], ioPc[e], engPc[e], engCancelled[e], up[e], fault[e]>>

LEMMA Untouched == ASSUME NEW e \in Dev, DevInv(e), Same(e) PROVE DevInv(e)'
<1>1. Fresh(e)'
  BY DEF Same, DevInv, Fresh
<1>2. Starting(e)'
  BY DEF Same, DevInv, Starting
<1>3. Stopping(e)'
  BY DEF Same, DevInv, Stopping, InMac, InLink
<1>4. MacKnown(e)'
  BY DEF Same, DevInv, MacKnown
<1>5. Named(e)'
  BY DEF Same, DevInv, Named, Quiet, Ended
<1>6. Closing(e)'
  BY DEF Same, DevInv, Closing
<1> QED
  BY <1>1, <1>2, <1>3, <1>4, <1>5, <1>6 DEF DevInv

\* The action of one device leaves the other's part alone.
LEMMA Combine ==
    ASSUME Inv, NEW d \in Dev, TypeOK', DevInv(d)',
           \A e \in Dev : e # d => Same(e)
    PROVE  Inv'
  BY Untouched DEF Inv

\* What a program does next.
LEMMA AfterCall ==
    ASSUME NEW p \in Program, NEW c \in Call
    PROVE  /\ After(p, c) \in Call \ {"activate"}
           /\ c = "activate" => After(p, c) \in {"connect", "wait", "session"}
           /\ c = "connect" => After(p, c) = "session"
           /\ c = "session" => After(p, c) \in {"deactivate", "disconnect", "macdeact"}
           /\ c = "disconnect" => After(p, c) = "deactivate"
           /\ c = "deactivate" => After(p, c) \in {"again", "macfree"}
           /\ c = "again" => After(p, c) = "wait"
           /\ c \in {"wait", "macdeact"} => After(p, c) = "macfree"
           /\ c = "macfree" => After(p, c) = "linkfree"
           /\ c \in {"linkfree", "exit"} => After(p, c) = "exit"
  BY DEF After, Program, Call

LEMMA Returning ==
    ASSUME Inv, NEW d \in Dev, Return(d)
    PROVE  /\ call' \in [Dev -> Call] /\ call'[d] # "activate"
           /\ at'[d] \in {"connect", "session", "disconnect", "deactivate", "wait", "macdeact",
                         "macfree", "linkfree", "exit"}
           /\ at'[d] = call'[d] \/ (at'[d] = "deactivate" /\ call'[d] = "again")
           /\ at' \in [Dev -> MainAt] /\ UNCHANGED scenario
           /\ \A e \in Dev : e # d => call'[e] = call[e] /\ at'[e] = at[e]
           /\ call[d] = "activate" => call'[d] \in {"connect", "wait", "session"}
           /\ call[d] = "connect" => call'[d] = "session"
           /\ call[d] = "session" => call'[d] \in {"deactivate", "disconnect", "macdeact"}
           /\ call[d] = "disconnect" => call'[d] = "deactivate"
           /\ call[d] = "deactivate" => call'[d] \in {"again", "macfree"}
           /\ call[d] = "again" => call'[d] = "wait"
           /\ call[d] \in {"wait", "macdeact"} => call'[d] = "macfree"
           /\ call[d] = "macfree" => call'[d] = "linkfree"
           /\ call[d] \in {"linkfree", "exit"} => call'[d] = "exit"
<1>1. scenario.run[d] \in Program /\ call[d] \in Call
  BY ScenarioAssumption DEF Inv, TypeOK
<1>2. DEFINE c == After(scenario.run[d], call[d])
<1>3. c \in Call /\ c # "activate"
  BY <1>1, AfterCall
<1>4. /\ Entry(c) \in MainAt
      /\ Entry(c) \in {"connect", "session", "disconnect", "deactivate", "wait", "macdeact",
                       "macfree", "linkfree", "exit"}
      /\ Entry(c) = c \/ (Entry(c) = "deactivate" /\ c = "again")
  BY <1>3 DEF Entry, Call, MainAt
<1>5. call' = [call EXCEPT ![d] = c] /\ at' = [at EXCEPT ![d] = Entry(c)] /\ UNCHANGED scenario
  BY DEF Return
<1> HIDE DEF c
<1>6. /\ call' \in [Dev -> Call] /\ call'[d] = c /\ at'[d] = Entry(c) /\ at' \in [Dev -> MainAt]
      /\ \A e \in Dev : e # d => call'[e] = call[e] /\ at'[e] = at[e]
  BY <1>3, <1>4, <1>5 DEF Inv, TypeOK
<1> QED
  BY <1>1, <1>3, <1>4, <1>5, <1>6, AfterCall DEF c

LEMMA MaxMsgPositive == 0 <= MaxMsg
  BY DEF MaxMsg

\* A process that is gone keeps nothing.
LEMMA Vanished ==
    ASSUME Inv, NEW d \in Dev, Vanish(d), fault' \in [Dev -> Fault], fault'[d] # "closed twice",
           \A e \in Dev : e # d => fault'[e] = fault[e]
    PROVE  Inv'
<1>0. TypeOK
  BY DEF Inv
<1>1. TypeOK'
  <2>1. at' \in [Dev -> MainAt] /\ call' \in [Dev -> Call] /\ scenario' \in Scenarios
    BY <1>0 DEF TypeOK, Vanish, Goto, MainAt
  <2>2. /\ status' \in [Dev -> {"off", "on"}] /\ macLink' \in [Dev -> BOOLEAN]
        /\ engThread' \in [Dev -> BOOLEAN] /\ names' \in [Dev -> BOOLEAN]
    BY <1>0 DEF TypeOK, Vanish
  <2>3. /\ upFd' \in [Dev -> Descriptor] /\ downFd' \in [Dev -> Descriptor]
        /\ linkFreed' \in [Dev -> BOOLEAN] /\ ioThread' \in [Dev -> BOOLEAN] /\ macFreed' \in [Dev -> BOOLEAN]
    BY <1>0 DEF TypeOK, Vanish, Descriptor
  <2>4. /\ ioPc' \in [Dev -> IoPc] /\ engPc' \in [Dev -> EngPc]
        /\ ioCancelled' \in [Dev -> BOOLEAN] /\ engCancelled' \in [Dev -> BOOLEAN]
    BY <1>0 DEF TypeOK, Vanish, IoPc, EngPc
  <2>5. <<>> \in Seq(Pdu) /\ Len(<<>>) = 0
    BY EmptySeq
  <2>6. /\ up' \in [Dev -> Seq(Pdu)] /\ down' \in [Dev -> Seq(Pdu)]
        /\ \A e \in Dev : Len(up'[e]) <= MaxMsg /\ Len(down'[e]) <= MaxMsg
    <3>1. \A e \in Dev : up'[e] \in {<<>>, up[e]} /\ down'[e] \in {<<>>, down[e]}
      BY <1>0 DEF TypeOK, Vanish
    <3>2. up' \in [Dev -> Seq(Pdu)] /\ down' \in [Dev -> Seq(Pdu)]
      BY <1>0, <2>5 DEF TypeOK, Vanish
    <3>3. \A e \in Dev : Len(up'[e]) <= MaxMsg /\ Len(down'[e]) <= MaxMsg
      <4> TAKE e \in Dev
      <4>1. Len(up[e]) <= MaxMsg /\ Len(down[e]) <= MaxMsg
        BY <1>0 DEF TypeOK
      <4> QED
        BY <2>5, <3>1, <4>1, MaxMsgPositive
    <3> QED
      BY <3>2, <3>3
  <2>7. air' \in [Dev -> Pdu \cup {NoFrame}] /\ field' \in {"off", "on", "gone"}
    BY DEF Vanish
  <2> QED
    BY <1>0, <2>1, <2>2, <2>3, <2>4, <2>5, <2>6, <2>7 DEF TypeOK
<1>2. DevInv(d)'
  BY <1>0, ZenonT(60) DEF TypeOK, Vanish, Goto, DevInv, Fresh, Starting, Stopping, MacKnown, Named, Closing,
     InMac, InLink, Quiet, Ended
<1>3. ASSUME NEW e \in Dev, e # d PROVE Same(e)
  <2>1. UNCHANGED <<call[e], at[e], status[e], macLink[e], engThread[e], upFd[e], downFd[e], names[e]>>
    BY <1>0, <1>3 DEF TypeOK, Vanish, Goto
  <2>2. UNCHANGED <<ioThread[e], ioPc[e], engPc[e], engCancelled[e]>>
    BY <1>0, <1>3 DEF TypeOK, Vanish
  <2>3. UNCHANGED <<up[e], fault[e]>>
    BY <1>0, <1>3 DEF TypeOK, Vanish
  <2> QED
    BY <2>1, <2>2, <2>3 DEF Same
<1> QED
  BY <1>1, <1>2, <1>3, Combine

\* A call that returns while nothing but llc_down may have changed.
LEMMA Returns ==
    ASSUME Inv, NEW d \in Dev, Return(d), UNCHANGED <<link, mac, io, eng, up, air, field, fault>>,
           down' \in [Dev -> Seq(Pdu)], \A e \in Dev : Len(down'[e]) <= MaxMsg
    PROVE  Inv'
<1>1. TypeOK'
  BY Returning DEF Inv, TypeOK, link, mac, io, eng
<1>9. call[d] \in Call
  BY DEF Inv, TypeOK
<1>0. /\ UNCHANGED <<status[d], macLink[d], engThread[d], upFd[d], downFd[d], names[d], ioThread[d],
                      ioPc[d], engPc[d], engCancelled[d], up[d], fault[d]>>
  BY DEF link, mac, io, eng
<1>2. DevInv(d)'
  <2>1. Fresh(d)'
    BY <1>0, Returning DEF Inv, DevInv, Fresh
  <2>2. Starting(d)'
    BY <1>0, Returning DEF Inv, DevInv, Starting
  <2>3. Stopping(d)'
    BY <1>0, <1>9, Returning DEF Inv, Call, DevInv, Stopping, MacKnown, InMac, InLink
  <2>4. MacKnown(d)'
    BY <1>0, <1>9, Returning DEF Inv, Call, DevInv, MacKnown, Named
  <2>5. Named(d)'
    BY <1>0, Returning DEF Inv, DevInv, Named, Quiet, Ended
  <2>6. Closing(d)'
    BY <1>0, Returning DEF Inv, DevInv, Closing
  <2> QED
    BY <2>1, <2>2, <2>3, <2>4, <2>5, <2>6 DEF DevInv
<1>3. \A e \in Dev : e # d => Same(e)
  BY Returning DEF Inv, TypeOK, link, mac, io, eng, Same
<1> QED
  BY <1>1, <1>2, <1>3, Combine

\* The message queues.
LEMMA Put ==
    ASSUME NEW q \in [Dev -> Seq(Pdu)], NEW d \in Dev, NEW pdu \in Pdu,
           \A e \in Dev : Len(q[e]) <= MaxMsg, Len(q[d]) < MaxMsg
    PROVE  /\ [q EXCEPT ![d] = Append(q[d], pdu)] \in [Dev -> Seq(Pdu)]
           /\ \A e \in Dev : Len([q EXCEPT ![d] = Append(q[d], pdu)][e]) <= MaxMsg
<1>1. Append(q[d], pdu) \in Seq(Pdu) /\ Len(Append(q[d], pdu)) = Len(q[d]) + 1 /\ Len(q[d]) \in Nat
  BY AppendProperties, LenProperties
<1> QED
  BY <1>1 DEF MaxMsg

LEMMA Take ==
    ASSUME NEW q \in [Dev -> Seq(Pdu)], NEW d \in Dev,
           \A e \in Dev : Len(q[e]) <= MaxMsg, q[d] # <<>>
    PROVE  /\ Head(q[d]) \in Pdu
           /\ [q EXCEPT ![d] = Tail(q[d])] \in [Dev -> Seq(Pdu)]
           /\ \A e \in Dev : Len([q EXCEPT ![d] = Tail(q[d])][e]) <= MaxMsg
<1>1. Head(q[d]) \in Pdu /\ Tail(q[d]) \in Seq(Pdu) /\ Len(Tail(q[d])) = Len(q[d]) - 1 /\ Len(q[d]) \in Nat
  BY HeadTailProperties, LenProperties
<1> QED
  BY <1>1 DEF MaxMsg

LEMMA SendInv == ASSUME Inv, NEW d \in Dev, NEW pdu \in Pdu, SendPdu(d, pdu) PROVE Inv'
<1>1. down' \in [Dev -> Seq(Pdu)] /\ \A e \in Dev : Len(down'[e]) <= MaxMsg
  BY Put DEF Inv, TypeOK, SendPdu
<1> QED
  BY <1>1, Returns DEF SendPdu

(***************************************************************************)
(* One lemma per action: the types, the device's own part of the           *)
(* invariant, and the other device's.                                      *)
(***************************************************************************)
LEMMA ActivateFailsInv == ASSUME Inv, NEW d \in Dev, ActivateFails(d) PROVE Inv'
<1>1. TypeOK'
  BY DEF Inv, TypeOK, ActivateFails, OnlyMain, link, mac, io, eng, Goto, MainAt, Fault, IoPc,
     EngPc, Descriptor, Pdu, NoFrame, MaxMsg
<1>2. DevInv(d)'
  BY ZenonT(60) DEF Inv, TypeOK, ActivateFails, OnlyMain, link, mac, io, eng, Goto, DevInv, Fresh, Starting,
     Stopping, MacKnown, Named, Closing, InMac, InLink, Quiet, Ended
<1>3. \A e \in Dev : e # d => Same(e)
  BY DEF Inv, TypeOK, ActivateFails, OnlyMain, link, mac, io, eng, Goto, Same
<1> QED
  BY <1>1, <1>2, <1>3, Combine

LEMMA PollOtherInv == ASSUME Inv, NEW d \in Dev, PollOther(d) PROVE Inv'
  BY Returns DEF Inv, TypeOK, PollOther, OnlyMain

LEMMA StartEngineInv == ASSUME Inv, NEW d \in Dev, StartEngine(d) PROVE Inv'
<1>1. TypeOK'
  BY DEF Inv, TypeOK, StartEngine, mac, io, Goto, MainAt, Fault, IoPc, EngPc, Descriptor, Pdu,
     NoFrame, MaxMsg
<1>0. call[d] = "activate" /\ macLink[d] /\ ~ioThread[d] /\ Fresh(d)
  BY DEF Inv, StartEngine, DevInv, Starting, Fresh
<1>2. DevInv(d)'
  <2>1. /\ at'[d] = "mark" /\ call'[d] = "activate" /\ status'[d] = "off" /\ macLink'[d]
        /\ engThread'[d] /\ names'[d] /\ upFd'[d] = "open" /\ downFd'[d] = "open" /\ ~ioThread'[d]
        /\ ioPc'[d] = "none" /\ engPc'[d] = "recv" /\ ~engCancelled'[d] /\ up'[d] = <<>>
        /\ fault'[d] # "closed twice"
    BY <1>0 DEF Inv, TypeOK, StartEngine, mac, io, Goto, DevInv, Fresh, Closing
  <2> QED
    BY <2>1, ZenonT(60) DEF DevInv, Fresh, Starting, Stopping, MacKnown, Named, Closing, InMac, InLink, Quiet, Ended
<1>3. \A e \in Dev : e # d => Same(e)
  BY DEF Inv, TypeOK, StartEngine, mac, io, Goto, Same
<1> QED
  BY <1>1, <1>2, <1>3, Combine

LEMMA MarkActivatedInv == ASSUME Inv, NEW d \in Dev, MarkActivated(d) PROVE Inv'
<1>1. TypeOK'
  BY DEF Inv, TypeOK, MarkActivated, mac, io, eng, Goto, MainAt, Fault, IoPc, EngPc, Descriptor,
     Pdu, NoFrame, MaxMsg
<1>2. DevInv(d)'
  BY ZenonT(60) DEF Inv, TypeOK, MarkActivated, mac, io, eng, Goto, DevInv, Fresh, Starting, Stopping,
     MacKnown, Named, Closing, InMac, InLink, Quiet, Ended
<1>3. \A e \in Dev : e # d => Same(e)
  BY DEF Inv, TypeOK, MarkActivated, mac, io, eng, Goto, Same
<1> QED
  BY <1>1, <1>2, <1>3, Combine

LEMMA StartExchangeInv == ASSUME Inv, NEW d \in Dev, StartExchange(d) PROVE Inv'
<1> USE DEF Inv, TypeOK, link, eng, StartExchange
<1>1. TypeOK'
  BY Returning DEF IoPc
<1>2. ioThread'[d] /\ call[d] = "activate" /\ names[d] /\ macLink[d] /\ engPc[d] = "recv" /\ ~engCancelled[d]
  BY DEF DevInv, Starting
<1>3. Fresh(d)' /\ Starting(d)' /\ Closing(d)'
  BY <1>2, Returning DEF DevInv, Fresh, Starting, Closing
<1>4. Stopping(d)' /\ MacKnown(d)' /\ Named(d)'
  BY <1>2, Returning DEF DevInv, Stopping, MacKnown, Named, InMac, InLink, Quiet, Ended
<1>5. \A e \in Dev : e # d => Same(e)
  BY Returning DEF Same
<1> QED
  BY <1>1, <1>3, <1>4, <1>5, Combine DEF DevInv

LEMMA ConnectInv == ASSUME Inv, NEW d \in Dev, Connect(d) PROVE Inv'
<1>1. ASSUME SendPdu(d, "PDU") PROVE Inv'
  BY <1>1, SendInv DEF Pdu
<1>2. ASSUME at[d] = "connect", Goto(d, "exit"), OnlyMain PROVE Inv'
  <2>1. TypeOK'
    BY <1>2 DEF Inv, TypeOK, OnlyMain, link, mac, io, eng, Goto, MainAt
  <2>2. DevInv(d)'
    BY <1>2, ZenonT(60) DEF Inv, TypeOK, OnlyMain, link, mac, io, eng, Goto, DevInv, Fresh, Starting, Stopping,
       MacKnown, Named, Closing, InMac, InLink, Quiet, Ended
  <2>3. \A e \in Dev : e # d => Same(e)
    BY <1>2 DEF Inv, TypeOK, OnlyMain, link, mac, io, eng, Goto, Same
  <2> QED
    BY <2>1, <2>2, <2>3, Combine
<1> QED
  BY <1>1, <1>2 DEF Connect

LEMMA DisconnectInv == ASSUME Inv, NEW d \in Dev, Disconnect(d) PROVE Inv'
<1>1. ASSUME SendPdu(d, "DISC") PROVE Inv'
  BY <1>1, SendInv DEF Pdu
<1>2. ASSUME Return(d), OnlyMain PROVE Inv'
  BY <1>2, Returns DEF Inv, TypeOK, OnlyMain
<1> QED
  BY <1>1, <1>2 DEF Disconnect

LEMMA NotActivatedInv == ASSUME Inv, NEW d \in Dev, NotActivated(d) PROVE Inv'
  BY Vanished DEF Inv, TypeOK, NotActivated, Crash, Fault

LEMMA SessionOverInv == ASSUME Inv, NEW d \in Dev, SessionOver(d) PROVE Inv'
  BY Returns DEF Inv, TypeOK, SessionOver, OnlyMain

LEMMA WaitInv == ASSUME Inv, NEW d \in Dev, Wait(d) PROVE Inv'
<1>1. TypeOK'
  BY DEF Inv, TypeOK, Wait, OnlyMain, link, mac, io, eng, Goto, MainAt, Fault, IoPc, EngPc,
     Descriptor, Pdu, NoFrame, MaxMsg
<1>2. DevInv(d)'
  BY ZenonT(60) DEF Inv, TypeOK, Wait, OnlyMain, link, mac, io, eng, Goto, DevInv, Fresh, Starting, Stopping,
     MacKnown, Named, Closing, InMac, InLink, Quiet, Ended
<1>3. \A e \in Dev : e # d => Same(e)
  BY DEF Inv, TypeOK, Wait, OnlyMain, link, mac, io, eng, Goto, Same
<1> QED
  BY <1>1, <1>2, <1>3, Combine

LEMMA WaitFailsInv == ASSUME Inv, NEW d \in Dev, WaitFails(d) PROVE Inv'
  BY Vanished DEF Inv, TypeOK, WaitFails, Crash, Fault

LEMMA DereferenceInv == ASSUME Inv, NEW d \in Dev, Dereference(d) PROVE Inv'
<1>1. TypeOK'
  BY DEF Inv, TypeOK, Dereference, OnlyMain, link, mac, io, eng, Goto, MainAt, Fault, IoPc, EngPc,
     Descriptor, Pdu, NoFrame, MaxMsg
<1>2. DevInv(d)'
  BY ZenonT(60) DEF Inv, TypeOK, Dereference, OnlyMain, link, mac, io, eng, Goto, DevInv, Fresh, Starting,
     Stopping, MacKnown, Named, Closing, InMac, InLink, Quiet, Ended
<1>3. \A e \in Dev : e # d => Same(e)
  BY DEF Inv, TypeOK, Dereference, OnlyMain, link, mac, io, eng, Goto, Same
<1> QED
  BY <1>1, <1>2, <1>3, Combine

LEMMA JoinedInv == ASSUME Inv, NEW d \in Dev, Joined(d) PROVE Inv'
  BY Returns DEF Inv, TypeOK, Joined, OnlyMain

LEMMA DeactivateInv == ASSUME Inv, NEW d \in Dev, Deactivate(d) PROVE Inv'
<1>1. TypeOK'
  BY DEF Inv, TypeOK, Deactivate, mac, io, eng, Goto, MainAt, Fault, IoPc, EngPc, Descriptor, Pdu,
     NoFrame, MaxMsg
<1>2. DevInv(d)'
  BY ZenonT(60) DEF Inv, TypeOK, Deactivate, mac, io, eng, Goto, DevInv, Fresh, Starting, Stopping, MacKnown,
     Named, Closing, InMac, InLink, Quiet, Ended
<1>3. \A e \in Dev : e # d => Same(e)
  BY DEF Inv, TypeOK, Deactivate, mac, io, eng, Goto, Same
<1> QED
  BY <1>1, <1>2, <1>3, Combine

LEMMA MacStoppedInv == ASSUME Inv, NEW d \in Dev, MacStopped(d) PROVE Inv'
<1>1. ASSUME Return(d), OnlyMain PROVE Inv'
  BY <1>1, Returns DEF Inv, TypeOK, OnlyMain
<1>2. ASSUME at[d] = "macdeact", call[d] # "macdeact", ~ioThread[d], Goto(d, "slay"), OnlyMain PROVE Inv'
  <2>1. TypeOK'
    BY <1>2 DEF Inv, TypeOK, OnlyMain, link, mac, io, eng, Goto, MainAt
  <2>2. DevInv(d)'
    BY <1>2, ZenonT(60) DEF Inv, TypeOK, OnlyMain, link, mac, io, eng, Goto, DevInv, Fresh, Starting, Stopping,
       MacKnown, Named, Closing, InMac, InLink, Quiet, Ended
  <2>3. \A e \in Dev : e # d => Same(e)
    BY <1>2 DEF Inv, TypeOK, OnlyMain, link, mac, io, eng, Goto, Same
  <2> QED
    BY <2>1, <2>2, <2>3, Combine
<1> QED
  BY <1>1, <1>2 DEF MacStopped, MacReturn

LEMMA MacRunsInv == ASSUME Inv, NEW d \in Dev, MacRuns(d) PROVE Inv'
<1>1. TypeOK'
  BY DEF Inv, TypeOK, MacRuns, OnlyMain, link, mac, io, eng, Goto, MainAt, Fault, IoPc, EngPc,
     Descriptor, Pdu, NoFrame, MaxMsg
<1>2. DevInv(d)'
  BY ZenonT(60) DEF Inv, TypeOK, MacRuns, OnlyMain, link, mac, io, eng, Goto, DevInv, Fresh, Starting,
     Stopping, MacKnown, Named, Closing, InMac, InLink, Quiet, Ended
<1>3. \A e \in Dev : e # d => Same(e)
  BY DEF Inv, TypeOK, MacRuns, OnlyMain, link, mac, io, eng, Goto, Same
<1> QED
  BY <1>1, <1>2, <1>3, Combine

LEMMA CancelExchangeInv == ASSUME Inv, NEW d \in Dev, CancelExchange(d) PROVE Inv'
<1>1. TypeOK'
  BY DEF Inv, TypeOK, CancelExchange, link, mac, eng, Goto, MainAt, Fault, IoPc, EngPc, Descriptor,
     Pdu, NoFrame, MaxMsg
<1>2. DevInv(d)'
  BY ZenonT(60) DEF Inv, TypeOK, CancelExchange, link, mac, eng, Goto, DevInv, Fresh, Starting, Stopping,
     MacKnown, Named, Closing, InMac, InLink, Quiet, Ended
<1>3. \A e \in Dev : e # d => Same(e)
  BY DEF Inv, TypeOK, CancelExchange, link, mac, eng, Goto, Same
<1> QED
  BY <1>1, <1>2, <1>3, Combine

LEMMA CancelNothingInv == ASSUME Inv, NEW d \in Dev, CancelNothing(d) PROVE Inv'
  BY Vanished DEF Inv, TypeOK, CancelNothing, Crash, Fault

LEMMA ReleasedInv == ASSUME Inv, NEW d \in Dev, Released(d) PROVE Inv'
<1> USE DEF Inv, TypeOK, link, io, eng
<1>1. ASSUME call[d] = "macdeact", Return(d) PROVE Inv'
  <2>1. TypeOK'
    BY <1>1, Returning DEF Released
  <2>2. DevInv(d)'
    BY <1>1, Returning, ZenonT(60) DEF Released, DevInv, Fresh, Starting, Stopping, MacKnown, Named, Closing,
       InMac, InLink, Quiet, Ended
  <2>3. \A e \in Dev : e # d => Same(e)
    BY <1>1, Returning DEF Released, Same
  <2> QED
    BY <2>1, <2>2, <2>3, Combine
<1>2. ASSUME call[d] # "macdeact", Goto(d, "slay") PROVE Inv'
  <2>1. TypeOK'
    BY <1>2 DEF Released, Goto, MainAt
  <2>2. DevInv(d)'
    BY <1>2, ZenonT(60) DEF Released, Goto, MainAt, DevInv, Fresh, Starting, Stopping, MacKnown, Named,
       Closing, InMac, InLink, Quiet, Ended
  <2>3. \A e \in Dev : e # d => Same(e)
    BY <1>2 DEF Released, Goto, MainAt, Same
  <2> QED
    BY <2>1, <2>2, <2>3, Combine
<1> QED
  BY <1>1, <1>2 DEF Released, MacReturn

LEMMA StartDrainInv == ASSUME Inv, NEW d \in Dev, StartDrain(d) PROVE Inv'
<1> USE DEF Inv, TypeOK, link, eng, StartDrain, Goto
<1>1. TypeOK'
  BY DEF IoPc, MainAt
<1>2. names[d]
  BY DEF DevInv, Stopping
<1>3. DevInv(d)'
  BY <1>2, ZenonT(60) DEF DevInv, Fresh, Starting, Stopping, MacKnown, Named, Closing, InMac, InLink, Quiet, Ended
<1>4. \A e \in Dev : e # d => Same(e)
  BY DEF Same
<1> QED
  BY <1>1, <1>3, <1>4, Combine

LEMMA DrainedInv == ASSUME Inv, NEW d \in Dev, Drained(d) PROVE Inv'
<1> USE DEF Inv, TypeOK, link, io, eng
<1>1. ASSUME call[d] = "macdeact", Return(d) PROVE Inv'
  <2>1. TypeOK'
    BY <1>1, Returning DEF Drained
  <2>2. DevInv(d)'
    <3>1. Fresh(d)'
      BY <1>1, Returning DEF Drained, DevInv, Fresh
    <3>2. Starting(d)'
      BY <1>1, Returning DEF Drained, DevInv, Starting
    <3>3. Stopping(d)'
      BY <1>1, Returning DEF Drained, DevInv, Stopping, InMac, InLink
    <3>4. MacKnown(d)'
      BY <1>1, Returning DEF Drained, DevInv, MacKnown
    <3>5. Named(d)'
      BY <1>1, Returning DEF Drained, DevInv, Named, Quiet, Ended
    <3>6. Closing(d)'
      BY <1>1, Returning DEF Drained, DevInv, Closing
    <3> QED
      BY <3>1, <3>2, <3>3, <3>4, <3>5, <3>6 DEF DevInv
  <2>3. \A e \in Dev : e # d => Same(e)
    BY <1>1, Returning DEF Drained, Same
  <2> QED
    BY <2>1, <2>2, <2>3, Combine
<1>2. ASSUME call[d] # "macdeact", Goto(d, "slay") PROVE Inv'
  <2>1. TypeOK'
    BY <1>2 DEF Drained, Goto, MainAt
  <2>2. DevInv(d)'
    <3>1. Fresh(d)'
      BY <1>2 DEF Drained, Goto, MainAt, DevInv, Fresh
    <3>2. Starting(d)'
      BY <1>2 DEF Drained, Goto, MainAt, DevInv, Starting
    <3>3. Stopping(d)'
      BY <1>2 DEF Drained, Goto, MainAt, DevInv, Stopping, InMac, InLink
    <3>4. MacKnown(d)'
      BY <1>2 DEF Drained, Goto, MainAt, DevInv, MacKnown
    <3>5. Named(d)'
      BY <1>2 DEF Drained, Goto, MainAt, DevInv, Named, Quiet, Ended
    <3>6. Closing(d)'
      BY <1>2 DEF Drained, Goto, MainAt, DevInv, Closing
    <3> QED
      BY <3>1, <3>2, <3>3, <3>4, <3>5, <3>6 DEF DevInv
  <2>3. \A e \in Dev : e # d => Same(e)
    BY <1>2 DEF Drained, Goto, MainAt, Same
  <2> QED
    BY <2>1, <2>2, <2>3, Combine
<1> QED
  BY <1>1, <1>2 DEF Drained, MacReturn

LEMMA CancelEngineInv == ASSUME Inv, NEW d \in Dev, CancelEngine(d) PROVE Inv'
<1> USE DEF Inv, TypeOK, mac, io, CancelEngine, Goto
<1>0. status[d] = "off" /\ ~ioThread[d] /\ call[d] \in {"deactivate", "again"}
  BY DEF DevInv, Stopping, InLink
<1>1. CASE engThread[d]
  <2>1. TypeOK'
    BY <1>1 DEF MainAt
  <2>2. DevInv(d)'
    <3>1. Fresh(d)'
      BY <1>1 DEF DevInv, Fresh
    <3>2. Starting(d)'
      BY <1>1 DEF DevInv, Starting
    <3>3. Stopping(d)'
      BY <1>1 DEF DevInv, Stopping, InMac, InLink
    <3>4. MacKnown(d)'
      BY <1>0, <1>1 DEF DevInv, MacKnown
    <3>5. Named(d)'
      BY <1>1 DEF DevInv, Named, Quiet, Ended
    <3>6. Closing(d)'
      BY <1>0, <1>1 DEF DevInv, Closing
    <3> QED
      BY <3>1, <3>2, <3>3, <3>4, <3>5, <3>6 DEF DevInv
  <2>3. \A e \in Dev : e # d => Same(e)
    BY <1>1 DEF Same
  <2> QED
    BY <2>1, <2>2, <2>3, Combine
<1>2. CASE ~engThread[d]
  <2>1. TypeOK'
    BY <1>2 DEF MainAt
  <2>2. DevInv(d)'
    <3>1. Fresh(d)'
      BY <1>2 DEF DevInv, Fresh
    <3>2. Starting(d)'
      BY <1>2 DEF DevInv, Starting
    <3>3. Stopping(d)'
      BY <1>2 DEF DevInv, Stopping, InMac, InLink
    <3>4. MacKnown(d)'
      BY <1>0, <1>2 DEF DevInv, MacKnown
    <3>5. Named(d)'
      BY <1>2 DEF DevInv, Named, Quiet, Ended
    <3>6. Closing(d)'
      BY <1>0, <1>2 DEF DevInv, Closing
    <3> QED
      BY <3>1, <3>2, <3>3, <3>4, <3>5, <3>6 DEF DevInv
  <2>3. \A e \in Dev : e # d => Same(e)
    BY <1>2 DEF Same
  <2> QED
    BY <2>1, <2>2, <2>3, Combine
<1> QED
  BY <1>1, <1>2

LEMMA EngineJoinedInv == ASSUME Inv, NEW d \in Dev, EngineJoined(d) PROVE Inv'
<1>1. TypeOK'
  BY DEF Inv, TypeOK, EngineJoined, mac, io, eng, Goto, MainAt, Fault, IoPc, EngPc, Descriptor,
     Pdu, NoFrame, MaxMsg
<1>2. DevInv(d)'
  BY ZenonT(60) DEF Inv, TypeOK, EngineJoined, mac, io, eng, Goto, DevInv, Fresh, Starting, Stopping,
     MacKnown, Named, Closing, InMac, InLink, Quiet, Ended
<1>3. \A e \in Dev : e # d => Same(e)
  BY DEF Inv, TypeOK, EngineJoined, mac, io, eng, Goto, Same
<1> QED
  BY <1>1, <1>2, <1>3, Combine

LEMMA CloseQueuesInv == ASSUME Inv, NEW d \in Dev, CloseQueues(d) PROVE Inv'
<1>0. /\ at[d] = "close" /\ ~engThread[d] /\ ~ioThread[d] /\ status[d] = "off"
      /\ call[d] \in {"deactivate", "again"} /\ Ended(engPc[d])
  BY DEF Inv, TypeOK, CloseQueues, DevInv, Stopping, InLink, Named
<1>1. "closed" \notin {upFd[d], downFd[d]} /\ engPc[d] # "forget"
  BY <1>0 DEF Inv, TypeOK, DevInv, Closing, Ended
<1>2. /\ upFd' = [upFd EXCEPT ![d] = "none"] /\ downFd' = [downFd EXCEPT ![d] = "none"]
      /\ names' = [names EXCEPT ![d] = FALSE] /\ Return(d)
      /\ UNCHANGED <<mac, io, eng, up, down, air, field, fault, status, macLink, engThread, linkFreed>>
  BY <1>0, <1>1 DEF CloseQueues
<1> USE DEF Inv, TypeOK, mac, io, eng
<1>3. TypeOK'
  BY <1>2, Returning DEF Descriptor
<1>4. DevInv(d)'
  <2>1. Fresh(d)'
    BY <1>0, <1>1, <1>2, Returning DEF DevInv, Fresh
  <2>2. Starting(d)'
    BY <1>0, <1>1, <1>2, Returning DEF DevInv, Starting
  <2>3. Stopping(d)'
    BY <1>0, <1>1, <1>2, Returning DEF DevInv, Stopping, InMac, InLink
  <2>4. MacKnown(d)'
    BY <1>0, <1>1, <1>2, Returning DEF DevInv, MacKnown
  <2>5. Named(d)'
    BY <1>0, <1>1, <1>2, Returning DEF DevInv, Named, Quiet, Ended
  <2>6. Closing(d)'
    BY <1>0, <1>1, <1>2, Returning DEF DevInv, Closing
  <2> QED
    BY <2>1, <2>2, <2>3, <2>4, <2>5, <2>6 DEF DevInv
<1>5. \A e \in Dev : e # d => Same(e)
  BY <1>2, Returning DEF Same
<1> QED
  BY <1>3, <1>4, <1>5, Combine

LEMMA FreeMacInv == ASSUME Inv, NEW d \in Dev, FreeMac(d) PROVE Inv'
<1> USE DEF Inv, TypeOK, FreeMac, io, eng
<1>1. TypeOK'
  BY Returning
<1>2. DevInv(d)'
  BY Returning, ZenonT(60) DEF DevInv, Fresh, Starting, Stopping, MacKnown, Named, Closing, InMac, InLink,
     Quiet, Ended
<1>3. \A e \in Dev : e # d => Same(e)
  BY Returning DEF Same
<1> QED
  BY <1>1, <1>2, <1>3, Combine

LEMMA FreeLinkInv == ASSUME Inv, NEW d \in Dev, FreeLink(d) PROVE Inv'
<1>1. TypeOK'
  BY Returning DEF Inv, TypeOK, FreeLink, mac, io, eng
<1>2. DevInv(d)'
  BY Returning, ZenonT(60) DEF Inv, TypeOK, FreeLink, mac, io, eng, DevInv, Fresh, Starting, Stopping,
     MacKnown, Named, Closing, InMac, InLink, Quiet, Ended
<1>3. \A e \in Dev : e # d => Same(e)
  BY Returning DEF Inv, TypeOK, FreeLink, mac, io, eng, Same
<1> QED
  BY <1>1, <1>2, <1>3, Combine

LEMMA ExitInv == ASSUME Inv, NEW d \in Dev, Exit(d) PROVE Inv'
<1>1. fault' \in [Dev -> Fault] /\ fault'[d] # "closed twice" /\ \A e \in Dev : e # d => fault'[e] = fault[e]
  BY DEF Inv, TypeOK, Exit, DevInv, Closing
<1> QED
  BY <1>1, Vanished DEF Exit

LEMMA BootstrapInv == ASSUME Inv, NEW d \in Dev, Bootstrap(d) PROVE Inv'
<1>1. TypeOK'
  BY DEF Inv, TypeOK, Bootstrap, main, link, mac, eng, IoAt, Send, MainAt, Fault, IoPc, EngPc,
     Descriptor, Pdu, NoFrame, MaxMsg
<1>2. DevInv(d)'
  BY ZenonT(60) DEF Inv, TypeOK, Bootstrap, main, link, mac, eng, IoAt, Send, DevInv, Fresh, Starting,
     Stopping, MacKnown, Named, Closing, InMac, InLink, Quiet, Ended
<1>3. \A e \in Dev : e # d => Same(e)
  BY DEF Inv, TypeOK, Bootstrap, main, link, mac, eng, IoAt, Send, Same
<1> QED
  BY <1>1, <1>2, <1>3, Combine

LEMMA ReceiveInv == ASSUME Inv, NEW d \in Dev, Receive(d) PROVE Inv'
<1> USE DEF Inv, TypeOK, main, link, mac, eng, Receive, IoAt
<1>1. up' \in [Dev -> Seq(Pdu)] /\ \A e \in Dev : Len(up'[e]) <= MaxMsg
  <2>1. CASE UNCHANGED up
    BY <2>1
  <2>2. CASE Len(up[d]) < MaxMsg /\ up' = [up EXCEPT ![d] = Append(@, air[d])]
    <3>1. air[d] \in Pdu
      OBVIOUS
    <3> QED
      BY <2>2, <3>1, Put
  <2> QED
    BY <2>1, <2>2
<1>2. ioPc' \in [Dev -> IoPc] /\ air' \in [Dev -> Pdu \cup {NoFrame}]
  BY DEF IoPc
<1>3. TypeOK'
  BY <1>1, <1>2
<1>4. DevInv(d)'
  BY ZenonT(60) DEF Listening, DevInv, Fresh, Starting, Stopping, MacKnown, Named, Closing, InMac, InLink,
     Quiet, Ended
<1>5. ASSUME NEW e \in Dev, e # d PROVE Same(e)
  <2>1. up'[e] = up[e] /\ ioPc'[e] = ioPc[e]
    BY <1>5
  <2> QED
    BY <2>1 DEF Same
<1> QED
  BY <1>3, <1>4, <1>5, Combine

LEMMA PollAndSendInv == ASSUME Inv, NEW d \in Dev, PollAndSend(d) PROVE Inv'
<1> USE DEF Inv, TypeOK, main, link, mac, eng, PollAndSend, IoAt
<1>1. Other(d) \in Dev
  BY DEF Other, Dev
<1>2. down' \in [Dev -> Seq(Pdu)] /\ \A e \in Dev : Len(down'[e]) <= MaxMsg
  <2>1. CASE down[d] = <<>>
    BY <2>1
  <2>2. CASE down[d] # <<>> /\ down' = [down EXCEPT ![d] = Tail(@)]
    BY <2>2, Take
  <2> QED
    BY <2>1, <2>2
<1>3. air' \in [Dev -> Pdu \cup {NoFrame}]
  <2>1. down[d] # <<>> => Head(down[d]) \in Pdu
    BY Take
  <2> QED
    BY <1>1, <2>1 DEF Send, Pdu
<1>4. ioPc' \in [Dev -> IoPc]
  BY DEF Listening, IoPc
<1>5. TypeOK'
  BY <1>2, <1>3, <1>4
<1>6. DevInv(d)'
  BY ZenonT(60) DEF Listening, DevInv, Fresh, Starting, Stopping, MacKnown, Named, Closing, InMac, InLink,
     Quiet, Ended
<1>7. \A e \in Dev : e # d => Same(e)
  BY DEF Same
<1> QED
  BY <1>5, <1>6, <1>7, Combine

LEMMA PollClosedInv == ASSUME Inv, NEW d \in Dev, PollClosed(d) PROVE Inv'
<1>1. TypeOK'
  BY DEF Inv, TypeOK, PollClosed, main, link, mac, eng, IoAt, MainAt, Fault, IoPc, EngPc,
     Descriptor, Pdu, NoFrame, MaxMsg
<1>2. DevInv(d)'
  BY ZenonT(60) DEF Inv, TypeOK, PollClosed, main, link, mac, eng, IoAt, DevInv, Fresh, Starting, Stopping,
     MacKnown, Named, Closing, InMac, InLink, Quiet, Ended
<1>3. \A e \in Dev : e # d => Same(e)
  BY DEF Inv, TypeOK, PollClosed, main, link, mac, eng, IoAt, Same
<1> QED
  BY <1>1, <1>2, <1>3, Combine

LEMMA IoFailsInv == ASSUME Inv, NEW d \in Dev, IoFails(d) PROVE Inv'
<1> USE DEF Inv, TypeOK, main, link, mac, eng, IoFails, IoAt
<1>1. down' \in [Dev -> Seq(Pdu)] /\ \A e \in Dev : Len(down'[e]) <= MaxMsg
  <2>1. CASE UNCHANGED down
    BY <2>1
  <2>2. CASE down[d] # <<>> /\ down' = [down EXCEPT ![d] = Tail(@)]
    BY <2>2, Take
  <2> QED
    BY <2>1, <2>2
<1>2. ioPc' \in [Dev -> IoPc]
  BY DEF IoPc
<1>3. TypeOK'
  BY <1>1, <1>2
<1>4. DevInv(d)'
  BY ZenonT(60) DEF DevInv, Fresh, Starting, Stopping, MacKnown, Named, Closing, InMac, InLink, Quiet, Ended
<1>5. \A e \in Dev : e # d => Same(e)
  BY DEF Same
<1> QED
  BY <1>3, <1>4, <1>5, Combine

LEMMA ClearThreadInv == ASSUME Inv, NEW d \in Dev, ClearThread(d) PROVE Inv'
<1>1. TypeOK'
  BY DEF Inv, TypeOK, ClearThread, main, link, eng, IoAt, MainAt, Fault, IoPc, EngPc, Descriptor,
     Pdu, NoFrame, MaxMsg
<1>2. DevInv(d)'
  BY ZenonT(60) DEF Inv, TypeOK, ClearThread, main, link, eng, IoAt, DevInv, Fresh, Starting, Stopping,
     MacKnown, Named, Closing, InMac, InLink, Quiet, Ended
<1>3. \A e \in Dev : e # d => Same(e)
  BY DEF Inv, TypeOK, ClearThread, main, link, eng, IoAt, Same
<1> QED
  BY <1>1, <1>2, <1>3, Combine

LEMMA ReportInv == ASSUME Inv, NEW d \in Dev, Report(d) PROVE Inv'
<1>1. ASSUME Crash(d, "freed") PROVE Inv'
  BY <1>1, Vanished DEF Inv, TypeOK, Crash, Fault
<1>2. ASSUME ioPc[d] = "report", IoAt(d, "exited"), UNCHANGED <<main, link, mac, eng, up, down, air, field, fault>>
      PROVE  Inv'
  <2> USE DEF Inv, TypeOK, main, link, mac, eng, IoAt
  <2>1. TypeOK'
    BY <1>2 DEF IoPc
  <2>2. ioPc' = [ioPc EXCEPT ![d] = "exited"] /\ Quiet(ioPc'[d]) /\ DevInv(d)
    BY <1>2 DEF Quiet
  <2>3. Fresh(d)' /\ Starting(d)'
    BY <1>2, <2>2 DEF DevInv, Fresh, Starting, Quiet
  <2>4. Stopping(d)' /\ MacKnown(d)'
    BY <1>2, <2>2 DEF DevInv, Stopping, MacKnown, InMac, InLink
  <2>5. Named(d)' /\ Closing(d)'
    BY <1>2, <2>2 DEF DevInv, Named, Closing, Ended
  <2>6. \A e \in Dev : e # d => Same(e)
    BY <1>2 DEF Same
  <2> QED
    BY <2>1, <2>3, <2>4, <2>5, <2>6, Combine DEF DevInv
<1> QED
  BY <1>1, <1>2 DEF Report

LEMMA IoCancelledInv == ASSUME Inv, NEW d \in Dev, IoCancelled(d) PROVE Inv'
<1>1. TypeOK'
  BY DEF Inv, TypeOK, IoCancelled, main, link, mac, eng, IoAt, MainAt, Fault, IoPc, EngPc,
     Descriptor, Pdu, NoFrame, MaxMsg
<1>2. DevInv(d)'
  BY ZenonT(60) DEF Inv, TypeOK, IoCancelled, main, link, mac, eng, IoAt, DevInv, Fresh, Starting, Stopping,
     MacKnown, Named, Closing, InMac, InLink, Quiet, Ended
<1>3. \A e \in Dev : e # d => Same(e)
  BY DEF Inv, TypeOK, IoCancelled, main, link, mac, eng, IoAt, Same
<1> QED
  BY <1>1, <1>2, <1>3, Combine

LEMMA DrainInv == ASSUME Inv, NEW d \in Dev, Drain(d) PROVE Inv'
<1>1. TypeOK'
  BY DEF Inv, TypeOK, Drain, main, link, mac, io, eng, MainAt, Fault, IoPc, EngPc, Descriptor, Pdu,
     NoFrame, MaxMsg
<1>2. DevInv(d)'
  BY ZenonT(60) DEF Inv, TypeOK, Drain, main, link, mac, io, eng, DevInv, Fresh, Starting, Stopping, MacKnown,
     Named, Closing, InMac, InLink, Quiet, Ended
<1>3. \A e \in Dev : e # d => Same(e)
  BY DEF Inv, TypeOK, Drain, main, link, mac, io, eng, Same
<1> QED
  BY <1>1, <1>2, <1>3, Combine

LEMMA DispatchInv == ASSUME Inv, NEW d \in Dev, Dispatch(d) PROVE Inv'
<1>1. up' \in [Dev -> Seq(Pdu)] /\ \A e \in Dev : Len(up'[e]) <= MaxMsg
  BY Take DEF Inv, TypeOK, Dispatch
<1>2. PICK label \in {"recv", "reply", "transmit", "cleanup"} :
        /\ EngAt(d, label)
        /\ \/ label = "cleanup" /\ status' = [status EXCEPT ![d] = "off"]
           \/ label # "cleanup" /\ UNCHANGED status
  BY DEF Dispatch, Answers
<1> USE DEF Inv, TypeOK, main, mac, io, Dispatch, EngAt
<1>3. TypeOK'
  BY <1>1, <1>2 DEF EngPc
<1>4. DevInv(d)'
  <2>1. Fresh(d)'
    BY <1>2 DEF DevInv, Fresh
  <2>2. Starting(d)'
    BY <1>2 DEF DevInv, Starting
  <2>3. Stopping(d)'
    BY <1>2 DEF DevInv, Stopping, InMac, InLink
  <2>4. MacKnown(d)'
    BY <1>2 DEF DevInv, MacKnown
  <2>5. Named(d)'
    BY <1>2 DEF DevInv, Named, Quiet, Ended
  <2>6. Closing(d)'
    BY <1>2 DEF DevInv, Closing
  <2> QED
    BY <2>1, <2>2, <2>3, <2>4, <2>5, <2>6 DEF DevInv
<1>5. \A e \in Dev : e # d => Same(e)
  BY <1>2 DEF Same
<1> QED
  BY <1>3, <1>4, <1>5, Combine

LEMMA HandOverInv == ASSUME Inv, NEW d \in Dev, HandOver(d) PROVE Inv'
<1>1. down' \in [Dev -> Seq(Pdu)] /\ \A e \in Dev : Len(down'[e]) <= MaxMsg
  BY Put DEF Inv, TypeOK, HandOver, Pdu
<1>2. PICK label \in {"recv", "transmit"} : EngAt(d, label)
  BY DEF HandOver
<1> USE DEF Inv, TypeOK, main, link, mac, io, HandOver, EngAt
<1>3. TypeOK'
  BY <1>1, <1>2 DEF EngPc
<1>4. DevInv(d)'
  <2>1. Fresh(d)'
    BY <1>2 DEF DevInv, Fresh
  <2>2. Starting(d)'
    BY <1>2 DEF DevInv, Starting
  <2>3. Stopping(d)'
    BY <1>2 DEF DevInv, Stopping, InMac, InLink
  <2>4. MacKnown(d)'
    BY <1>2 DEF DevInv, MacKnown
  <2>5. Named(d)'
    BY <1>2 DEF DevInv, Named, Quiet, Ended
  <2>6. Closing(d)'
    BY <1>2 DEF DevInv, Closing
  <2> QED
    BY <2>1, <2>2, <2>3, <2>4, <2>5, <2>6 DEF DevInv
<1>5. \A e \in Dev : e # d => Same(e)
  BY <1>2 DEF Same
<1> QED
  BY <1>3, <1>4, <1>5, Combine

LEMMA InterruptedInv == ASSUME Inv, NEW d \in Dev, Interrupted(d) PROVE Inv'
<1>1. PICK label \in {"recv", "transmit"} : EngAt(d, label)
  BY DEF Interrupted
<1> USE DEF Inv, TypeOK, main, link, mac, io, Interrupted, EngAt
<1>2. TypeOK'
  BY <1>1 DEF EngPc
<1>3. DevInv(d)'
  BY <1>1, ZenonT(60) DEF DevInv, Fresh, Starting, Stopping, MacKnown, Named, Closing, InMac, InLink, Quiet, Ended
<1>4. \A e \in Dev : e # d => Same(e)
  BY <1>1 DEF Same
<1> QED
  BY <1>2, <1>3, <1>4, Combine

LEMMA EngineCancelledInv == ASSUME Inv, NEW d \in Dev, EngineCancelled(d) PROVE Inv'
<1>1. TypeOK'
  BY DEF Inv, TypeOK, EngineCancelled, main, link, mac, io, EngAt, MainAt, Fault, IoPc, EngPc,
     Descriptor, Pdu, NoFrame, MaxMsg
<1>2. DevInv(d)'
  BY ZenonT(60) DEF Inv, TypeOK, EngineCancelled, main, link, mac, io, EngAt, DevInv, Fresh, Starting,
     Stopping, MacKnown, Named, Closing, InMac, InLink, Quiet, Ended
<1>3. \A e \in Dev : e # d => Same(e)
  BY DEF Inv, TypeOK, EngineCancelled, main, link, mac, io, EngAt, Same
<1> QED
  BY <1>1, <1>2, <1>3, Combine

LEMMA CleanupInv == ASSUME Inv, NEW d \in Dev, Cleanup(d) PROVE Inv'
<1>1. TypeOK'
  BY DEF Inv, TypeOK, Cleanup, main, mac, io, EngAt, MainAt, Fault, IoPc, EngPc, Descriptor, Pdu,
     NoFrame, MaxMsg
<1>2. DevInv(d)'
  BY ZenonT(60) DEF Inv, TypeOK, Cleanup, main, mac, io, EngAt, DevInv, Fresh, Starting, Stopping, MacKnown,
     Named, Closing, InMac, InLink, Quiet, Ended
<1>3. \A e \in Dev : e # d => Same(e)
  BY DEF Inv, TypeOK, Cleanup, main, mac, io, EngAt, Same
<1> QED
  BY <1>1, <1>2, <1>3, Combine

LEMMA ForgetInv == ASSUME Inv, NEW d \in Dev, Forget(d) PROVE Inv'
<1>1. TypeOK'
  BY DEF Inv, TypeOK, Forget, main, mac, io, EngAt, MainAt, Fault, IoPc, EngPc, Descriptor, Pdu,
     NoFrame, MaxMsg
<1>2. DevInv(d)'
  BY ZenonT(60) DEF Inv, TypeOK, Forget, main, mac, io, EngAt, DevInv, Fresh, Starting, Stopping, MacKnown,
     Named, Closing, InMac, InLink, Quiet, Ended
<1>3. \A e \in Dev : e # d => Same(e)
  BY DEF Inv, TypeOK, Forget, main, mac, io, EngAt, Same
<1> QED
  BY <1>1, <1>2, <1>3, Combine

\* An engine on a freed link.
LEMMA StrandedInv == ASSUME Inv, NEW d \in Dev, Crash(d, "freed") PROVE Inv'
  BY Vanished DEF Inv, TypeOK, Crash, Fault

\* Actions of both devices, or of none.
LEMMA SelectInv == ASSUME Inv, Select PROVE Inv'
<1> USE DEF Inv, TypeOK, Select, link, mac, io, eng
<1>1. TypeOK'
  BY DEF MainAt
<1>2. ASSUME NEW d \in Dev PROVE DevInv(d)'
  <2>1. at[d] = "activate" /\ at'[d] = "open"
    BY <1>2
  <2>2. Fresh(d)' /\ Starting(d)' /\ Stopping(d)'
    BY <2>1 DEF DevInv, Fresh, Starting, Stopping, InMac, InLink
  <2>3. MacKnown(d)' /\ Named(d)' /\ Closing(d)'
    BY <2>1 DEF DevInv, MacKnown, Named, Closing, Quiet, Ended
  <2> QED
    BY <2>2, <2>3 DEF DevInv
<1> QED
  BY <1>1, <1>2

LEMMA OnlyField ==
    ASSUME Inv, UNCHANGED <<main, link, mac, io, eng, up, down, air, fault>>, field' \in {"off", "on", "gone"}
    PROVE  Inv'
<1>1. TypeOK'
  BY DEF Inv, TypeOK, main, link, mac, io, eng
<1>2. \A e \in Dev : Same(e)
  BY DEF main, link, mac, io, eng, Same
<1> QED
  BY <1>1, <1>2, Untouched DEF Inv
-----------------------------------------------------------------------------
LEMMA MainInv == ASSUME Inv, NEW d \in Dev, Main(d) \/ SessionOver(d) PROVE Inv'
<1>1. CASE Activation(d)
  BY <1>1, ActivateFailsInv, PollOtherInv, StartEngineInv, MarkActivatedInv, StartExchangeInv
     DEF Activation
<1>2. CASE Use(d)
  BY <1>2, ConnectInv, DisconnectInv, NotActivatedInv, WaitInv, WaitFailsInv, DereferenceInv, JoinedInv
     DEF Use
<1>3. CASE Deactivation(d)
  BY <1>3, DeactivateInv, MacStoppedInv, MacRunsInv, CancelExchangeInv, CancelNothingInv, ReleasedInv,
     StartDrainInv, DrainedInv, CancelEngineInv, EngineJoinedInv, CloseQueuesInv, FreeMacInv,
     FreeLinkInv
     DEF Deactivation
<1> QED
  BY <1>1, <1>2, <1>3, ExitInv, SessionOverInv DEF Main

LEMMA ThreadsInv == ASSUME Inv, NEW d \in Dev, Exchange(d) \/ Engine(d) PROVE Inv'
<1>1. CASE Exchange(d)
  BY <1>1, BootstrapInv, ReceiveInv, PollAndSendInv, PollClosedInv, IoFailsInv, ClearThreadInv,
     ReportInv, IoCancelledInv, DrainInv DEF Exchange
<1>2. CASE Engine(d)
  BY <1>2, DispatchInv, HandOverInv, InterruptedInv, EngineCancelledInv, CleanupInv, ForgetInv,
     StrandedInv DEF Engine
<1> QED
  BY <1>1, <1>2

LEMMA Inductive == ASSUME Inv, [Next]_vars PROVE Inv'
<1>1. CASE Select
  BY <1>1, SelectInv
<1>2. ASSUME NEW d \in Dev, Step(d) PROVE Inv'
  BY <1>2, MainInv, ThreadsInv DEF Step
<1>3. CASE Lost
  BY <1>3, OnlyField DEF Lost
<1>4. CASE UNCHANGED vars
  BY <1>4, OnlyField DEF vars, Inv, TypeOK
<1> QED
  BY <1>1, <1>2, <1>3, <1>4 DEF Next, Over

(***************************************************************************)
(* Every part of Inv holds of every state: no step of any thread, whatever *)
(* the other threads and the other device have done before, breaks it.     *)
(***************************************************************************)
THEOREM Invariant == Spec => []Inv
  BY Initially, Inductive, PTL DEF Spec

(***************************************************************************)
(* Whatever programs meet: the types, and that a message queue never holds *)
(* more than mq_maxmsg PDUs.                                               *)
(***************************************************************************)
THEOREM LinkTypeCorrect == Spec => []TypeOK
<1>1. Inv => TypeOK
  BY DEF Inv
<1> QED
  BY <1>1, Invariant, PTL

(***************************************************************************)
(* ActivatedHasEngine: while a link is marked activated, both its queues   *)
(* are open and its engine serves them.                                    *)
(***************************************************************************)
THEOREM ActivatedIsServed == Spec => []ActivatedHasEngine
<1>1. Inv => ActivatedHasEngine
  BY DEF Inv, DevInv, Closing, ActivatedHasEngine
<1> QED
  BY <1>1, Invariant, PTL

(***************************************************************************)
(* Deactivated: once the queues have been unlinked no thread of the link   *)
(* is left, and each descriptor has been closed once.                      *)
(***************************************************************************)
THEOREM DeactivatedIsClean == Spec => []Deactivated
<1>1. ASSUME Inv, NEW d \in Dev, at[d] \notin {"activate", "open"}, ~names[d]
      PROVE  /\ status[d] = "off" /\ ~engThread[d] /\ Ended(engPc[d])
             /\ upFd[d] = "none" /\ downFd[d] = "none"
             /\ Ended(ioPc[d]) \/ ioPc[d] = "report"
  BY <1>1 DEF Inv, TypeOK, DevInv, Named, Closing, Quiet, Ended
<1>2. Inv => Deactivated
  BY <1>1 DEF Inv, DevInv, Closing, Deactivated
<1> QED
  BY <1>2, Invariant, PTL
=============================================================================
