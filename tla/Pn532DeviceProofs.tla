-------------------------- MODULE Pn532DeviceProofs --------------------------
(***************************************************************************)
(* Proofs about Pn532Device, for every number of rounds, processes,        *)
(* aborts, strangers and lost frames.                                      *)
(*                                                                         *)
(* What the driver may believe of the chip depends on how far its call has *)
(* come.  The inductive invariant therefore has a place (m, n) of the host *)
(* in its scripts, Placed(m, n), which every step moves in a known way,    *)
(* and what holds of the chip and the line at that place, Deep(m, n), as   *)
(* long as no frame was lost.  Each step of the host, of the chip and of   *)
(* the program is taken from place to place.                               *)
(***************************************************************************)
EXTENDS Pn532Device, FiniteSets, FiniteSetTheorems, WellFoundedInduction, TLAPS

\* Types: what the steps, the frames and the device are made of.
Args == Field \cup {"on", "off", "default", "garbage"}
Doings == {"flush", "parameters", "free", "idle", "closed", "INITIATOR", "TARGET"}
Catches == {"any", "close", "timeout", "idle"}
Commands == Prompt \cup Waiting
Marks == {"try", "catch"}
StepType ==
    {s \in [op : {"cmd", "frame", "set", "do", "try", "catch", "raise", "write"},
            name : Commands \cup Doings \cup Catches \cup Errors \cup {""},
            arg : SUBSET Args] :
        /\ s.op \in {"cmd", "frame"} => s.name \in Commands
        /\ s.op = "set" \/ s.name \in {"WriteRegister", "ReadRegister"} => s.arg \subseteq Field
        /\ s.op = "do" => s.name \in Doings
        /\ s.op = "raise" => s.name \in Errors
        /\ s.op = "catch" => s.name \in Catches}
Statuses == {"ok", "rf", "released", "stranger"}
FrameType ==
    {f \in [t : {"cmd", "wake", "ack", "reply"}, name : Name, arg : SUBSET Args,
            st : Statuses, old : BOOLEAN] :
        f.name \in {"WriteRegister", "ReadRegister"} => f.arg \subseteq Field}
Outgoing ==
    {f \in FrameType :
        /\ f.t \in {"cmd", "wake", "ack"} /\ f.st = "ok"
        /\ IF f.t = "cmd" THEN f.name \in Commands ELSE f.name = Idling}
StatusOf(name) == IF name \in Prompt THEN {"ok"}
                  ELSE IF name = "TgInitAsTarget" THEN {"ok", "stranger"} ELSE Outcomes(name)
Incoming ==
    {f \in FrameType :
        /\ f.t \in {"ack", "reply"} /\ f.name \in Commands
        /\ f.st \in StatusOf(f.name)}
RunningFrame == {f \in FrameType : f.t = "cmd" /\ f.st = "ok"}
DeviceType ==
    [power : {"LOWVBAT", "NORMAL", "POWERDOWN"}, target : BOOLEAN,
     oper : {"INITIATOR", "TARGET", "IDLE"}, crc : BOOLEAN, par : BOOLEAN,
     default : BOOLEAN, pending : SUBSET Field, trigged : BOOLEAN]
HostTypes ==
    /\ call \in Calls /\ result \in Errors \cup {"ok"}
    /\ todo \in Seq(StepType)
    /\ at \in {"step", "ack", "reply"} /\ (at # "step" => todo # <<>>)
    /\ draining \in BOOLEAN /\ abort \in {"none", "caught"}
    /\ pnd \in DeviceType
ChipTypes ==
    /\ chip \in [power : {"lowvbat", "halfway", "down", "on"}, running : RunningFrame,
                 regs : SUBSET Field, default : BOOLEAN, field : BOOLEAN]
    /\ tx \in Seq(Outgoing) /\ rx \in Seq(Incoming)
SpentTypes ==
    /\ role \in Roles
    /\ spent \in [starts : 0 .. MaxStarts, aborts : 0 .. MaxAborts,
                  strangers : 0 .. MaxStrangers, lost : 0 .. MaxLost]
Types == HostTypes /\ ChipTypes /\ SpentTypes

\* The steps are steps.
LEMMA StepsTyped ==
    /\ \A name \in Commands \ {"WriteRegister", "ReadRegister"},
       arg \in SUBSET Args : With(name, arg) \in StepType
    /\ \A arg \in SUBSET Field : With("WriteRegister", arg) \in StepType
       /\ With("ReadRegister", arg) \in StepType /\ Set(arg) \in StepType
    /\ \A name \in Doings : Do(name) \in StepType
    /\ \A name \in Catches : Catch(name) \in StepType
    /\ \A e \in Errors : Raise(e) \in StepType
    /\ Try \in StepType /\ Write \in StepType
  BY ZenonT(20) DEF With, Set, Do, Catch, Raise, Try, Write, Step, StepType, Commands, Doings,
     Catches, Errors, Args, Prompt, Waiting

\* Sequences written element by element, joined, or without their first.
LEMMA IsASeq == ASSUME NEW S, NEW n \in Nat, NEW F(_), \A i \in 1 .. n : F(i) \in S
                       PROVE [i \in 1 .. n |-> F(i)] \in Seq(S)
  OBVIOUS

LEMMA Literal9 == ASSUME NEW S, NEW a \in S, NEW b \in S, NEW c \in S, NEW d \in S, NEW e \in S,
      NEW f \in S, NEW g \in S, NEW h \in S, NEW i \in S
   PROVE <<a,b,c,d,e,f,g,h,i>> \in Seq(S)
  OBVIOUS

\* The types imply the type invariant that the runs check.
LEMMA TypesTypeOK == Types => TypeOK
  BY DEF Types, HostTypes, ChipTypes, SpentTypes, TypeOK, FrameType, DeviceType, Outgoing,
     Incoming, RunningFrame

LEMMA Concat == ASSUME NEW S, NEW s \in Seq(S), NEW t \in Seq(S) PROVE s \o t \in Seq(S)
  OBVIOUS

\* The steps that have a name are steps.
LEMMA NamedSteps ==
    /\ Diagnose \in StepType /\ GetFirmwareVersion \in StepType /\ MaxRetries \in StepType
    /\ SAMConfiguration \in StepType /\ PowerDown \in StepType /\ InRelease \in StepType
    /\ InDeselect \in StepType /\ InDataExchange \in StepType /\ InJumpForDEP \in StepType
    /\ TgInitAsTarget \in StepType /\ TgGetData \in StepType /\ TgSetData \in StepType
    /\ reset_settings \in StepType /\ RFField("on") \in StepType /\ RFField("off") \in StepType
    /\ SetParameters("default") \in StepType /\ SetParameters("garbage") \in StepType
       /\ ReadRegister \in StepType
  <1>1. \A name \in Commands \ {"WriteRegister"} : Cmd(name) \in StepType
    <2>1. \A name \in Commands \ {"WriteRegister"} : Cmd(name) = With(name, {})
      BY DEF With, Cmd
    <2>2. QED BY <2>1, StepsTyped
  <1>2. {Diagnose, GetFirmwareVersion, MaxRetries, SAMConfiguration, PowerDown, InRelease,
        InDeselect,
        InDataExchange, InJumpForDEP, TgInitAsTarget, TgGetData, TgSetData,
            ReadRegister} \subseteq StepType
    BY <1>1 DEF Diagnose, GetFirmwareVersion, MaxRetries, SAMConfiguration, PowerDown,
       InRelease, InDeselect,
        InDataExchange, InJumpForDEP, TgInitAsTarget, TgGetData, TgSetData, ReadRegister,
            Commands, Prompt, Waiting
  <1>3. reset_settings \in StepType
    BY StepsTyped DEF reset_settings, Field, Crc
  <1>4. {RFField("on"), RFField("off"), SetParameters("default"),
        SetParameters("garbage")} \subseteq StepType
    BY StepsTyped DEF RFField, SetParameters, Args, Commands, Prompt
  <1>5. QED BY <1>2, <1>3, <1>4

\* The scripts that depend on what the device remembers.
LEMMA IdleTyped ==
    ASSUME pnd.oper \in {"INITIATOR", "TARGET", "IDLE"}
    PROVE  idle \in Seq(StepType) /\ close \in Seq(StepType)
  <1>1. {Do("idle"), Do("closed"), Catch("any")} \subseteq StepType
    BY StepsTyped DEF Doings, Catches
  <1>2. idle \in Seq(StepType)
    <2>1. CASE pnd.oper = "TARGET"
      BY <2>1, <1>1, NamedSteps DEF idle
    <2>2. CASE pnd.oper = "INITIATOR"
      BY <2>2, <1>1, NamedSteps DEF idle
    <2>3. CASE pnd.oper = "IDLE"
      BY <2>3, <1>1, NamedSteps DEF idle
    <2>4. QED BY <2>1, <2>2, <2>3
  <1>3. <<Catch("any"), Do("closed")>> \in Seq(StepType)
    BY <1>1
  <1>4. QED BY <1>2, <1>3, Concat DEF close

\* Every script is a sequence of steps.
LEMMA ScriptTyped ==
    ASSUME pnd.oper \in {"INITIATOR", "TARGET", "IDLE"}, NEW c \in Calls \ {"none"}
    PROVE  Script(c) \in Seq(StepType)
  <1> USE NamedSteps
  <1>1. \A d \in Doings : Do(d) \in StepType
    BY StepsTyped
  <1>2. \A d \in Catches : Catch(d) \in StepType
    BY StepsTyped
  <1>3. Try \in StepType /\ Raise("absent") \in StepType
    BY StepsTyped DEF Errors
  <1>4. /\ Set(Iso14443a \cup {"noerror", "multiple"}) \in StepType
           /\ Set({"initiator"}) \in StepType
        /\ Set({"noerror", "multiple"}) \in StepType /\ Set({"rfon"}) \in StepType
    BY StepsTyped DEF Iso14443a, Field, Whole
  <1>5. open \in Seq(StepType)
    <2>1. init \in Seq(StepType) BY DEF init
    <2>2. <<Do("flush"), Diagnose, Catch("close")>> \in Seq(StepType)
      BY <1>1, <1>2 DEF Doings, Catches
    <2>3. <<Catch("any")>> \in Seq(StepType)
      BY <1>2 DEF Catches
    <2>4. QED BY <2>1, <2>2, <2>3, Concat DEF open
  <1>6. initiator_init \in Seq(StepType)
    <2>1. set_mode \in Seq(StepType) BY <1>4 DEF set_mode
    <2>2. <<RFField("off"), RFField("on"), MaxRetries, Do("parameters")>> \in Seq(StepType)
      BY <1>1 DEF Doings
    <2>3. <<Set({"initiator"}), Do("INITIATOR")>> \in Seq(StepType)
      BY <1>1, <1>4 DEF Doings
    <2>4. QED BY <2>1, <2>2, <2>3, Concat DEF initiator_init
  <1>7. poll_dep_target \in Seq(StepType)
    <2>1. \A i \in 1 .. 4 : select_dep_target[i] \in StepType
      BY <1>1, <1>2, <1>3 DEF select_dep_target, Doings, Catches
    <2>2. Rounds \in Seq(StepType)
      <3>1. \A i \in 1 .. 4 * Polls : 1 + ((i - 1) % 4) \in 1 .. 4
        BY BoundAssumption
      <3>2. 4 * Polls \in Nat
        BY BoundAssumption
      <3>3. \A i \in 1 .. 4 * Polls : select_dep_target[1 + ((i - 1) % 4)] \in StepType
        BY <2>1, <3>1
      <3>4. QED BY <3>2, <3>3, IsASeq DEF Rounds
    <2>3. <<MaxRetries>> \in Seq(StepType) /\ <<Raise("absent")>> \in Seq(StepType)
      BY <1>3
    <2>4. QED BY <2>2, <2>3, Concat DEF poll_dep_target
  <1>8. target_init \in Seq(StepType)
    <2>1. set_target \in Seq(StepType) BY <1>1, <1>4 DEF set_target, Doings
    <2>2. <<reset_settings, Do("TARGET"), Try, Do("parameters"), Catch("any"),
             Set({"rfon"}), Try, TgInitAsTarget, Catch("idle")>> \in Seq(StepType)
      <3>1. Do("TARGET") \in StepType /\ Do("parameters") \in StepType
            /\ Catch("any") \in StepType /\ Catch("idle") \in StepType
        BY <1>1, <1>2 DEF Doings, Catches
      <3>2. QED BY <3>1, <1>3, <1>4, Literal9
    <2>3. QED BY <2>1, <2>2, Concat DEF target_init
  <1>9. deselect_target \in Seq(StepType)
    BY <1>1 DEF deselect_target, Doings
  <1>10. close \in Seq(StepType)
    BY IdleTyped
  <1>11. <<InDataExchange>> \in Seq(StepType) /\ <<TgGetData>> \in Seq(StepType)
         /\ <<TgSetData>> \in Seq(StepType)
    OBVIOUS
  <1>12. QED BY <1>5, <1>6, <1>7, <1>8, <1>9, <1>10, <1>11 DEF Script, Calls

\* A set of numbers has a least one.
LEMMA LeastNatural ==
    ASSUME NEW S, S \subseteq Nat, S # {}
    PROVE  \E m \in S : \A n \in S : m <= n
  <1> DEFINE UpTo(n) == {x \in Nat : x \in S /\ x <= n}
             All == {UpTo(n) : n \in S}
  <1>1. All \subseteq FiniteSubsetsOf(Nat) /\ All # {}
    <2>1. ASSUME NEW n \in Nat
          PROVE  UpTo(n) \in SUBSET Nat /\ IsFiniteSet(UpTo(n))
      <3>1. \A x \in UpTo(n) : x <= n
        OBVIOUS
      <3>2. UpTo(n) \in SUBSET Nat
        OBVIOUS
      <3> HIDE DEF UpTo
      <3>3. QED BY <3>1, <3>2, FS_BoundedSetOfNaturals
    <2>2. QED BY <2>1 DEF FiniteSubsetsOf
  <1>2. PICK X \in All : \A Y \in All : ~(<<Y, X>> \in StrictSubsetOrdering(Nat))
    <2> HIDE DEF All
    <2>1. IsWellFoundedOn(StrictSubsetOrdering(Nat), FiniteSubsetsOf(Nat))
      BY FS_StrictSubsetOrderingWellFounded
    <2>2. QED BY <1>1, <2>1, WFMin, Zenon
  <1>3. PICK m \in S : X = UpTo(m)
    OBVIOUS
  <1>4. ASSUME NEW n \in S, n < m
        PROVE  FALSE
    <2>1. n \in Nat /\ m \in Nat
      OBVIOUS
    <2>2. /\ UpTo(n) \subseteq UpTo(m) /\ UpTo(m) \subseteq Nat
          /\ m \in UpTo(m) /\ m \notin UpTo(n)
      BY <1>4, <2>1
    <2>3. UpTo(n) \in All
      OBVIOUS
    <2> HIDE DEF UpTo, All
    <2>4. <<UpTo(n), UpTo(m)>> \in StrictSubsetOrdering(Nat)
      BY <2>2 DEF StrictSubsetOrdering
    <2>5. QED BY <1>2, <1>3, <2>3, <2>4
  <1>5. QED BY <1>4

\* What a mark, at k, makes of an error.
AtMark(k, e) ==
    LET rest == SubSeq(todo, k + 1, Len(todo))
        no   == [caught |-> FALSE, todo |-> <<>>]
    IN  CASE todo[k].name = "any" -> [caught |-> TRUE, todo |-> rest]
          [] todo[k].name = "close" -> [caught |-> TRUE, todo |-> close \o <<Raise("io")>>]
          [] todo[k].name = "timeout" /\ e = "timeout" -> [caught |-> TRUE, todo |-> rest]
          [] todo[k].name = "idle" /\ e = "timeout" ->
               [caught |-> TRUE, todo |-> idle \o <<Catch("any"), Raise("timeout")>>]
          [] OTHER -> no

\* What follows in a tail follows in the sequence.
LEMMA SubSeqTail ==
    ASSUME NEW S, NEW s \in Seq(S), s # <<>>, NEW k \in 1 .. Len(s) - 1
    PROVE  SubSeq(Tail(s), k + 1, Len(Tail(s))) = SubSeq(s, k + 2, Len(s))
  OBVIOUS

\* An error goes to the first mark that is left, if there is one.
LEMMA Handled ==
    ASSUME HostTypes, todo # <<>>, NEW e
    PROVE  \/ /\ \A i \in 2 .. Len(todo) : todo[i].op \notin Marks
              /\ Handler(e) = [caught |-> FALSE, todo |-> <<>>]
           \/ \E k \in 2 .. Len(todo) :
                /\ todo[k].op \in Marks
                /\ \A i \in 2 .. k - 1 : todo[i].op \notin Marks
                /\ Handler(e) = AtMark(k, e)
  <1> DEFINE s == Tail(todo)
             marks == {i \in DOMAIN s : s[i].op \in {"try", "catch"}}
             first == CHOOSE i \in marks : \A j \in marks : i <= j
  <1>1. /\ Len(todo) \in Nat /\ DOMAIN s = 1 .. Len(todo) - 1
        /\ \A i \in DOMAIN s : s[i] = todo[i + 1]
    BY DEF HostTypes
  <1>2. CASE marks = {}
    <2>1. \A i \in 2 .. Len(todo) : i - 1 \in DOMAIN s /\ todo[i] = s[i - 1]
      BY <1>1
    <2>2. \A i \in 2 .. Len(todo) : todo[i].op \notin Marks
      BY <1>2, <2>1 DEF Marks
    <2>3. Handler(e) = [caught |-> FALSE, todo |-> <<>>]
      BY <1>2 DEF Handler
    <2>4. QED BY <2>2, <2>3
  <1>3. CASE marks # {}
    <2>1. marks \subseteq Nat
      BY <1>1
    <2>2. first \in marks /\ \A j \in marks : first <= j
      <3> HIDE DEF marks
      <3>1. \E m \in marks : \A n \in marks : m <= n
        BY <1>3, <2>1, LeastNatural
      <3>2. QED BY <3>1
    <2>3. first \in 1 .. Len(todo) - 1 /\ s[first] = todo[first + 1]
      BY <1>1, <2>2
    <2>4. s[first].op \in {"try", "catch"}
      BY <2>2
    <2>5. Handler(e) =
            LET rest == SubSeq(s, first + 1, Len(s))
                no   == [caught |-> FALSE, todo |-> <<>>]
            IN CASE s[first].name = "any" -> [caught |-> TRUE, todo |-> rest]
               [] s[first].name = "close" -> [caught |-> TRUE,
                   todo |-> close \o <<Raise("io")>>]
               [] s[first].name = "timeout" /\ e = "timeout" -> [caught |-> TRUE, todo |-> rest]
               [] s[first].name = "idle" /\ e = "timeout" ->
                    [caught |-> TRUE, todo |-> idle \o <<Catch("any"), Raise("timeout")>>]
               [] OTHER -> no
      BY <1>3 DEF Handler
    <2>6. \A i \in 2 .. Len(todo) : todo[i].op \in Marks => first <= i - 1
      <3>1. SUFFICES ASSUME NEW i \in 2 .. Len(todo), todo[i].op \in Marks PROVE first <= i - 1
        OBVIOUS
      <3>2. i - 1 \in DOMAIN s /\ s[i - 1] = todo[i]
        BY <1>1
      <3>3. i - 1 \in marks
        BY <3>1, <3>2 DEF Marks
      <3>4. QED BY <2>2, <3>3
    <2> HIDE DEF first, marks
    <2>7. SubSeq(s, first + 1, Len(s)) = SubSeq(todo, first + 2, Len(todo))
      BY <2>3, SubSeqTail DEF HostTypes
    <2>8. \A i \in 2 .. (first + 1) - 1 : todo[i].op \notin Marks
      BY <1>1, <2>3, <2>6
    <2> HIDE DEF s
    <2>9. first + 1 + 1 = first + 2
      BY <2>3
    <2>10. Handler(e) = AtMark(first + 1, e)
      BY <2>3, <2>5, <2>7, <2>9 DEF AtMark
    <2>11. QED BY <1>1, <2>3, <2>4, <2>8, <2>10 DEF Marks
  <1>4. QED BY <1>2, <1>3

\* What is left of a script after an error is a script.
LEMMA HandlerTyped ==
    ASSUME HostTypes, todo # <<>>, NEW e
    PROVE  Handler(e).todo \in Seq(StepType) /\ Handler(e).caught \in BOOLEAN
  <1>1. <<>> \in Seq(StepType)
    OBVIOUS
  <1>2. ASSUME NEW k \in 2 .. Len(todo)
        PROVE  AtMark(k, e).todo \in Seq(StepType) /\ AtMark(k, e).caught \in BOOLEAN
    <2>1. SubSeq(todo, k + 1, Len(todo)) \in Seq(StepType)
      BY DEF HostTypes
    <2>2. {Raise("io"), Catch("any"), Raise("timeout")} \subseteq StepType
      BY StepsTyped DEF Errors, Catches
    <2>3. <<Raise("io")>> \in Seq(StepType)
          /\ <<Catch("any"), Raise("timeout")>> \in Seq(StepType)
      BY <2>2
    <2>4. idle \in Seq(StepType) /\ close \in Seq(StepType)
      BY IdleTyped DEF HostTypes, DeviceType
    <2>5. /\ close \o <<Raise("io")>> \in Seq(StepType)
          /\ idle \o <<Catch("any"), Raise("timeout")>> \in Seq(StepType)
      BY <2>3, <2>4, Concat
    <2>6. QED BY <1>1, <2>1, <2>5 DEF AtMark
  <1>3. CASE Handler(e) = [caught |-> FALSE, todo |-> <<>>]
    BY <1>1, <1>3
  <1>4. CASE \E k \in 2 .. Len(todo) : Handler(e) = AtMark(k, e)
    BY <1>2, <1>4
  <1>5. QED BY <1>3, <1>4, Handled

\* A failure keeps the host's types.
LEMMA FailTyped ==
    ASSUME HostTypes, todo # <<>>, NEW e \in Errors, Fail(e)
    PROVE  todo' \in Seq(StepType) /\ at' = "step" /\ result' \in Errors \cup {"ok"}
  BY HandlerTyped DEF Fail, HostTypes

\* The step that is to be done, and what follows it.
LEMMA HeadTyped ==
    ASSUME todo \in Seq(StepType), todo # <<>>
    PROVE  /\ Head(todo) \in StepType /\ Head(todo) = todo[1] /\ Tail(todo) \in Seq(StepType)
           /\ Len(todo) \in Nat \ {0} /\ Len(Tail(todo)) = Len(todo) - 1
           /\ \A i \in 1 .. Len(todo) - 1 : Tail(todo)[i] = todo[i + 1]
  OBVIOUS

\* What is left of a sequence.
LEMMA TailTyped ==
    ASSUME NEW S, NEW s \in Seq(S), s # <<>>
    PROVE  Tail(s) \in Seq(S) /\ Head(s) \in S
  OBVIOUS

\* What is put before a sequence.
LEMMA Prefix ==
    ASSUME NEW S, NEW s \in Seq(S), NEW t \in Seq(S)
    PROVE  /\ s \o t \in Seq(S) /\ Len(s \o t) = Len(s) + Len(t)
           /\ \A i \in 1 .. Len(s) : (s \o t)[i] = s[i]
           /\ \A i \in 1 .. Len(t) : (s \o t)[Len(s) + i] = t[i]
  OBVIOUS

\* Frames that grow old keep their type.
LEMMA AgedTyped ==
    ASSUME NEW S \in {Outgoing, Incoming}, NEW s \in Seq(S)
    PROVE  /\ Aged(s) \in Seq(S) /\ Len(Aged(s)) = Len(s)
           /\ \A i \in 1 .. Len(s) : Aged(s)[i] = [s[i] EXCEPT !.old = TRUE]
  <1> DEFINE F(i) == [s[i] EXCEPT !.old = TRUE]
  <1>1. \A i \in 1 .. Len(s) : s[i] \in S
    OBVIOUS
  <1>2. \A f \in S : [f EXCEPT !.old = TRUE] \in S
    <2>1. \A f \in Outgoing : [f EXCEPT !.old = TRUE] \in Outgoing
      BY DEF Outgoing, FrameType
    <2>2. \A f \in Incoming : [f EXCEPT !.old = TRUE] \in Incoming
      BY DEF Incoming, FrameType
    <2>3. QED BY <2>1, <2>2
  <1>3. DOMAIN s = 1 .. Len(s) /\ Len(s) \in Nat
    OBVIOUS
  <1>4. Aged(s) = [i \in 1 .. Len(s) |-> F(i)]
    BY <1>3 DEF Aged
  <1>5. \A i \in 1 .. Len(s) : F(i) \in S
    BY <1>1, <1>2
  <1> HIDE DEF F
  <1>6. Aged(s) \in Seq(S)
    BY <1>3, <1>4, <1>5, IsASeq
  <1>7. QED BY <1>3, <1>4, <1>6 DEF F

\* The frames the host sends.
LEMMA FrameTyped ==
    /\ \A s \in StepType : s.op \in {"cmd", "frame"} => Frame("cmd", s.name, s.arg) \in Outgoing
    /\ Frame("wake", Idling, {}) \in Outgoing /\ Frame("ack", Idling, {}) \in Outgoing
    /\ Frame("cmd", Idling, {}) \in RunningFrame
  BY ZenonT(20) DEF Frame, FrameType, Outgoing, RunningFrame, StepType, Name, Commands, Statuses,
     Idling, Prompt, Waiting

\* The types hold at the start.
LEMMA TypesInit == Init => Types
  <1> SUFFICES ASSUME Init PROVE Types
    OBVIOUS
  <1>1. NewDevice \in DeviceType
    BY DEF NewDevice, DeviceType
  <1>2. HostTypes
    <2>1. <<>> \in Seq(StepType)
      OBVIOUS
    <2>2. QED BY <1>1, <2>1 DEF Init, HostTypes, Calls
  <1>3. ChipTypes
    BY FrameTyped DEF Init, ChipTypes, Cold
  <1>4. SpentTypes
    BY BoundAssumption DEF Init, SpentTypes
  <1>5. QED BY <1>2, <1>3, <1>4 DEF Types

\* The steps of the script that send nothing keep the types.
LEMMA TypesSteps ==
    ASSUME Types, RaiseError \/ PassMark \/ SetFields \/ FlushInput \/ set_parameters
           \/ Remember
                  \/ WriteRegisters
    PROVE  Types'
  <1> USE DEF Types, DeviceType
  <1>1. todo # <<>> /\ HostTypes
    BY DEF RaiseError, PassMark, SetFields, FlushInput, set_parameters, Remember,
       WriteRegisters, Ready
  <1>2. Head(todo) \in StepType /\ Tail(todo) \in Seq(StepType)
    BY <1>1, HeadTyped DEF HostTypes
  <1>3. CASE RaiseError
    <2>1. Head(todo).name \in Errors
      BY <1>2, <1>3 DEF RaiseError, Ready, StepType
    <2>2. todo' \in Seq(StepType) /\ at' = "step" /\ result' \in Errors \cup {"ok"}
      BY <1>1, <1>3, <2>1, FailTyped DEF RaiseError
    <2>3. QED BY <1>3, <2>2 DEF RaiseError, Keep, HostTypes, ChipTypes, SpentTypes, line
  <1>4. CASE PassMark
    BY <1>2, <1>4 DEF PassMark, Ready, Keep, HostTypes, ChipTypes, SpentTypes, line
  <1>5. CASE SetFields
    <2>1. Head(todo).arg \subseteq Field
      BY <1>2, <1>5 DEF SetFields, Ready, StepType
    <2>2. QED BY <1>2, <1>5, <2>1, ZenonT(20) DEF SetFields, Ready, Keep, HostTypes, ChipTypes,
             SpentTypes, line
  <1>6. CASE FlushInput
    BY <1>2, <1>6 DEF FlushInput, Ready, Keep, HostTypes, ChipTypes, SpentTypes, line
  <1>7. CASE set_parameters
    <2>1. <<SetParameters("garbage")>> \o Tail(todo) \in Seq(StepType)
      BY <1>2, NamedSteps, Concat
    <2>2. todo' \in Seq(StepType)
      BY <1>2, <1>7, <2>1 DEF set_parameters
    <2>3. QED BY <1>7, <2>2 DEF set_parameters, Ready, Keep, HostTypes, ChipTypes, SpentTypes,
             line
  <1>8. CASE Remember
    <2>1. Head(todo).name \in {"free", "idle", "closed", "INITIATOR", "TARGET"}
      BY <1>2, <1>8 DEF Remember, Ready, StepType, Doings
    <2>2. pnd' \in DeviceType
      BY <1>8, <2>1 DEF Remember, HostTypes, NewDevice
    <2>3. QED BY <1>2, <1>8, <2>2 DEF Remember, Ready, Keep, HostTypes, ChipTypes, SpentTypes,
             line
  <1>9. CASE WriteRegisters
    <2>1. With("WriteRegister", pnd.pending) \in StepType
      BY StepsTyped DEF HostTypes
    <2>2. todo' \in Seq(StepType)
      BY <1>2, <1>9, <2>1, Concat DEF WriteRegisters
    <2>3. QED BY <1>9, <2>2 DEF WriteRegisters, Ready, Keep, HostTypes, ChipTypes, SpentTypes,
             line
  <1>10. QED BY <1>3, <1>4, <1>5, <1>6, <1>7, <1>8, <1>9

\* A frame that goes out keeps them.
LEMMA TransmitTyped ==
    ASSUME Types, todo # <<>>, Head(todo).op \in {"cmd", "frame"}, NEW before \in Seq(Outgoing),
           NEW flushed \in Seq(Incoming), Transmit(before, flushed)
    PROVE  ChipTypes' /\ at' = "ack" /\ todo' = todo
  <1>1. Head(todo) \in StepType
    BY HeadTyped DEF Types, HostTypes
  <1>2. <<Frame("cmd", Head(todo).name, Head(todo).arg)>> \in Seq(Outgoing)
    BY <1>1, FrameTyped
  <1>3. Aged(tx) \in Seq(Outgoing) /\ Aged(flushed) \in Seq(Incoming)
    BY AgedTyped DEF Types, ChipTypes
  <1>4. tx' \in Seq(Outgoing) /\ rx' \in Seq(Incoming)
    BY <1>2, <1>3, Concat DEF Transmit
  <1>5. [chip.running EXCEPT !.old = chip.running.name # Idling] \in RunningFrame
    BY DEF Types, ChipTypes, RunningFrame, FrameType
  <1>6. chip' = [chip EXCEPT !.running = [chip.running EXCEPT !.old = chip.running.name # Idling]]
    BY DEF Transmit, Types, ChipTypes
  <1>7. QED BY <1>4, <1>5, <1>6 DEF Transmit, Types, ChipTypes

\* The commands keep them.
LEMMA TypesSends ==
    ASSUME Types, SendCommand \/ SendFrame
    PROVE  Types'
  <1> USE DEF Types, DeviceType
  <1>1. /\ todo # <<>> /\ HostTypes /\ Head(todo).op \in {"cmd", "frame"}
        /\ Head(todo) \in StepType /\ Tail(todo) \in Seq(StepType)
    BY HeadTyped DEF SendCommand, SendFrame, Ready, HostTypes
  <1>2. Wake \in Seq(Outgoing) /\ <<>> \in Seq(Outgoing) /\ <<>> \in Seq(Incoming)
    BY FrameTyped DEF Wake
  <1>3. CASE SendFrame
    <2>1. ChipTypes' /\ at' = "ack" /\ todo' = todo
      BY <1>1, <1>2, <1>3, TransmitTyped DEF SendFrame, ChipTypes
    <2>2. QED BY <1>1, <1>3, <2>1 DEF SendFrame, Keep, HostTypes, SpentTypes
  <1>4. CASE SendCommand /\ pnd.trigged
    <2>1. WriteBack
      BY <1>4 DEF SendCommand
    <2>2. ReadRegister \in StepType /\ Write \in StepType
      BY StepsTyped, NamedSteps
    <2>3. todo' \in Seq(StepType)
      <3>1. <<>> \in Seq(StepType) /\ <<ReadRegister>> \in Seq(StepType)
            /\ <<Write>> \in Seq(StepType)
        BY <2>2
      <3>2. PICK first \in Seq(StepType) : todo' = first \o <<Write>> \o todo
        BY <2>1, <3>1 DEF WriteBack
      <3>3. QED BY <3>1, <3>2, Concat DEF HostTypes
    <2>4. at' = "step"
      BY <1>4, <2>1 DEF WriteBack, SendCommand, Ready
    <2>5. QED BY <1>4, <2>1, <2>3, <2>4 DEF SendCommand, WriteBack, Keep, HostTypes, ChipTypes,
             SpentTypes, line
  <1>5. CASE SendCommand /\ ~pnd.trigged /\ pnd.power = "LOWVBAT"
    <2>1. /\ tx' = tx \o Wake /\ rx' = <<>>
          /\ todo' = <<SAMConfiguration, [Head(todo) EXCEPT !.op = "frame"]>> \o Tail(todo)
          /\ pnd' = [pnd EXCEPT !.power = "NORMAL"]
          /\ UNCHANGED <<at, chip>>
      BY <1>5 DEF SendCommand
    <2>2. [Head(todo) EXCEPT !.op = "frame"] \in StepType
      BY <1>1 DEF StepType
    <2>3. todo' \in Seq(StepType)
      BY <1>1, <2>1, <2>2, NamedSteps, Concat
    <2>4. tx' \in Seq(Outgoing) /\ rx' \in Seq(Incoming)
      BY <1>2, <2>1, Concat DEF ChipTypes
    <2>5. at' = "step"
      BY <1>5, <2>1 DEF SendCommand, Ready
    <2>6. QED BY <1>5, <2>1, <2>3, <2>4, <2>5 DEF SendCommand, Keep, HostTypes, ChipTypes,
             SpentTypes
  <1>6. CASE SendCommand /\ ~pnd.trigged /\ pnd.power = "POWERDOWN"
    <2>1. Transmit(Wake, <<>>) /\ pnd' = [pnd EXCEPT !.power = "NORMAL"]
      BY <1>6 DEF SendCommand
    <2>2. ChipTypes' /\ at' = "ack" /\ todo' = todo
      BY <1>1, <1>2, <2>1, TransmitTyped
    <2>3. QED BY <1>1, <1>6, <2>1, <2>2 DEF SendCommand, Keep, HostTypes, SpentTypes
  <1>7. CASE SendCommand /\ ~pnd.trigged /\ pnd.power = "NORMAL"
    <2>1. Transmit(<<>>, <<>>) /\ UNCHANGED pnd
      BY <1>7 DEF SendCommand
    <2>2. ChipTypes' /\ at' = "ack" /\ todo' = todo
      BY <1>1, <1>2, <2>1, TransmitTyped
    <2>3. QED BY <1>1, <1>7, <2>1, <2>2 DEF SendCommand, Keep, HostTypes, SpentTypes
  <1>8. QED BY <1>3, <1>4, <1>5, <1>6, <1>7 DEF HostTypes

\* So does what comes back.
LEMMA TypesReplies ==
    ASSUME Types, ReceiveAck \/ ReceiveReply \/ TimeOut \/ StopCommand
    PROVE  Types'
  <1> USE DEF Types, DeviceType
  <1>1. todo # <<>> /\ HostTypes
    BY DEF ReceiveAck, ReceiveReply, TimeOut, StopCommand, Caught, HostTypes
  <1>2. Head(todo) \in StepType /\ Tail(todo) \in Seq(StepType)
    BY <1>1, HeadTyped DEF HostTypes
  <1>3. \A e \in Errors : Fail(e) => /\ todo' \in Seq(StepType) /\ at' = "step"
                                    /\ result' \in Errors \cup {"ok"}
    BY <1>1, FailTyped
  <1>4. {"io", "timeout", "aborted", "rf", "released"} \subseteq Errors
    BY DEF Errors
  <1>5. rx # <<>> => Head(rx) \in Incoming /\ Tail(rx) \in Seq(Incoming)
    BY DEF ChipTypes
  <1>6. CASE ReceiveAck
    <2>1. rx' \in Seq(Incoming)
      BY <1>5, <1>6 DEF ReceiveAck
    <2>2. CASE Head(rx).t = "ack"
      <3>1. pnd' \in DeviceType /\ at' = "reply" /\ todo' = todo /\ result' = result
        BY <1>6, <2>2 DEF ReceiveAck, HostTypes
      <3>2. QED BY <1>1, <1>6, <2>1, <3>1 DEF ReceiveAck, Keep, HostTypes, ChipTypes, SpentTypes
    <2>3. CASE Head(rx).t # "ack"
      <3>1. Fail("io") /\ UNCHANGED pnd
        BY <1>6, <2>3 DEF ReceiveAck
      <3>2. todo' \in Seq(StepType) /\ at' = "step" /\ result' \in Errors \cup {"ok"}
        BY <1>3, <1>4, <3>1
      <3>3. QED BY <1>6, <2>1, <3>1, <3>2 DEF ReceiveAck, Keep, HostTypes, ChipTypes, SpentTypes
    <2>4. QED BY <2>2, <2>3
  <1>7. CASE ReceiveReply
    <2>1. CASE Head(rx).t = "reply" /\ Head(rx).name = Head(todo).name
      <3>1. Accept(Head(rx)) /\ rx' = Tail(rx)
        BY <1>7, <2>1 DEF ReceiveReply
      <3>2. rx' \in Seq(Incoming) /\ Head(rx) \in Incoming
        BY <1>5, <1>7, <3>1 DEF ReceiveReply
      <3>3. pnd' \in DeviceType
        BY <3>1, <3>2 DEF Accept, HostTypes, Incoming, FrameType
      <3>4. /\ todo' \in Seq(StepType) /\ result' \in Errors \cup {"ok"} /\ at' = "step"
        <4>1. CASE Head(rx).st \in {"rf", "released"}
          <5>1. Fail(Head(rx).st)
            BY <3>1, <4>1 DEF Accept
          <5>2. QED BY <1>3, <1>4, <4>1, <5>1
        <4>2. CASE Head(rx).st = "stranger"
          BY <3>1, <4>2 DEF Accept, HostTypes
        <4>3. CASE Head(rx).st = "ok"
          <5>1. <<>> \in Seq(StepType)
            OBVIOUS
          <5>2. QED BY <1>2, <3>1, <4>3, <5>1 DEF Accept, HostTypes
        <4>4. QED BY <3>2, <4>1, <4>2, <4>3 DEF Incoming, FrameType, Statuses
      <3>5. QED BY <1>7, <3>2, <3>3, <3>4 DEF ReceiveReply, Keep, HostTypes, ChipTypes,
               SpentTypes
    <2>2. CASE ~(Head(rx).t = "reply" /\ Head(rx).name = Head(todo).name)
      <3>1. rx' = <<>> /\ Fail("io") /\ UNCHANGED pnd
        BY <1>7, <2>2 DEF ReceiveReply
      <3>2. todo' \in Seq(StepType) /\ at' = "step" /\ result' \in Errors \cup {"ok"}
        BY <1>3, <1>4, <3>1
      <3>3. rx' \in Seq(Incoming)
        BY <3>1
      <3>4. QED BY <1>7, <3>1, <3>2, <3>3 DEF ReceiveReply, Keep, HostTypes, ChipTypes,
               SpentTypes
    <2>3. QED BY <2>1, <2>2
  <1>8. CASE TimeOut
    <2>1. todo' \in Seq(StepType) /\ at' = "step" /\ result' \in Errors \cup {"ok"}
      BY <1>3, <1>4, <1>8 DEF TimeOut
    <2>2. QED BY <1>8, <2>1 DEF TimeOut, Keep, HostTypes, ChipTypes, SpentTypes, line
  <1>9. CASE StopCommand
    <2>1. todo' \in Seq(StepType) /\ at' = "step" /\ result' \in Errors \cup {"ok"}
      BY <1>3, <1>4, <1>9 DEF StopCommand
    <2>2. tx' \in Seq(Outgoing)
      <3>1. Wake \in Seq(Outgoing) /\ <<>> \in Seq(Outgoing)
            /\ <<Frame("ack", Idling, {})>> \in Seq(Outgoing)
        BY FrameTyped DEF Wake
      <3>2. PICK wake \in Seq(Outgoing) : tx' = tx \o wake \o <<Frame("ack", Idling, {})>>
        BY <1>9, <3>1 DEF StopCommand
      <3>3. QED BY <3>1, <3>2, Concat DEF ChipTypes
    <2>3. QED BY <1>9, <2>1, <2>2 DEF StopCommand, Keep, HostTypes, ChipTypes, SpentTypes
  <1>10. QED BY <1>6, <1>7, <1>8, <1>9

\* A call that begins, a process that ends, and the call that follows.
LEMMA BeginTyped ==
    ASSUME HostTypes, NEW c \in Calls \ {"none"}, Begin(c), draining' \in BOOLEAN, UNCHANGED pnd
    PROVE  HostTypes'
  BY ScriptTyped DEF Begin, HostTypes, DeviceType

LEMMA GoneTyped ==
    ASSUME Gone
    PROVE  HostTypes'
  <1>1. NewDevice \in DeviceType
    BY DEF NewDevice, DeviceType
  <1>2. <<>> \in Seq(StepType)
    OBVIOUS
  <1>3. QED BY <1>1, <1>2 DEF Gone, HostTypes, Calls

LEMMA NextCallsTyped ==
    ASSUME HostTypes, call # "none", NEW c \in NextCalls
    PROVE  c \in Calls
  <1>1. CASE result # "ok"
    BY <1>1 DEF NextCalls, Calls, HostTypes
  <1>2. CASE result = "ok"
    <2>1. call \in Calls \ {"none"}
      BY DEF HostTypes
    <2>2. QED BY <1>2, <2>1 DEF NextCalls, Calls
  <1>3. QED BY <1>1, <1>2

\* The program keeps the types.
LEMMA TypesProgram ==
    ASSUME Types, Segfault \/ Return \/ Start \/ Cancel \/ Kill \/ AbortCommand
    PROVE  Types'
  <1> USE DEF Types
  <1>1. CASE Segfault \/ Kill
    <2>1. HostTypes'
      BY <1>1, GoneTyped DEF Segfault, Kill
    <2>2. QED BY <1>1, <2>1 DEF Segfault, Kill, ChipTypes, SpentTypes, line
  <1>2. CASE Start
    <2>1. HostTypes'
      BY <1>2, BeginTyped DEF Start, HostTypes, Calls
    <2>2. SpentTypes'
      BY <1>2, BoundAssumption DEF Start, Spend, SpentTypes
    <2>3. QED BY <1>2, <2>1, <2>2 DEF Start, ChipTypes, line
  <1>3. CASE Cancel
    <2>1. HostTypes'
      BY <1>3, BeginTyped DEF Cancel, HostTypes, Calls
    <2>2. QED BY <1>3, <2>1 DEF Cancel, ChipTypes, SpentTypes, line
  <1>4. CASE AbortCommand
    <2>1. SpentTypes'
      BY <1>4, BoundAssumption DEF AbortCommand, Spend, SpentTypes
    <2>2. QED BY <1>4, <2>1 DEF AbortCommand, HostTypes, ChipTypes, line
  <1>5. CASE Return
    <2>1. HostTypes'
      <3>1. ASSUME NEW c \in NextCalls, IF c = "none" THEN Gone ELSE Begin(c)
                   /\ UNCHANGED <<draining, pnd>>
            PROVE  HostTypes'
        <4>1. c \in Calls
          BY <1>5, <3>1, NextCallsTyped DEF Return
        <4>2. QED BY <3>1, <4>1, GoneTyped, BeginTyped DEF HostTypes
      <3>2. CASE Begin("receive") /\ draining' = TRUE /\ UNCHANGED pnd
        BY <3>2, BeginTyped DEF HostTypes, Calls
      <3>3. QED BY <1>5, <3>1, <3>2 DEF Return
    <2>2. QED BY <1>5, <2>1 DEF Return, ChipTypes, SpentTypes, line
  <1>6. QED BY <1>1, <1>2, <1>3, <1>4, <1>5

\* What the chip answers is a reply.
LEMMA AnswerTyped ==
    ASSUME ChipTypes, chip.running.name \in Commands,
           NEW status \in StatusOf(chip.running.name),
           Answer(status)
    PROVE  rx' \in Seq(Incoming)
  <1>1. status \in Statuses
    BY DEF StatusOf, Outcomes, Statuses
  <1>2. [chip.running EXCEPT !.t = "reply", !.st = status,
             !.arg = IF chip.running.name = "ReadRegister" THEN chip.regs ELSE @] \in Incoming
    BY <1>1 DEF ChipTypes, FrameType, RunningFrame, Incoming, Args
  <1>3. QED BY <1>2 DEF Answer, ChipTypes

\* The chip and the line keep the types.
LEMMA TypesChip ==
    ASSUME Types, Takes \/ Executes \/ Hearing \/ Lose
    PROVE  Types'
  <1> USE DEF Types
  <1>1. Cold.running \in RunningFrame
    BY FrameTyped DEF Cold
  <1>2. CASE Takes
    <2> DEFINE f == Head(tx)
    <2>1. f \in Outgoing /\ tx' \in Seq(Outgoing)
      BY <1>2 DEF Takes, ChipTypes
    <2>2. CASE f.t \in {"wake", "ack"} \/ (f.t = "cmd" /\ ~Hears(f.name))
      <3>1. rx' = rx
            /\ chip' \in [power : {"lowvbat", "halfway", "down", "on"}, running : RunningFrame,
                 regs : SUBSET Field, default : BOOLEAN, field : BOOLEAN]
        BY <1>1, <1>2, <2>2 DEF Takes, ChipTypes
      <3>2. QED BY <1>2, <2>1, <3>1 DEF Takes, ChipTypes, host, HostTypes, SpentTypes
    <2>3. CASE f.t = "cmd" /\ Hears(f.name)
      <3>1. [f EXCEPT !.t = "ack"] \in Incoming /\ f \in RunningFrame
        BY <2>1, <2>3 DEF Outgoing, Incoming, RunningFrame, FrameType, StatusOf, Outcomes
      <3>2. rx' \in Seq(Incoming)
        <4>1. rx' = Append(rx, [f EXCEPT !.t = "ack"])
          BY <1>2, <2>3 DEF Takes
        <4> HIDE DEF f
        <4>2. QED BY <3>1, <4>1 DEF ChipTypes
      <3>3. chip' \in [power : {"lowvbat", "halfway", "down", "on"}, running : RunningFrame,
                 regs : SUBSET Field, default : BOOLEAN, field : BOOLEAN]
        BY <1>2, <2>1, <2>3, <3>1 DEF Takes, ChipTypes
      <3>4. QED BY <1>2, <2>1, <3>2, <3>3 DEF Takes, ChipTypes, host, HostTypes, SpentTypes
    <2>4. QED BY <2>1, <2>2, <2>3 DEF Outgoing
  <1>3. CASE Executes
    <2>1. rx' \in Seq(Incoming)
      BY <1>3, AnswerTyped DEF Executes, StatusOf, Commands
    <2>2. chip.running \in RunningFrame
      BY DEF ChipTypes
    <2>3. chip' \in [power : {"lowvbat", "halfway", "down", "on"}, running : RunningFrame,
                 regs : SUBSET Field, default : BOOLEAN, field : BOOLEAN]
      BY <1>1, <1>3, <2>2 DEF Executes, ChipTypes, RunningFrame, FrameType
    <2>4. QED BY <1>3, <2>1, <2>3 DEF Executes, Answer, ChipTypes, host, HostTypes, SpentTypes
  <1>4. CASE Hearing
    <2>1. role' = role /\ (spent' = spent \/ spent' = [spent EXCEPT !.strangers = @ + 1])
      BY <1>4 DEF Hearing, Spend, Answer
    <2>2. SpentTypes'
      <3>1. CASE spent' = spent
        BY <2>1, <3>1 DEF SpentTypes
      <3>2. CASE spent' = [spent EXCEPT !.strangers = @ + 1] /\ spent.strangers < MaxStrangers
        BY <2>1, <3>2, BoundAssumption DEF SpentTypes
      <3>3. QED BY <1>4, <3>1, <3>2 DEF Hearing, Spend
    <2>3. rx' \in Seq(Incoming)
      BY <1>4, AnswerTyped DEF Hearing, StatusOf, Commands, Waiting, Prompt, Outcomes
    <2>4. QED BY <1>1, <1>4, <2>1, <2>2, <2>3 DEF Hearing, Answer, ChipTypes, host, HostTypes
  <1>5. CASE Lose
    <2>1. SpentTypes'
      BY <1>5, BoundAssumption, SMTT(20) DEF Lose, Spend, SpentTypes
    <2>2. tx' \in Seq(Outgoing) /\ rx' \in Seq(Incoming)
      <3>1. /\ tx' = tx \/ (tx # <<>> /\ tx' = Tail(tx))
            /\ rx' = rx \/ (rx # <<>> /\ rx' = Tail(rx))
        BY <1>5 DEF Lose
      <3>2. tx' \in Seq(Outgoing)
        BY <3>1, TailTyped, SMTT(20) DEF ChipTypes
      <3>3. rx' \in Seq(Incoming)
        BY <3>1, TailTyped, SMTT(20) DEF ChipTypes
      <3>4. QED BY <3>2, <3>3
    <2>3. QED BY <1>5, <2>1, <2>2 DEF Lose, ChipTypes, host, HostTypes
  <1>6. QED BY <1>2, <1>3, <1>4, <1>5

\* Every step keeps the types.
LEMMA TypesNext == Types /\ [Next]_vars => Types'
  <1> SUFFICES ASSUME Types, [Next]_vars PROVE Types'
    OBVIOUS
  <1>1. CASE UNCHANGED vars
    BY <1>1 DEF vars, host, line, Types, HostTypes, ChipTypes, SpentTypes
  <1>2. CASE HostStep
    BY <1>2, TypesSteps, TypesSends, TypesReplies, TypesProgram DEF HostStep
  <1>3. CASE ChipStep \/ Hearing \/ Lose
    BY <1>3, TypesChip DEF ChipStep
  <1>4. CASE Start \/ Cancel \/ Kill \/ AbortCommand
    BY <1>4, TypesProgram
  <1>5. QED BY <1>1, <1>2, <1>3, <1>4 DEF Next

DiagnoseFrame == [Diagnose EXCEPT !.op = "frame"]
Garbage == SetParameters("garbage")

-----------------------------------------------------------------------------
\* The place of the host: scripts, counted from their end.

\* Where the host is: (m, n), the script m, of which the last n steps are left.  A script
\* is an API call, or what a failure has put in its place; Back counts its steps from the
\* end.
Modes == {"none", "open", "failed_open", "initiator_init", "poll", "exchange", "deselect",
          "target_init", "timed_out", "receive", "send", "close", "close_target"}
CallOf(m) == CASE m = "failed_open" -> "open" [] m = "timed_out" -> "target_init"
               [] m = "close_target" -> "close" [] OTHER -> m
LastPoll == 4 * Polls + 2
Length(m) ==
  CASE m = "none" -> 0 [] m \in {"open", "failed_open"} -> 7 [] m = "initiator_init" -> 8
    [] m = "poll" -> LastPoll [] m = "deselect" -> 2 [] m = "target_init" -> 13
    [] m = "close" -> 6 [] m \in {"close_target", "timed_out"} -> 5 [] OTHER -> 1
Back(m) ==
  CASE m = "open" -> <<Catch("any"), reset_settings, SetParameters("default"),
       GetFirmwareVersion, Catch("close"), Diagnose, Do("flush")>>
    [] m = "failed_open" -> <<Raise("io"), Do("closed"), Catch("any"), Do("idle"), PowerDown,
        RFField("off"), InRelease>>
    [] m = "initiator_init" -> <<Do("INITIATOR"), Set({"initiator"}), reset_settings,
        Set(Iso14443a \cup {"noerror", "multiple"}), Do("parameters"), MaxRetries,
        RFField("on"), RFField("off")>>
    [] m = "poll" -> [k \in 1 .. LastPoll
        |-> IF k = 1 THEN Raise("absent") ELSE IF k = LastPoll THEN MaxRetries
             ELSE Rounds[LastPoll - k]]
    [] m = "exchange" -> <<InDataExchange>>
    [] m = "deselect" -> <<InDeselect, Do("free")>>
    [] m = "target_init" -> <<Catch("idle"), TgInitAsTarget, Try, Set({"rfon"}), Catch("any"),
        Do("parameters"), Try, Do("TARGET"), reset_settings, RFField("off"), Do("parameters"),
        reset_settings, Set({"noerror", "multiple"})>>
    [] m = "timed_out" -> <<Raise("timeout"), Catch("any"), Do("idle"), PowerDown, InRelease>>
    [] m = "receive" -> <<TgGetData>>
    [] m = "send" -> <<TgSetData>>
    [] m = "close" -> <<Do("closed"), Catch("any"), Do("idle"), PowerDown, RFField("off"),
        InRelease>>
    [] m = "close_target" -> <<Do("closed"), Catch("any"), Do("idle"), PowerDown, InRelease>>
StepAt(m, k) == Back(m)[k]

\* The scripts, from their end.
LEMMA Scripts ==
    /\ StepAt("open", 1) = Catch("any")
    /\ StepAt("open", 2) = reset_settings
    /\ StepAt("open", 3) = SetParameters("default")
    /\ StepAt("open", 4) = GetFirmwareVersion
    /\ StepAt("open", 5) = Catch("close")
    /\ StepAt("open", 6) = Diagnose
    /\ StepAt("open", 7) = Do("flush")
    /\ StepAt("failed_open", 1) = Raise("io")
    /\ StepAt("failed_open", 2) = Do("closed")
    /\ StepAt("failed_open", 3) = Catch("any")
    /\ StepAt("failed_open", 4) = Do("idle")
    /\ StepAt("failed_open", 5) = PowerDown
    /\ StepAt("failed_open", 6) = RFField("off")
    /\ StepAt("failed_open", 7) = InRelease
    /\ StepAt("initiator_init", 1) = Do("INITIATOR")
    /\ StepAt("initiator_init", 2) = Set({"initiator"})
    /\ StepAt("initiator_init", 3) = reset_settings
    /\ StepAt("initiator_init", 4) = Set(Iso14443a \cup {"noerror", "multiple"})
    /\ StepAt("initiator_init", 5) = Do("parameters")
    /\ StepAt("initiator_init", 6) = MaxRetries
    /\ StepAt("initiator_init", 7) = RFField("on")
    /\ StepAt("initiator_init", 8) = RFField("off")
    /\ StepAt("deselect", 1) = InDeselect
    /\ StepAt("deselect", 2) = Do("free")
    /\ StepAt("target_init", 1) = Catch("idle")
    /\ StepAt("target_init", 2) = TgInitAsTarget
    /\ StepAt("target_init", 3) = Try
    /\ StepAt("target_init", 4) = Set({"rfon"})
    /\ StepAt("target_init", 5) = Catch("any")
    /\ StepAt("target_init", 6) = Do("parameters")
    /\ StepAt("target_init", 7) = Try
    /\ StepAt("target_init", 8) = Do("TARGET")
    /\ StepAt("target_init", 9) = reset_settings
    /\ StepAt("target_init", 10) = RFField("off")
    /\ StepAt("target_init", 11) = Do("parameters")
    /\ StepAt("target_init", 12) = reset_settings
    /\ StepAt("target_init", 13) = Set({"noerror", "multiple"})
    /\ StepAt("timed_out", 1) = Raise("timeout")
    /\ StepAt("timed_out", 2) = Catch("any")
    /\ StepAt("timed_out", 3) = Do("idle")
    /\ StepAt("timed_out", 4) = PowerDown
    /\ StepAt("timed_out", 5) = InRelease
    /\ StepAt("close", 1) = Do("closed")
    /\ StepAt("close", 2) = Catch("any")
    /\ StepAt("close", 3) = Do("idle")
    /\ StepAt("close", 4) = PowerDown
    /\ StepAt("close", 5) = RFField("off")
    /\ StepAt("close", 6) = InRelease
    /\ StepAt("close_target", 1) = Do("closed")
    /\ StepAt("close_target", 2) = Catch("any")
    /\ StepAt("close_target", 3) = Do("idle")
    /\ StepAt("close_target", 4) = PowerDown
    /\ StepAt("close_target", 5) = InRelease
    /\ StepAt("exchange", 1) = InDataExchange
    /\ StepAt("receive", 1) = TgGetData
    /\ StepAt("send", 1) = TgSetData
  BY DEF StepAt, Back

\* Where in a round a step of poll is.
Phase(k) == (LastPoll - 1 - k) % 4

\* The steps of poll.
LEMMA PollSteps ==
    ASSUME NEW k \in 1 .. LastPoll
    PROVE /\ k = 1 => StepAt("poll", k) = Raise("absent")
          /\ k = LastPoll => StepAt("poll", k) = MaxRetries
          /\ k \in 2 .. LastPoll - 1 =>
               /\ Phase(k) \in 0 .. 3
               /\ Phase(k) = 0 => StepAt("poll", k) = Try
               /\ Phase(k) = 1 => StepAt("poll", k) = Do("free")
               /\ Phase(k) = 2 => StepAt("poll", k) = InJumpForDEP
               /\ Phase(k) = 3 => StepAt("poll", k) = Catch("timeout")
  <1>1. Polls \in Nat /\ LastPoll \in Nat /\ LastPoll = 4 * Polls + 2 /\ k \in Nat
    BY BoundAssumption DEF LastPoll
  <1>2. StepAt("poll", k) = IF k = 1 THEN Raise("absent") ELSE IF k = LastPoll THEN MaxRetries
             ELSE Rounds[LastPoll - k]
    BY DEF StepAt, Back
  <1>3. CASE k \in {1, LastPoll}
    BY <1>1, <1>2, <1>3
  <1>4. CASE k \notin {1, LastPoll}
    <2>1. StepAt("poll", k) = select_dep_target[1 + Phase(k)]
      <3>1. LastPoll - k \in 1 .. 4 * Polls /\ LastPoll - k - 1 = LastPoll - 1 - k
        BY <1>1, <1>4
      <3>2. QED BY <1>2, <1>4, <3>1 DEF Rounds, Phase
    <2>2. Phase(k) \in 0 .. 3
      BY <1>1 DEF Phase
    <2>3. /\ select_dep_target[1 + 0] = Try /\ select_dep_target[1 + 1] = Do("free")
          /\ select_dep_target[1 + 2] = InJumpForDEP
             /\ select_dep_target[1 + 3] = Catch("timeout")
      BY DEF select_dep_target
    <2>4. QED BY <1>1, <1>4, <2>1, <2>2, <2>3
  <1>5. QED BY <1>3, <1>4

\* InJumpForDEP is followed by the mark that catches its timeout.
LEMMA PhaseNext ==
    ASSUME NEW k \in 3 .. LastPoll - 1, Phase(k) = 2
    PROVE  k - 1 \in 2 .. LastPoll - 1 /\ Phase(k - 1) = 3
  <1>1. LastPoll \in Nat /\ k \in Int /\ LastPoll - 1 - (k - 1) = (LastPoll - 1 - k) + 1
    BY BoundAssumption DEF LastPoll
  <1> DEFINE x == LastPoll - 1 - k
  <1>2. x \in Int /\ x % 4 = 2
    BY <1>1 DEF Phase
  <1> HIDE DEF x
  <1>3. (x + 1) % 4 = 3
    BY <1>2
  <1>4. QED BY <1>1, <1>3 DEF Phase, x

\* What is before those n steps: the cache, parameters that were never set, or the wake-up.
Cached(h) == \/ h = 1 /\ todo[1] = Write
             \/ h = 2 /\ todo[1] = ReadRegister /\ todo[2] = Write
             \/ h = 1 /\ todo[1].op = "cmd" /\ todo[1].name = "WriteRegister"
Garbled(m, n) == (m = "initiator_init" /\ n = 4) \/ (m = "target_init" /\ n \in {5, 10})
Inserted(m, n, h) ==
  \/ h = 0
  \/ m = "open" /\ n = 5 /\ todo[h] = DiagnoseFrame
     /\ (h = 1 \/ (h = 2 /\ todo[1] = SAMConfiguration))
  \/ Garbled(m, n) /\ todo[h] = Garbage /\ (h = 1 \/ Cached(h - 1))
  \/ m \in {"initiator_init", "poll", "target_init"} /\ n >= 1 /\ StepAt(m, n).op = "cmd"
     /\ Cached(h)

\* The script s ends with the last n steps of m.
Ends(s, m, n) == Len(s) >= n /\ \A k \in 1 .. n : s[Len(s) + 1 - k] = StepAt(m, k)

\* The host is at (m, n).
Where(m, n) ==
  /\ m \in Modes /\ n \in 0 .. Length(m) /\ call = CallOf(m)
  /\ Ends(todo, m, n) /\ Inserted(m, n, Len(todo) - n)

\* The steps and their parts.
Is(s, op, name) == s.op = op /\ s.name = name

LEMMA Parts ==
    /\ Is(Diagnose, "cmd", "Diagnose") /\ Is(DiagnoseFrame, "frame", "Diagnose")
    /\ Is(GetFirmwareVersion, "cmd", "GetFirmwareVersion")
    /\ Is(SAMConfiguration, "cmd", "SAMConfiguration")
       /\ Is(ReadRegister, "cmd", "ReadRegister")
    /\ Is(MaxRetries, "cmd", "RFConfiguration") /\ MaxRetries.arg = {}
    /\ Is(PowerDown, "cmd", "PowerDown") /\ Is(InRelease, "cmd", "InRelease")
    /\ Is(InDeselect, "cmd", "InDeselect") /\ Is(InDataExchange, "cmd", "InDataExchange")
    /\ Is(InJumpForDEP, "cmd", "InJumpForDEP") /\ Is(TgInitAsTarget, "cmd", "TgInitAsTarget")
    /\ Is(TgGetData, "cmd", "TgGetData") /\ Is(TgSetData, "cmd", "TgSetData")
    /\ Is(Write, "write", "") /\ Is(Try, "try", "") /\ Is(Garbage, "cmd", "SetParameters")
  BY DEF Is, Diagnose, DiagnoseFrame, GetFirmwareVersion, SAMConfiguration, ReadRegister,
     MaxRetries, PowerDown, InRelease, InDeselect, InDataExchange, InJumpForDEP, TgInitAsTarget,
     TgGetData, TgSetData, Write, Try, Garbage, SetParameters, Cmd, With, Step

\* The lengths of the scripts.
LEMMA Lengths ==
    /\ Length("open") = 7
    /\ Length("failed_open") = 7
    /\ Length("initiator_init") = 8
    /\ Length("deselect") = 2
    /\ Length("target_init") = 13
    /\ Length("timed_out") = 5
    /\ Length("close") = 6
    /\ Length("close_target") = 5
    /\ Length("exchange") = 1
    /\ Length("receive") = 1
    /\ Length("send") = 1
    /\ Length("none") = 0
    /\ Length("poll") = LastPoll
  BY DEF Length

\* A step that sets fields has them.
LEMMA SetParts ==
    ASSUME NEW f
    PROVE  Set(f).op = "set" /\ Set(f).arg = f
  BY DEF Set, Step

\* What each step of each script is.
LEMMA StepsOpen ==
    ASSUME NEW n \in 1 .. Length("open"), NEW s, s = StepAt("open", n)
    PROVE  \/ n = 1 /\ s.op = "catch" /\ s.name = "any"
           \/ n = 2 /\ s.op = "set" /\ s.arg = {"txbits", "crypto", "parity"} \cup Crc
           \/ n = 3 /\ s.op = "cmd" /\ s.name = "SetParameters"
           \/ n = 4 /\ s.op = "cmd" /\ s.name = "GetFirmwareVersion"
           \/ n = 5 /\ s.op = "catch" /\ s.name = "close"
           \/ n = 6 /\ s.op = "cmd" /\ s.name = "Diagnose"
           \/ n = 7 /\ s.op = "do" /\ s.name = "flush"
  <1>1. n \in 1 .. 7
    BY Lengths
  <1>2. CASE n = 1
    BY <1>2, Scripts DEF Catch, Step
  <1>3. CASE n = 2
    <2>1. s = Set({"txbits", "crypto", "parity"} \cup Crc)
      BY <1>3, Scripts DEF reset_settings
    <2>2. s.op = "set" /\ s.arg = {"txbits", "crypto", "parity"} \cup Crc
      BY <2>1, SetParts, Zenon
    <2>3. QED BY <1>3, <2>2, Zenon
  <1>4. CASE n = 3
    BY <1>4, Scripts DEF SetParameters, With, Step
  <1>5. CASE n = 4
    BY <1>5, Scripts, Parts, ZenonT(20) DEF Is
  <1>6. CASE n = 5
    BY <1>6, Scripts DEF Catch, Step
  <1>7. CASE n = 6
    BY <1>7, Scripts, Parts, ZenonT(20) DEF Is
  <1>8. CASE n = 7
    BY <1>8, Scripts DEF Do, Step
  <1>9. QED BY <1>1, <1>2, <1>3, <1>4, <1>5, <1>6, <1>7, <1>8

LEMMA StepsFailedOpen ==
    ASSUME NEW n \in 1 .. Length("failed_open"), NEW s, s = StepAt("failed_open", n)
    PROVE  \/ n = 1 /\ s.op = "raise" /\ s.name = "io"
           \/ n = 2 /\ s.op = "do" /\ s.name = "closed"
           \/ n = 3 /\ s.op = "catch" /\ s.name = "any"
           \/ n = 4 /\ s.op = "do" /\ s.name = "idle"
           \/ n = 5 /\ s.op = "cmd" /\ s.name = "PowerDown"
           \/ n = 6 /\ s.op = "cmd" /\ s.name = "RFConfiguration" /\ s.arg = {"off"}
           \/ n = 7 /\ s.op = "cmd" /\ s.name = "InRelease"
  <1>1. n \in 1 .. 7
    BY Lengths
  <1>2. CASE n = 1
    BY <1>2, Scripts DEF Raise, Step
  <1>3. CASE n = 2
    BY <1>3, Scripts DEF Do, Step
  <1>4. CASE n = 3
    BY <1>4, Scripts DEF Catch, Step
  <1>5. CASE n = 4
    BY <1>5, Scripts DEF Do, Step
  <1>6. CASE n = 5
    BY <1>6, Scripts, Parts, ZenonT(20) DEF Is
  <1>7. CASE n = 6
    BY <1>7, Scripts DEF RFField, With, Step
  <1>8. CASE n = 7
    BY <1>8, Scripts, Parts, ZenonT(20) DEF Is
  <1>9. QED BY <1>1, <1>2, <1>3, <1>4, <1>5, <1>6, <1>7, <1>8

LEMMA StepsInitiatorInit ==
    ASSUME NEW n \in 1 .. Length("initiator_init"), NEW s, s = StepAt("initiator_init", n)
    PROVE  \/ n = 1 /\ s.op = "do" /\ s.name = "INITIATOR"
           \/ n = 2 /\ s.op = "set" /\ s.arg = {"initiator"}
           \/ n = 3 /\ s.op = "set" /\ s.arg = {"txbits", "crypto", "parity"} \cup Crc
           \/ n = 4 /\ s.op = "set" /\ s.arg = Iso14443a \cup {"noerror", "multiple"}
           \/ n = 5 /\ s.op = "do" /\ s.name = "parameters"
           \/ n = 6 /\ s.op = "cmd" /\ s.name = "RFConfiguration" /\ s.arg = {}
           \/ n = 7 /\ s.op = "cmd" /\ s.name = "RFConfiguration" /\ s.arg = {"on"}
           \/ n = 8 /\ s.op = "cmd" /\ s.name = "RFConfiguration" /\ s.arg = {"off"}
  <1>1. n \in 1 .. 8
    BY Lengths
  <1>2. CASE n = 1
    BY <1>2, Scripts DEF Do, Step
  <1>3. CASE n = 2
    <2>1. s = Set({"initiator"})
      BY <1>3, Scripts
    <2>2. s.op = "set" /\ s.arg = {"initiator"}
      BY <2>1, SetParts, Zenon
    <2>3. QED BY <1>3, <2>2, Zenon
  <1>4. CASE n = 3
    <2>1. s = Set({"txbits", "crypto", "parity"} \cup Crc)
      BY <1>4, Scripts DEF reset_settings
    <2>2. s.op = "set" /\ s.arg = {"txbits", "crypto", "parity"} \cup Crc
      BY <2>1, SetParts, Zenon
    <2>3. QED BY <1>4, <2>2, Zenon
  <1>5. CASE n = 4
    <2>1. s = Set(Iso14443a \cup {"noerror", "multiple"})
      BY <1>5, Scripts
    <2>2. s.op = "set" /\ s.arg = Iso14443a \cup {"noerror", "multiple"}
      BY <2>1, SetParts, Zenon
    <2>3. QED BY <1>5, <2>2, Zenon
  <1>6. CASE n = 5
    BY <1>6, Scripts DEF Do, Step
  <1>7. CASE n = 6
    BY <1>7, Scripts, Parts, ZenonT(20) DEF Is
  <1>8. CASE n = 7
    BY <1>8, Scripts DEF RFField, With, Step
  <1>9. CASE n = 8
    BY <1>9, Scripts DEF RFField, With, Step
  <1>10. QED BY <1>1, <1>2, <1>3, <1>4, <1>5, <1>6, <1>7, <1>8, <1>9

LEMMA StepsDeselect ==
    ASSUME NEW n \in 1 .. Length("deselect"), NEW s, s = StepAt("deselect", n)
    PROVE  \/ n = 1 /\ s.op = "cmd" /\ s.name = "InDeselect"
           \/ n = 2 /\ s.op = "do" /\ s.name = "free"
  <1>1. n \in 1 .. 2
    BY Lengths
  <1>2. CASE n = 1
    BY <1>2, Scripts, Parts, ZenonT(20) DEF Is
  <1>3. CASE n = 2
    BY <1>3, Scripts DEF Do, Step
  <1>4. QED BY <1>1, <1>2, <1>3

LEMMA StepsTargetInit ==
    ASSUME NEW n \in 1 .. Length("target_init"), NEW s, s = StepAt("target_init", n)
    PROVE  \/ n = 1 /\ s.op = "catch" /\ s.name = "idle"
           \/ n = 2 /\ s.op = "cmd" /\ s.name = "TgInitAsTarget"
           \/ n = 3 /\ s.op = "try"
           \/ n = 4 /\ s.op = "set" /\ s.arg = {"rfon"}
           \/ n = 5 /\ s.op = "catch" /\ s.name = "any"
           \/ n = 6 /\ s.op = "do" /\ s.name = "parameters"
           \/ n = 7 /\ s.op = "try"
           \/ n = 8 /\ s.op = "do" /\ s.name = "TARGET"
           \/ n = 9 /\ s.op = "set" /\ s.arg = {"txbits", "crypto", "parity"} \cup Crc
           \/ n = 10 /\ s.op = "cmd" /\ s.name = "RFConfiguration" /\ s.arg = {"off"}
           \/ n = 11 /\ s.op = "do" /\ s.name = "parameters"
           \/ n = 12 /\ s.op = "set" /\ s.arg = {"txbits", "crypto", "parity"} \cup Crc
           \/ n = 13 /\ s.op = "set" /\ s.arg = {"noerror", "multiple"}
  <1>1. n \in 1 .. 13
    BY Lengths
  <1>2. CASE n = 1
    BY <1>2, Scripts DEF Catch, Step
  <1>3. CASE n = 2
    BY <1>3, Scripts, Parts, ZenonT(20) DEF Is
  <1>4. CASE n = 3
    BY <1>4, Scripts, Parts, ZenonT(20) DEF Is
  <1>5. CASE n = 4
    <2>1. s = Set({"rfon"})
      BY <1>5, Scripts
    <2>2. s.op = "set" /\ s.arg = {"rfon"}
      BY <2>1, SetParts, Zenon
    <2>3. QED BY <1>5, <2>2, Zenon
  <1>6. CASE n = 5
    BY <1>6, Scripts DEF Catch, Step
  <1>7. CASE n = 6
    BY <1>7, Scripts DEF Do, Step
  <1>8. CASE n = 7
    BY <1>8, Scripts, Parts, ZenonT(20) DEF Is
  <1>9. CASE n = 8
    BY <1>9, Scripts DEF Do, Step
  <1>10. CASE n = 9
    <2>1. s = Set({"txbits", "crypto", "parity"} \cup Crc)
      BY <1>10, Scripts DEF reset_settings
    <2>2. s.op = "set" /\ s.arg = {"txbits", "crypto", "parity"} \cup Crc
      BY <2>1, SetParts, Zenon
    <2>3. QED BY <1>10, <2>2, Zenon
  <1>11. CASE n = 10
    BY <1>11, Scripts DEF RFField, With, Step
  <1>12. CASE n = 11
    BY <1>12, Scripts DEF Do, Step
  <1>13. CASE n = 12
    <2>1. s = Set({"txbits", "crypto", "parity"} \cup Crc)
      BY <1>13, Scripts DEF reset_settings
    <2>2. s.op = "set" /\ s.arg = {"txbits", "crypto", "parity"} \cup Crc
      BY <2>1, SetParts, Zenon
    <2>3. QED BY <1>13, <2>2, Zenon
  <1>14. CASE n = 13
    <2>1. s = Set({"noerror", "multiple"})
      BY <1>14, Scripts
    <2>2. s.op = "set" /\ s.arg = {"noerror", "multiple"}
      BY <2>1, SetParts, Zenon
    <2>3. QED BY <1>14, <2>2, Zenon
  <1>15. QED BY <1>1, <1>2, <1>3, <1>4, <1>5, <1>6, <1>7, <1>8, <1>9, <1>10, <1>11, <1>12,
            <1>13, <1>14

LEMMA StepsTimedOut ==
    ASSUME NEW n \in 1 .. Length("timed_out"), NEW s, s = StepAt("timed_out", n)
    PROVE  \/ n = 1 /\ s.op = "raise" /\ s.name = "timeout"
           \/ n = 2 /\ s.op = "catch" /\ s.name = "any"
           \/ n = 3 /\ s.op = "do" /\ s.name = "idle"
           \/ n = 4 /\ s.op = "cmd" /\ s.name = "PowerDown"
           \/ n = 5 /\ s.op = "cmd" /\ s.name = "InRelease"
  <1>1. n \in 1 .. 5
    BY Lengths
  <1>2. CASE n = 1
    BY <1>2, Scripts DEF Raise, Step
  <1>3. CASE n = 2
    BY <1>3, Scripts DEF Catch, Step
  <1>4. CASE n = 3
    BY <1>4, Scripts DEF Do, Step
  <1>5. CASE n = 4
    BY <1>5, Scripts, Parts, ZenonT(20) DEF Is
  <1>6. CASE n = 5
    BY <1>6, Scripts, Parts, ZenonT(20) DEF Is
  <1>7. QED BY <1>1, <1>2, <1>3, <1>4, <1>5, <1>6

LEMMA StepsClose ==
    ASSUME NEW n \in 1 .. Length("close"), NEW s, s = StepAt("close", n)
    PROVE  \/ n = 1 /\ s.op = "do" /\ s.name = "closed"
           \/ n = 2 /\ s.op = "catch" /\ s.name = "any"
           \/ n = 3 /\ s.op = "do" /\ s.name = "idle"
           \/ n = 4 /\ s.op = "cmd" /\ s.name = "PowerDown"
           \/ n = 5 /\ s.op = "cmd" /\ s.name = "RFConfiguration" /\ s.arg = {"off"}
           \/ n = 6 /\ s.op = "cmd" /\ s.name = "InRelease"
  <1>1. n \in 1 .. 6
    BY Lengths
  <1>2. CASE n = 1
    BY <1>2, Scripts DEF Do, Step
  <1>3. CASE n = 2
    BY <1>3, Scripts DEF Catch, Step
  <1>4. CASE n = 3
    BY <1>4, Scripts DEF Do, Step
  <1>5. CASE n = 4
    BY <1>5, Scripts, Parts, ZenonT(20) DEF Is
  <1>6. CASE n = 5
    BY <1>6, Scripts DEF RFField, With, Step
  <1>7. CASE n = 6
    BY <1>7, Scripts, Parts, ZenonT(20) DEF Is
  <1>8. QED BY <1>1, <1>2, <1>3, <1>4, <1>5, <1>6, <1>7

LEMMA StepsCloseTarget ==
    ASSUME NEW n \in 1 .. Length("close_target"), NEW s, s = StepAt("close_target", n)
    PROVE  \/ n = 1 /\ s.op = "do" /\ s.name = "closed"
           \/ n = 2 /\ s.op = "catch" /\ s.name = "any"
           \/ n = 3 /\ s.op = "do" /\ s.name = "idle"
           \/ n = 4 /\ s.op = "cmd" /\ s.name = "PowerDown"
           \/ n = 5 /\ s.op = "cmd" /\ s.name = "InRelease"
  <1>1. n \in 1 .. 5
    BY Lengths
  <1>2. CASE n = 1
    BY <1>2, Scripts DEF Do, Step
  <1>3. CASE n = 2
    BY <1>3, Scripts DEF Catch, Step
  <1>4. CASE n = 3
    BY <1>4, Scripts DEF Do, Step
  <1>5. CASE n = 4
    BY <1>5, Scripts, Parts, ZenonT(20) DEF Is
  <1>6. CASE n = 5
    BY <1>6, Scripts, Parts, ZenonT(20) DEF Is
  <1>7. QED BY <1>1, <1>2, <1>3, <1>4, <1>5, <1>6

LEMMA StepsExchange ==
    ASSUME NEW n \in 1 .. Length("exchange"), NEW s, s = StepAt("exchange", n)
    PROVE  \/ n = 1 /\ s.op = "cmd" /\ s.name = "InDataExchange"
  <1>1. n \in 1 .. 1
    BY Lengths
  <1>2. CASE n = 1
    BY <1>2, Scripts, Parts, ZenonT(20) DEF Is
  <1>3. QED BY <1>1, <1>2

LEMMA StepsReceive ==
    ASSUME NEW n \in 1 .. Length("receive"), NEW s, s = StepAt("receive", n)
    PROVE  \/ n = 1 /\ s.op = "cmd" /\ s.name = "TgGetData"
  <1>1. n \in 1 .. 1
    BY Lengths
  <1>2. CASE n = 1
    BY <1>2, Scripts, Parts, ZenonT(20) DEF Is
  <1>3. QED BY <1>1, <1>2

LEMMA StepsSend ==
    ASSUME NEW n \in 1 .. Length("send"), NEW s, s = StepAt("send", n)
    PROVE  \/ n = 1 /\ s.op = "cmd" /\ s.name = "TgSetData"
  <1>1. n \in 1 .. 1
    BY Lengths
  <1>2. CASE n = 1
    BY <1>2, Scripts, Parts, ZenonT(20) DEF Is
  <1>3. QED BY <1>1, <1>2

\* The lengths are numbers.
LEMMA LengthNat == \A m \in Modes : Length(m) \in Nat
  BY BoundAssumption DEF Length, LastPoll, Modes

\* The calls that write the cache.
Caching == {"initiator_init", "poll", "target_init"}

\* What is done next.
LEMMA Heads ==
    ASSUME HostTypes, todo # <<>>, NEW m, NEW n, Where(m, n)
    PROVE  \/ Len(todo) = n /\ n \in 1 .. Length(m) /\ Head(todo) = StepAt(m, n)
           \/ m = "open" /\ n = 5 /\ Len(todo) = 6 /\ Is(Head(todo), "frame", "Diagnose")
           \/ m = "open" /\ n = 5 /\ Len(todo) = 7 /\ Is(Head(todo), "cmd", "SAMConfiguration")
           \/ Garbled(m, n) /\ Len(todo) = n + 1 /\ Is(Head(todo), "cmd", "SetParameters")
           \/ /\ m \in Caching /\ n \in 1 .. Length(m) /\ Len(todo) > n
              /\ \/ Is(Head(todo), "write", "")
                 \/ Is(Head(todo), "cmd", "ReadRegister") /\ Is(todo[2], "write", "")
                 \/ Is(Head(todo), "cmd", "WriteRegister")
  <1>1. /\ Head(todo) = todo[1] /\ Len(todo) \in Nat /\ Len(todo) >= 1 /\ n \in Nat
           /\ n <= Length(m)
        /\ Length(m) \in Nat /\ Len(todo) >= n
    BY HeadTyped, LengthNat DEF HostTypes, Where, Ends
  <1>2. Inserted(m, n, Len(todo) - n)
    BY DEF Where
  <1>3. CASE Len(todo) = n
    <2>1. n \in 1 .. n /\ n \in 1 .. Length(m) /\ Len(todo) + 1 - n = 1
      BY <1>1, <1>3
    <2>2. Head(todo) = StepAt(m, n)
      BY <1>1, <2>1 DEF Where, Ends
    <2>3. QED BY <1>3, <2>1, <2>2
  <1>4. CASE Len(todo) > n
    <2>1. \A h \in Int : Cached(h) =>
            \/ Is(Head(todo), "write", "")
            \/ Is(Head(todo), "cmd", "ReadRegister") /\ Is(todo[2], "write", "")
            \/ Is(Head(todo), "cmd", "WriteRegister")
      <3>1. /\ todo[1] = Write => Is(Head(todo), "write", "")
            /\ todo[1] = ReadRegister /\ todo[2] = Write
               => Is(Head(todo), "cmd", "ReadRegister") /\ Is(todo[2], "write", "")
            /\ todo[1].op = "cmd" /\ todo[1].name = "WriteRegister"
               => Is(Head(todo), "cmd", "WriteRegister")
        <4>1. Is(Write, "write", "") /\ Is(ReadRegister, "cmd", "ReadRegister")
          BY Parts
        <4>2. todo[1].op = "cmd" /\ todo[1].name = "WriteRegister"
              => Is(todo[1], "cmd", "WriteRegister")
          BY DEF Is
        <4>3. QED BY <1>1, <4>1, <4>2, Zenon
      <3>2. QED BY <3>1, Zenon DEF Cached
    <2>2. CASE m = "open" /\ n = 5 /\ Len(todo) - n = 1 /\ todo[Len(todo) - n] = DiagnoseFrame
      <3>1. Len(todo) = 6 /\ Head(todo) = DiagnoseFrame
        <4>1. todo[1] = DiagnoseFrame
          BY <2>2, Zenon
        <4>2. QED BY <1>1, <2>2, <4>1
      <3>2. QED BY <2>2, <3>1, Parts, Zenon
    <2>3. CASE m = "open" /\ n = 5 /\ Len(todo) - n = 2 /\ todo[1] = SAMConfiguration
      <3>1. Len(todo) = 7 /\ Head(todo) = SAMConfiguration
        BY <1>1, <2>3
      <3>2. QED BY <2>3, <3>1, Parts, Zenon
    <2>4. CASE Garbled(m, n) /\ todo[Len(todo) - n] = Garbage /\ Len(todo) - n = 1
      <3>1. Len(todo) = n + 1 /\ Head(todo) = Garbage
        BY <1>1, <2>4
      <3>2. QED BY <2>4, <3>1, Parts, Zenon
    <2>5. CASE Garbled(m, n) /\ Cached(Len(todo) - n - 1)
      <3>1. n \in 1 .. Length(m) /\ m \in Caching
        BY <2>5, Lengths DEF Garbled, Caching
      <3>2. Len(todo) - n - 1 \in Int
        BY <1>1
      <3>3. \/ Is(Head(todo), "write", "")
            \/ Is(Head(todo), "cmd", "ReadRegister") /\ Is(todo[2], "write", "")
            \/ Is(Head(todo), "cmd", "WriteRegister")
        BY <2>1, <2>5, <3>2
      <3>4. QED BY <1>4, <3>1, <3>3, Zenon
    <2>6. CASE m \in Caching /\ n >= 1 /\ Cached(Len(todo) - n)
      <3>1. Len(todo) - n \in Int /\ n \in 1 .. Length(m)
        BY <1>1, <2>6
      <3>2. \/ Is(Head(todo), "write", "")
            \/ Is(Head(todo), "cmd", "ReadRegister") /\ Is(todo[2], "write", "")
            \/ Is(Head(todo), "cmd", "WriteRegister")
        BY <2>1, <2>6, <3>1
      <3>3. QED BY <1>4, <2>6, <3>1, <3>2, Zenon
    <2>7. /\ Len(todo) - n = 0 => FALSE
          /\ Len(todo) - n = 2 /\ todo[1] = SAMConfiguration => Len(todo) - n = 2
      BY <1>1, <1>4
    <2>8. QED BY <1>2, <2>2, <2>3, <2>4, <2>5, <2>6, <2>7, Zenon DEF Inserted, Caching
  <1>5. Len(todo) = n \/ Len(todo) > n
    BY <1>1
  <1>6. QED BY <1>5, <1>3, <1>4, Zenon

\* Where a step of each kind can be.
LEMMA Table ==
    ASSUME NEW m \in Modes, NEW n \in 1 .. Length(m), NEW s, s = StepAt(m, n)
    PROVE  /\ s.op \notin {"frame", "write"}
           /\ s.op = "set" => \/ m = "open" /\ n = 2
                              \/ m = "initiator_init" /\ n \in 2 .. 4
                              \/ m = "target_init" /\ n \in {4, 9, 12, 13}
           /\ s.op = "try" => \/ m = "poll" /\ n \in 2 .. LastPoll - 1
                              \/ m = "target_init" /\ n \in {3, 7}
           /\ s.op = "catch" =>
                \/ m = "open" /\ n = 1 /\ s.name = "any"
                \/ m = "open" /\ n = 5 /\ s.name = "close"
                \/ m = "failed_open" /\ n = 3 /\ s.name = "any"
                \/ m = "poll" /\ n \in 2 .. LastPoll - 1 /\ s.name = "timeout"
                \/ m = "target_init" /\ n = 1 /\ s.name = "idle"
                \/ m = "target_init" /\ n = 5 /\ s.name = "any"
                \/ m \in {"timed_out", "close", "close_target"} /\ n = 2 /\ s.name = "any"
           /\ s.op = "raise" =>
                \/ m = "failed_open" /\ n = 1 /\ s.name = "io"
                \/ m = "poll" /\ n = 1 /\ s.name = "absent"
                \/ m = "timed_out" /\ n = 1 /\ s.name = "timeout"
           /\ s.op = "do" =>
                \/ m = "open" /\ n = 7 /\ s.name = "flush"
                \/ m = "failed_open" /\ n = 2 /\ s.name = "closed"
                \/ m = "failed_open" /\ n = 4 /\ s.name = "idle"
                \/ m = "initiator_init" /\ n = 1 /\ s.name = "INITIATOR"
                \/ m = "initiator_init" /\ n = 5 /\ s.name = "parameters"
                \/ m = "poll" /\ n \in 2 .. LastPoll - 1 /\ s.name = "free"
                \/ m = "deselect" /\ n = 2 /\ s.name = "free"
                \/ m = "target_init" /\ n \in {6, 11} /\ s.name = "parameters"
                \/ m = "target_init" /\ n = 8 /\ s.name = "TARGET"
                \/ m \in {"close", "close_target"} /\ n = 1 /\ s.name = "closed"
                \/ m \in {"timed_out", "close", "close_target"} /\ n = 3 /\ s.name = "idle"
           /\ s.op = "cmd" =>
                \/ m = "open" /\ n = 3 /\ s.name = "SetParameters"
                \/ m = "open" /\ n = 4 /\ s.name = "GetFirmwareVersion"
                \/ m = "open" /\ n = 6 /\ s.name = "Diagnose"
                \/ m = "failed_open" /\ n = 5 /\ s.name = "PowerDown"
                \/ m = "failed_open" /\ n = 6 /\ s.name = "RFConfiguration" /\ s.arg = {"off"}
                \/ m = "failed_open" /\ n = 7 /\ s.name = "InRelease"
                \/ m = "initiator_init" /\ n \in 6 .. 8 /\ s.name = "RFConfiguration"
                \/ m = "poll" /\ n = LastPoll /\ s.name = "RFConfiguration" /\ s.arg = {}
                \/ m = "poll" /\ n \in 3 .. LastPoll - 1 /\ s.name = "InJumpForDEP"
                   /\ Phase(n) = 2
                \/ m = "deselect" /\ n = 1 /\ s.name = "InDeselect"
                \/ m = "exchange" /\ n = 1 /\ s.name = "InDataExchange"
                \/ m = "receive" /\ n = 1 /\ s.name = "TgGetData"
                \/ m = "send" /\ n = 1 /\ s.name = "TgSetData"
                \/ m = "target_init" /\ n = 2 /\ s.name = "TgInitAsTarget"
                \/ m = "target_init" /\ n = 10 /\ s.name = "RFConfiguration" /\ s.arg = {"off"}
                \/ m = "close" /\ n = 6 /\ s.name = "InRelease"
                \/ m = "close" /\ n = 5 /\ s.name = "RFConfiguration" /\ s.arg = {"off"}
                \/ m = "close" /\ n = 4 /\ s.name = "PowerDown"
                \/ m \in {"timed_out", "close_target"} /\ n = 5 /\ s.name = "InRelease"
                \/ m \in {"timed_out", "close_target"} /\ n = 4 /\ s.name = "PowerDown"
  <1>1. CASE m = "none"
    BY <1>1, Lengths
  <1>2. CASE m = "open"
    BY <1>2, StepsOpen, Lengths
  <1>3. CASE m = "failed_open"
    BY <1>3, StepsFailedOpen, Lengths
  <1>4. CASE m = "initiator_init"
    BY <1>4, StepsInitiatorInit, Lengths
  <1>5. CASE m = "poll"
    <2>1. LastPoll \in Nat /\ LastPoll >= 2 /\ n \in 1 .. LastPoll
      BY <1>5, Lengths, BoundAssumption DEF LastPoll
    <2>2. CASE n = 1
      BY <1>5, <2>1, <2>2, PollSteps DEF Raise, Step
    <2>3. CASE n = LastPoll
      BY <1>5, <2>1, <2>3, PollSteps, Parts DEF Is
    <2>4. CASE n \in 2 .. LastPoll - 1
      <3>1. Phase(n) \in 0 .. 3
        BY <2>4, <2>1, PollSteps
      <3>2. CASE Phase(n) = 0
        BY <1>5, <2>1, <2>4, <3>2, PollSteps, Parts DEF Is
      <3>3. CASE Phase(n) = 1
        BY <1>5, <2>1, <2>4, <3>3, PollSteps DEF Do, Step
      <3>4. CASE Phase(n) = 2
        <4>1. n # 2
          BY <3>4, BoundAssumption DEF Phase, LastPoll
        <4>2. n \in 3 .. LastPoll - 1 /\ s = InJumpForDEP
          BY <1>5, <2>1, <2>4, <3>4, <4>1, PollSteps
        <4>3. QED BY <1>5, <2>1, <3>4, <4>2, Parts DEF Is
      <3>5. CASE Phase(n) = 3
        BY <1>5, <2>1, <2>4, <3>5, PollSteps DEF Catch, Step
      <3>6. QED BY <3>1, <3>2, <3>3, <3>4, <3>5
    <2>5. QED BY <2>1, <2>2, <2>3, <2>4
  <1>6. CASE m = "exchange"
    BY <1>6, StepsExchange, Lengths
  <1>7. CASE m = "deselect"
    BY <1>7, StepsDeselect, Lengths
  <1>8. CASE m = "target_init"
    BY <1>8, StepsTargetInit, Lengths
  <1>9. CASE m = "timed_out"
    BY <1>9, StepsTimedOut, Lengths
  <1>10. CASE m = "receive"
    BY <1>10, StepsReceive, Lengths
  <1>11. CASE m = "send"
    BY <1>11, StepsSend, Lengths
  <1>12. CASE m = "close"
    BY <1>12, StepsClose, Lengths
  <1>13. CASE m = "close_target"
    BY <1>13, StepsCloseTarget, Lengths
  <1>14. QED BY <1>1, <1>2, <1>3, <1>4, <1>5, <1>6, <1>7, <1>8, <1>9, <1>10, <1>11, <1>12, <1>13
            DEF Modes

\* Scripts of which the first step is done, or that something is put before.
LEMMA EndsTail ==
    ASSUME NEW s \in Seq(StepType), s # <<>>, NEW m, NEW n \in Nat, Ends(s, m, n)
    PROVE  /\ Len(s) = n => Ends(Tail(s), m, n - 1)
           /\ Len(s) > n => Ends(Tail(s), m, n)
  <1>1. /\ Len(s) \in Nat /\ Len(s) >= 1 /\ Len(Tail(s)) = Len(s) - 1 /\ Len(s) >= n
        /\ \A i \in 1 .. Len(s) - 1 : Tail(s)[i] = s[i + 1]
    BY DEF Ends
  <1>2. ASSUME NEW j \in Nat, j <= n, j <= Len(s) - 1
        PROVE  Ends(Tail(s), m, j)
    <2>1. ASSUME NEW k \in 1 .. j
          PROVE  Tail(s)[Len(Tail(s)) + 1 - k] = StepAt(m, k)
      <3>1. Len(s) - k \in 1 .. Len(s) - 1 /\ k \in 1 .. n
        BY <1>1, <1>2
      <3>2. Tail(s)[Len(s) - k] = s[Len(s) - k + 1]
        BY <1>1, <3>1
      <3>3. Len(Tail(s)) + 1 - k = Len(s) - k /\ Len(s) - k + 1 = Len(s) + 1 - k
        BY <1>1, <1>2
      <3>4. s[Len(s) + 1 - k] = StepAt(m, k)
        BY <3>1 DEF Ends
      <3>5. QED BY <3>2, <3>3, <3>4
    <2>2. QED BY <1>1, <1>2, <2>1 DEF Ends
  <1>3. Len(s) = n => n - 1 \in Nat /\ n - 1 <= n /\ n - 1 <= Len(s) - 1
    BY <1>1
  <1>4. Len(s) > n => n <= n /\ n <= Len(s) - 1
    BY <1>1
  <1>5. QED BY <1>2, <1>3, <1>4, Zenon

LEMMA EndsPrefix ==
    ASSUME NEW r \in Seq(StepType), NEW s \in Seq(StepType), NEW m, NEW n \in Nat, Ends(r, m, n)
    PROVE  Ends(s \o r, m, n)
  <1>1. /\ Len(s \o r) = Len(s) + Len(r) /\ Len(s) \in Nat /\ Len(r) \in Nat /\ Len(r) >= n
        /\ \A i \in 1 .. Len(r) : (s \o r)[Len(s) + i] = r[i]
    BY Prefix DEF Ends
  <1>2. ASSUME NEW k \in 1 .. n
        PROVE  (s \o r)[Len(s \o r) + 1 - k] = StepAt(m, k)
    <2>1. Len(r) + 1 - k \in 1 .. Len(r) /\ Len(s \o r) + 1 - k = Len(s) + (Len(r) + 1 - k)
      BY <1>1
    <2>2. (s \o r)[Len(s) + (Len(r) + 1 - k)] = r[Len(r) + 1 - k]
      BY <1>1, <2>1
    <2>3. r[Len(r) + 1 - k] = StepAt(m, k)
      BY DEF Ends
    <2>4. QED BY <2>1, <2>2, <2>3
  <1>3. QED BY <1>1, <1>2 DEF Ends

\* Scripts of which several steps are left out.
LEMMA EndsDrop ==
    ASSUME NEW s \in Seq(StepType), NEW m, NEW n \in Nat, Ends(s, m, n),
           NEW k \in 1 .. Len(s), Len(s) - k <= n
    PROVE  /\ Ends(SubSeq(s, k + 1, Len(s)), m, Len(s) - k)
           /\ Len(SubSeq(s, k + 1, Len(s))) = Len(s) - k
  <1> DEFINE r == SubSeq(s, k + 1, Len(s))
  <1>1. /\ Len(s) \in Nat /\ k \in Nat /\ Len(r) = Len(s) - k
        /\ \A i \in 1 .. Len(s) - k : r[i] = s[k + i]
    OBVIOUS
  <1>2. ASSUME NEW j \in 1 .. Len(s) - k
        PROVE  r[Len(r) + 1 - j] = StepAt(m, j)
    <2>1. Len(s) - k + 1 - j \in 1 .. Len(s) - k /\ k + (Len(s) - k + 1 - j) = Len(s) + 1 - j
          /\ j \in 1 .. n
      BY <1>1
    <2>2. r[Len(s) - k + 1 - j] = s[Len(s) + 1 - j]
      BY <1>1, <2>1
    <2>3. s[Len(s) + 1 - j] = StepAt(m, j)
      BY <2>1 DEF Ends
    <2>4. QED BY <1>1, <2>2, <2>3
  <1> HIDE DEF r
  <1>3. Ends(r, m, Len(s) - k)
    BY <1>1, <1>2 DEF Ends
  <1>4. QED BY <1>1, <1>3 DEF r

\* Position n of a script of which nothing is done and nothing is inserted.
LEMMA EndsAt ==
    ASSUME NEW s \in Seq(StepType), NEW m, NEW n \in Nat, Ends(s, m, n), NEW i \in 1 .. Len(s),
           Len(s) + 1 - i <= n
    PROVE  s[i] = StepAt(m, Len(s) + 1 - i)
  <1>1. Len(s) + 1 - i \in 1 .. n /\ Len(s) + 1 - (Len(s) + 1 - i) = i
    OBVIOUS
  <1>2. s[Len(s) + 1 - (Len(s) + 1 - i)] = StepAt(m, Len(s) + 1 - i)
    BY <1>1 DEF Ends
  <1>3. QED BY <1>1, <1>2

\* The script goes on by one step.
After(m, n, n2) == n2 = IF Len(todo) = n THEN n - 1 ELSE n

LEMMA Advance ==
    ASSUME HostTypes, NEW m, NEW n, Where(m, n), call' = call, NEW n2
    PROVE  todo # <<>> /\ todo' = Tail(todo) /\ After(m, n, n2) =>
              Where(m, n2)' /\ (n2 = n \/ n2 = n - 1) /\ n2 \in Nat
  <1>1. SUFFICES ASSUME todo # <<>>, todo' = Tail(todo), After(m, n, n2)
                PROVE  Where(m, n2)' /\ (n2 = n \/ n2 = n - 1) /\ n2 \in Nat
    OBVIOUS
  <1>2. /\ Len(todo) \in Nat /\ Len(todo) >= 1 /\ n \in Nat /\ n <= Length(m)
        /\ Length(m) \in Nat /\ Len(todo) >= n /\ Len(todo') = Len(todo) - 1 /\ m \in Modes
        /\ \A i \in 1 .. Len(todo) - 1 : todo'[i] = todo[i + 1]
    BY <1>1, HeadTyped, LengthNat DEF HostTypes, Where, Ends
  <1>3. Len(todo) \in Nat /\ n \in Nat /\ Len(todo) >= n /\ Len(todo') = Len(todo) - 1
        /\ Len(todo) >= 1
    BY <1>2
  <1>4. CASE Len(todo) = n
    <2>1. n2 = n - 1 /\ n2 \in 0 .. Length(m) /\ n2 \in Nat /\ Len(todo') - n2 = 0
      BY <1>1, <1>2, <1>4 DEF After
    <2>2. Ends(todo', m, n2)
      BY <1>2, <1>4, <2>1, <1>1, EndsTail DEF Where, HostTypes
    <2>3. Inserted(m, n2, Len(todo) - n2)'
      BY <2>1 DEF Inserted
    <2>4. QED BY <1>2, <2>1, <2>2, <2>3 DEF Where
  <1>5. CASE Len(todo) > n
    <2>1. n2 = n
      <3>1. ~(Len(todo) = n)
        BY <1>3, <1>5
      <3>2. QED BY <1>1, <3>1, Zenon DEF After
    <2>2. Ends(todo', m, n)
      BY <1>2, <1>5, <1>1, EndsTail DEF Where, HostTypes
    <2>3. Inserted(m, n, Len(todo) - n)'
      <3>1. Len(todo) - n \in Nat
        BY <1>2
      <3>2. PICK h \in Nat : h = Len(todo) - n
        BY <3>1
      <3>3. h >= 1 /\ Len(todo') - n = h - 1 /\ h <= Len(todo) /\ h # 0
        BY <1>3, <1>5, <3>2
      <3>4. Inserted(m, n, h)
        BY <3>2 DEF Where
      <3>5. CASE h = 1
        <4>1. Len(todo') - n = 0
          BY <3>3, <3>5
        <4>2. QED BY <4>1, Zenon DEF Inserted
      <3>6. CASE h > 1
        <4>1. todo'[h - 1] = todo[h] /\ h # 1
          BY <1>2, <3>3, <3>6
        <4>2. Cached(h) => h = 2 /\ todo[2] = Write
          BY <4>1, Zenon DEF Cached
        <4>3. Cached(h) => Cached(h - 1)'
          <5>1. SUFFICES ASSUME Cached(h) PROVE Cached(h - 1)'
            OBVIOUS
          <5>2. h - 1 = 1
            BY <4>2, <5>1
          <5>3. todo'[1] = Write
            BY <4>1, <4>2, <5>1, <5>2
          <5>4. QED BY <5>2, <5>3, Zenon DEF Cached
        <4>4. CASE m = "open" /\ n = 5 /\ todo[h] = DiagnoseFrame /\ h = 2
          <5>1. h - 1 = 1
            BY <4>4
          <5>2. QED BY <3>3, <4>1, <4>4, <5>1, Zenon DEF Inserted
        <4>5. CASE Garbled(m, n) /\ todo[h] = Garbage /\ Cached(h - 1)
          <5>1. h - 1 = 1 \/ h - 1 = 2
            BY <4>5, Zenon DEF Cached
          <5>2. CASE h - 1 = 1
            BY <3>3, <4>1, <4>5, <5>2, Zenon DEF Inserted
          <5>3. CASE h - 1 = 2
            <6>1. h - 1 - 1 = 1
              BY <5>3
            <6>2. todo[2] = Write /\ 2 \in 1 .. Len(todo)
              <7>1. h - 1 # 1
                BY <5>3
              <7>2. todo[2] = Write
                BY <4>5, <7>1, Zenon DEF Cached
              <7>3. QED BY <1>2, <3>3, <5>3, <7>2
            <6>3. todo'[1] = Write
              BY <1>2, <3>3, <5>3, <6>2
            <6>4. Cached(h - 1 - 1)'
              BY <6>1, <6>3, Zenon DEF Cached
            <6>5. QED BY <3>3, <4>1, <4>5, <6>4, Zenon DEF Inserted
          <5>4. QED BY <5>1, <5>2, <5>3
        <4>6. CASE m \in {"initiator_init", "poll", "target_init"} /\ n >= 1
                   /\ StepAt(m, n).op = "cmd" /\ Cached(h)
          BY <3>3, <4>3, <4>6, Zenon DEF Inserted
        <4>7. QED BY <3>4, <3>3, <4>1, <4>4, <4>5, <4>6, Zenon DEF Inserted
      <3>7. h = 1 \/ h > 1
        BY <3>3
      <3>8. QED BY <3>5, <3>6, <3>7
    <2>4. n \in 0 .. Length(m) /\ n \in Nat
      BY <1>2
    <2>5. CallOf(m) = call'
      BY DEF Where
    <2>6. Where(m, n)'
      BY <1>2, <2>2, <2>3, <2>4, <2>5, Zenon DEF Where
    <2>7. QED BY <2>1, <2>4, <2>6
  <1>6. Len(todo) = n \/ Len(todo) > n
    BY <1>3
  <1>7. QED BY <1>4, <1>5, <1>6, Zenon

\* What is put before a script.
LEMMA InsertedAt ==
    ASSUME HostTypes, NEW m, NEW n, Where(m, n), NEW i \in 1 .. Len(todo) - n
    PROVE  todo[i].op \notin Marks
  <1>1. Len(todo) \in Nat /\ n \in Nat /\ Len(todo) >= n
    BY LengthNat DEF HostTypes, Where, Ends
  <1>2. Len(todo) - n \in Nat
    BY <1>1
  <1>3. PICK h \in Nat : h = Len(todo) - n /\ i \in 1 .. h
    BY <1>2
  <1>4. Inserted(m, n, h)
    BY <1>3 DEF Where
  <1>5. /\ Write.op \notin Marks /\ ReadRegister.op \notin Marks
           /\ DiagnoseFrame.op \notin Marks
        /\ SAMConfiguration.op \notin Marks /\ Garbage.op \notin Marks
    BY Parts DEF Is, Marks
  <1>6. ASSUME NEW j \in Nat, i <= j, Cached(j)
        PROVE  todo[i].op \notin Marks
    <2>1. i = 1 \/ i = 2
      BY <1>3, <1>6 DEF Cached
    <2>2. CASE i = 1
      BY <1>5, <1>6, <2>2 DEF Cached, Marks
    <2>3. CASE i = 2
      <3>1. j # 1
        BY <1>6, <2>3
      <3>2. todo[2] = Write
        BY <1>6, <3>1, Zenon DEF Cached
      <3>3. QED BY <1>5, <2>3, <3>2
    <2>4. QED BY <2>1, <2>2, <2>3
  <1>7. CASE m = "open" /\ todo[h] = DiagnoseFrame
             /\ (h = 1 \/ (h = 2 /\ todo[1] = SAMConfiguration))
    <2>1. i = h \/ (i = 1 /\ h = 2)
      BY <1>3, <1>7
    <2>2. todo[i] = DiagnoseFrame \/ todo[i] = SAMConfiguration
      BY <1>7, <2>1, Zenon
    <2>3. QED BY <1>5, <2>2, Zenon
  <1>8. CASE todo[h] = Garbage /\ (h = 1 \/ Cached(h - 1))
    <2>1. CASE i = h
      BY <1>5, <1>8, <2>1, Zenon
    <2>2. CASE i # h
      <3>1. i <= h - 1 /\ h - 1 \in Nat /\ h # 1
        BY <1>3, <2>2
      <3>2. Cached(h - 1)
        BY <1>8, <3>1, Zenon
      <3>3. QED BY <1>6, <3>1, <3>2
    <2>3. QED BY <2>1, <2>2
  <1>9. CASE Cached(h)
    BY <1>3, <1>6, <1>9
  <1>10. h # 0
    BY <1>3
  <1>11. QED BY <1>4, <1>7, <1>8, <1>9, <1>10, Zenon DEF Inserted

\* The first mark of the script that an error meets.
LEMMA FirstMark ==
    ASSUME HostTypes, todo # <<>>, NEW m, NEW n, Where(m, n), NEW e,
           NEW p \in 1 .. n, p < Len(todo), StepAt(m, p).op \in Marks,
           \A j \in p + 1 .. n : j < Len(todo) => StepAt(m, j).op \notin Marks
    PROVE  Handler(e) = AtMark(Len(todo) + 1 - p, e)
  <1>1. Len(todo) \in Nat /\ n \in Nat /\ Len(todo) >= n
    BY LengthNat DEF HostTypes, Where, Ends
  <1>2. \A i \in 1 .. Len(todo) : Len(todo) + 1 - i <= n
        => todo[i] = StepAt(m, Len(todo) + 1 - i)
    BY <1>1, EndsAt DEF HostTypes, Where
  <1>3. Len(todo) + 1 - p \in 2 .. Len(todo) /\ Len(todo) + 1 - (Len(todo) + 1 - p) = p
    BY <1>1
  <1>4. todo[Len(todo) + 1 - p].op \in Marks
    BY <1>1, <1>2, <1>3
  <1>5. ASSUME NEW i \in 2 .. Len(todo), todo[i].op \in Marks
        PROVE  i >= Len(todo) + 1 - p
    <2>1. CASE i <= Len(todo) - n
      BY <1>1, <1>5, <2>1, InsertedAt
    <2>2. CASE i > Len(todo) - n /\ i < Len(todo) + 1 - p
      <3>1. PICK j \in Nat : j = Len(todo) + 1 - i
        BY <1>1, SMTT(20)
      <3>2. j \in p + 1 .. n /\ j < Len(todo) /\ j <= n
        BY <1>1, <2>2, <3>1
      <3>3. todo[i] = StepAt(m, j)
        BY <1>1, <1>2, <3>1, <3>2
      <3>4. QED BY <1>5, <3>2, <3>3
    <2>3. QED BY <1>1, <2>1, <2>2
  <1>6. PICK k \in 2 .. Len(todo) : /\ todo[k].op \in Marks
                                    /\ \A i \in 2 .. k - 1 : todo[i].op \notin Marks
                                    /\ Handler(e) = AtMark(k, e)
    BY <1>3, <1>4, Handled
  <1>7. k >= Len(todo) + 1 - p
    BY <1>5, <1>6
  <1>8. ~(k > Len(todo) + 1 - p)
    <2>1. k > Len(todo) + 1 - p => Len(todo) + 1 - p \in 2 .. k - 1
      BY <1>1, <1>3
    <2>2. QED BY <1>4, <1>6, <2>1
  <1>9. k = Len(todo) + 1 - p
    BY <1>1, <1>7, <1>8
  <1>10. QED BY <1>6, <1>9

\* A script without marks.
LEMMA NoMark ==
    ASSUME HostTypes, todo # <<>>, NEW m, NEW n, Where(m, n), NEW e,
           \A j \in 1 .. n : j < Len(todo) => StepAt(m, j).op \notin Marks
    PROVE  Handler(e) = [caught |-> FALSE, todo |-> <<>>]
  <1>1. Len(todo) \in Nat /\ n \in Nat /\ Len(todo) >= n
    BY LengthNat DEF HostTypes, Where, Ends
  <1>2. \A i \in 1 .. Len(todo) : Len(todo) + 1 - i <= n
        => todo[i] = StepAt(m, Len(todo) + 1 - i)
    BY <1>1, EndsAt DEF HostTypes, Where
  <1>3. ASSUME NEW i \in 2 .. Len(todo)
        PROVE  todo[i].op \notin Marks
    <2>1. CASE i <= Len(todo) - n
      BY <1>1, <1>3, <2>1, InsertedAt
    <2>2. CASE i > Len(todo) - n
      <3>1. PICK j \in Nat : j = Len(todo) + 1 - i
        BY <1>1
      <3>2. j \in 1 .. n /\ j < Len(todo) /\ j <= n
        BY <1>1, <2>2, <3>1
      <3>3. todo[i] = StepAt(m, j)
        BY <1>1, <1>2, <3>1, <3>2
      <3>4. QED BY <3>2, <3>3
    <2>3. QED BY <1>1, <2>1, <2>2
  <1>4. QED BY <1>3, Handled

\* The script goes on after the mark at p.
LEMMA GoesOn ==
    ASSUME HostTypes, NEW m, NEW n, Where(m, n), call' = call, NEW p \in 1 .. n
    PROVE  todo' = SubSeq(todo, Len(todo) + 1 - p + 1, Len(todo))
           => Where(m, p - 1)' /\ Len(todo') = p - 1
  <1>1. /\ Len(todo) \in Nat /\ n \in Nat /\ Len(todo) >= n /\ m \in Modes /\ Length(m) \in Nat
           /\ n <= Length(m)
        /\ todo \in Seq(StepType)
    BY LengthNat DEF HostTypes, Where, Ends
  <1>2. SUFFICES ASSUME todo' = SubSeq(todo, Len(todo) + 1 - p + 1, Len(todo))
                 PROVE  Where(m, p - 1)' /\ Len(todo') = p - 1
    OBVIOUS
  <1>3. Len(todo) + 1 - p \in 1 .. Len(todo) /\ Len(todo) - (Len(todo) + 1 - p) = p - 1
        /\ p - 1 <= n
    BY <1>1
  <1>4. Ends(todo', m, p - 1) /\ Len(todo') = p - 1
    BY <1>1, <1>2, <1>3, EndsDrop DEF Where
  <1>5. p - 1 \in 0 .. Length(m) /\ p - 1 - (p - 1) = 0
    BY <1>1
  <1>6. Inserted(m, p - 1, Len(todo) - (p - 1))'
    BY <1>4, <1>5, Zenon DEF Inserted
  <1>7. call' = CallOf(m)
    BY DEF Where
  <1>8. QED BY <1>1, <1>4, <1>5, <1>6, <1>7, Zenon DEF Where

\* A sequence of steps that is the whole of a script.
Entire(s, m) == Ends(s, m, Length(m)) /\ Len(s) = Length(m)

\* The steps of the scripts.
LEMMA StepsOfScripts ==
    /\ Do("flush") \in StepType /\ Do("parameters") \in StepType /\ Do("free") \in StepType
    /\ Do("idle") \in StepType /\ Do("closed") \in StepType /\ Do("INITIATOR") \in StepType
    /\ Do("TARGET") \in StepType /\ Try \in StepType
    /\ Catch("any") \in StepType /\ Catch("close") \in StepType /\ Catch("timeout") \in StepType
    /\ Catch("idle") \in StepType
    /\ Raise("io") \in StepType /\ Raise("timeout") \in StepType /\ Raise("absent") \in StepType
    /\ Set(Iso14443a \cup {"noerror", "multiple"}) \in StepType
       /\ Set({"initiator"}) \in StepType
    /\ Set({"noerror", "multiple"}) \in StepType /\ Set({"rfon"}) \in StepType
  <1>1. \A d \in Doings : Do(d) \in StepType
    BY StepsTyped
  <1>2. \A d \in Catches : Catch(d) \in StepType
    BY StepsTyped
  <1>3. \A d \in Errors : Raise(d) \in StepType
    BY StepsTyped
  <1>4. Try \in StepType
    BY StepsTyped
  <1>5. /\ Set(Iso14443a \cup {"noerror", "multiple"}) \in StepType
           /\ Set({"initiator"}) \in StepType
        /\ Set({"noerror", "multiple"}) \in StepType /\ Set({"rfon"}) \in StepType
    BY StepsTyped DEF Iso14443a, Field, Whole
  <1>6. QED BY <1>1, <1>2, <1>3, <1>4, <1>5 DEF Doings, Catches, Errors

\* Scripts are joined from parts.
LEMMA Joined331 ==
    ASSUME NEW S, NEW a \in S, NEW b \in S, NEW c \in S, NEW d \in S, NEW e \in S, NEW f \in S,
           NEW g \in S,
           NEW s, s = <<a, b, c>> \o <<d, e, f>> \o <<g>>
    PROVE  Len(s) = 7 /\ s[1] = a /\ s[2] = b /\ s[3] = c /\ s[4] = d /\ s[5] = e /\ s[6] = f
           /\ s[7] = g
  OBVIOUS

LEMMA Joined422 ==
    ASSUME NEW S, NEW a \in S, NEW b \in S, NEW c \in S, NEW d \in S, NEW e \in S, NEW f \in S,
           NEW g \in S, NEW h \in S,
           NEW s, s = <<a, b, c, d>> \o <<e, f>> \o <<g, h>>
    PROVE  Len(s) = 8 /\ s[1] = a /\ s[2] = b /\ s[3] = c /\ s[4] = d /\ s[5] = e /\ s[6] = f
           /\ s[7] = g /\ s[8] = h
  OBVIOUS

LEMMA Joined49 ==
    ASSUME NEW S, NEW a \in S, NEW b \in S, NEW c \in S, NEW d \in S, NEW e \in S, NEW f \in S,
           NEW g \in S, NEW h \in S, NEW i \in S, NEW j \in S, NEW k \in S, NEW l \in S,
           NEW m \in S,
           NEW s, s = <<a, b, c, d>> \o <<e, f, g, h, i, j, k, l, m>>
    PROVE  Len(s) = 13 /\ s[1] = a /\ s[2] = b /\ s[3] = c /\ s[4] = d /\ s[5] = e /\ s[6] = f
           /\ s[7] = g /\ s[8] = h /\ s[9] = i /\ s[10] = j /\ s[11] = k /\ s[12] = l
           /\ s[13] = m
  OBVIOUS

LEMMA Joined42 ==
    ASSUME NEW S, NEW a \in S, NEW b \in S, NEW c \in S, NEW d \in S, NEW e \in S, NEW f \in S,
           NEW s, s = <<a, b, c, d>> \o <<e, f>>
    PROVE  Len(s) = 6 /\ s[1] = a /\ s[2] = b /\ s[3] = c /\ s[4] = d /\ s[5] = e /\ s[6] = f
  OBVIOUS

LEMMA Joined421 ==
    ASSUME NEW S, NEW a \in S, NEW b \in S, NEW c \in S, NEW d \in S, NEW e \in S, NEW f \in S,
           NEW g \in S,
           NEW s, s = <<a, b, c, d>> \o <<e, f>> \o <<g>>
    PROVE  Len(s) = 7 /\ s[1] = a /\ s[2] = b /\ s[3] = c /\ s[4] = d /\ s[5] = e /\ s[6] = f
           /\ s[7] = g
  OBVIOUS

LEMMA Joined32 ==
    ASSUME NEW S, NEW a \in S, NEW b \in S, NEW c \in S, NEW d \in S, NEW e \in S,
           NEW s, s = <<a, b, c>> \o <<d, e>>
    PROVE  Len(s) = 5 /\ s[1] = a /\ s[2] = b /\ s[3] = c /\ s[4] = d /\ s[5] = e
  OBVIOUS

LEMMA Joined12 ==
    ASSUME NEW S, NEW a \in S, NEW b \in S, NEW c \in S,
           NEW s, s = <<a>> \o <<b, c>>
    PROVE  Len(s) = 3 /\ s[1] = a /\ s[2] = b /\ s[3] = c
  OBVIOUS

\* Each call begins with the whole of its script.
LEMMA OpenWhole == Entire(open, "open")
  <1>1. /\ Len(open) = 7
        /\ open[1] = Do("flush")
        /\ open[2] = Diagnose
        /\ open[3] = Catch("close")
        /\ open[4] = GetFirmwareVersion
        /\ open[5] = SetParameters("default")
        /\ open[6] = reset_settings
        /\ open[7] = Catch("any")
    BY Joined331, NamedSteps, StepsOfScripts DEF open, init
  <1>2. \A k \in 1 .. 7 : open[7 + 1 - k] = StepAt("open", k)
    BY <1>1, Scripts
  <1>3. Length("open") = 7
    BY Lengths
  <1>4. QED BY <1>1, <1>2, <1>3 DEF Entire, Ends

LEMMA InitiatorInitWhole == Entire(initiator_init, "initiator_init")
  <1>1. /\ Len(initiator_init) = 8
        /\ initiator_init[1] = RFField("off")
        /\ initiator_init[2] = RFField("on")
        /\ initiator_init[3] = MaxRetries
        /\ initiator_init[4] = Do("parameters")
        /\ initiator_init[5] = Set(Iso14443a \cup {"noerror", "multiple"})
        /\ initiator_init[6] = reset_settings
        /\ initiator_init[7] = Set({"initiator"})
        /\ initiator_init[8] = Do("INITIATOR")
    BY Joined422, NamedSteps, StepsOfScripts DEF initiator_init, set_mode
  <1>2. \A k \in 1 .. 8 : initiator_init[8 + 1 - k] = StepAt("initiator_init", k)
    BY <1>1, Scripts
  <1>3. Length("initiator_init") = 8
    BY Lengths
  <1>4. QED BY <1>1, <1>2, <1>3 DEF Entire, Ends

LEMMA TargetInitWhole == Entire(target_init, "target_init")
  <1>1. /\ Len(target_init) = 13
        /\ target_init[1] = Set({"noerror", "multiple"})
        /\ target_init[2] = reset_settings
        /\ target_init[3] = Do("parameters")
        /\ target_init[4] = RFField("off")
        /\ target_init[5] = reset_settings
        /\ target_init[6] = Do("TARGET")
        /\ target_init[7] = Try
        /\ target_init[8] = Do("parameters")
        /\ target_init[9] = Catch("any")
        /\ target_init[10] = Set({"rfon"})
        /\ target_init[11] = Try
        /\ target_init[12] = TgInitAsTarget
        /\ target_init[13] = Catch("idle")
    BY Joined49, NamedSteps, StepsOfScripts DEF target_init, set_target
  <1>2. \A k \in 1 .. 13 : target_init[13 + 1 - k] = StepAt("target_init", k)
    BY <1>1, Scripts
  <1>3. Length("target_init") = 13
    BY Lengths
  <1>4. QED BY <1>1, <1>2, <1>3 DEF Entire, Ends

LEMMA ShortWhole ==
    /\ Entire(<<InDataExchange>>, "exchange") /\ Entire(deselect_target, "deselect")
    /\ Entire(<<TgGetData>>, "receive") /\ Entire(<<TgSetData>>, "send") /\ Entire(<<>>, "none")
  <1>1. Entire(<<InDataExchange>>, "exchange")
    BY Lengths, Scripts DEF Entire, Ends
  <1>2. Entire(deselect_target, "deselect")
    BY Lengths, Scripts DEF Entire, Ends, deselect_target
  <1>3. Entire(<<TgGetData>>, "receive")
    BY Lengths, Scripts DEF Entire, Ends
  <1>4. Entire(<<TgSetData>>, "send")
    BY Lengths, Scripts DEF Entire, Ends
  <1>5. Entire(<<>>, "none")
    BY Lengths DEF Entire, Ends
  <1>6. QED BY <1>1, <1>2, <1>3, <1>4, <1>5

\* A close, and what a failure puts in the place of a script, depend on the mode of the
\* device.
LEMMA CloseWhole ==
    ASSUME pnd.oper = "INITIATOR"
    PROVE  Entire(close, "close")
  <1> DEFINE s == close
  <1>1. /\ Len(s) = 6
        /\ s[1] = InRelease
        /\ s[2] = RFField("off")
        /\ s[3] = PowerDown
        /\ s[4] = Do("idle")
        /\ s[5] = Catch("any")
        /\ s[6] = Do("closed")
    <2>1. s = <<InRelease, RFField("off"), PowerDown, Do("idle")>>
          \o <<Catch("any"), Do("closed")>>
      BY DEF close, idle
    <2> HIDE DEF s
    <2>2. QED BY <2>1, Joined42, NamedSteps, StepsOfScripts
  <1> HIDE DEF s
  <1>2. \A k \in 1 .. 6 : s[6 + 1 - k] = StepAt("close", k)
    BY <1>1, Scripts
  <1>3. Length("close") = 6
    BY Lengths
  <1>4. Entire(s, "close")
    BY <1>1, <1>2, <1>3 DEF Entire, Ends
  <1>5. QED BY <1>4 DEF s

LEMMA FailedOpenWhole ==
    ASSUME pnd.oper = "INITIATOR"
    PROVE  Entire(close \o <<Raise("io")>>, "failed_open")
  <1> DEFINE s == close \o <<Raise("io")>>
  <1>1. /\ Len(s) = 7
        /\ s[1] = InRelease
        /\ s[2] = RFField("off")
        /\ s[3] = PowerDown
        /\ s[4] = Do("idle")
        /\ s[5] = Catch("any")
        /\ s[6] = Do("closed")
        /\ s[7] = Raise("io")
    <2>1. s = <<InRelease, RFField("off"), PowerDown, Do("idle")>>
          \o <<Catch("any"), Do("closed")>> \o <<Raise("io")>>
      BY DEF close, idle
    <2> HIDE DEF s
    <2>2. QED BY <2>1, Joined421, NamedSteps, StepsOfScripts
  <1> HIDE DEF s
  <1>2. \A k \in 1 .. 7 : s[7 + 1 - k] = StepAt("failed_open", k)
    BY <1>1, Scripts
  <1>3. Length("failed_open") = 7
    BY Lengths
  <1>4. Entire(s, "failed_open")
    BY <1>1, <1>2, <1>3 DEF Entire, Ends
  <1>5. QED BY <1>4 DEF s

LEMMA CloseTargetWhole ==
    ASSUME pnd.oper = "TARGET"
    PROVE  Entire(close, "close_target")
  <1> DEFINE s == close
  <1>1. /\ Len(s) = 5
        /\ s[1] = InRelease
        /\ s[2] = PowerDown
        /\ s[3] = Do("idle")
        /\ s[4] = Catch("any")
        /\ s[5] = Do("closed")
    <2>1. s = <<InRelease, PowerDown, Do("idle")>> \o <<Catch("any"), Do("closed")>>
      BY DEF close, idle
    <2> HIDE DEF s
    <2>2. QED BY <2>1, Joined32, NamedSteps, StepsOfScripts
  <1> HIDE DEF s
  <1>2. \A k \in 1 .. 5 : s[5 + 1 - k] = StepAt("close_target", k)
    BY <1>1, Scripts
  <1>3. Length("close_target") = 5
    BY Lengths
  <1>4. Entire(s, "close_target")
    BY <1>1, <1>2, <1>3 DEF Entire, Ends
  <1>5. QED BY <1>4 DEF s

LEMMA TimedOutWhole ==
    ASSUME pnd.oper = "TARGET"
    PROVE  Entire(idle \o <<Catch("any"), Raise("timeout")>>, "timed_out")
  <1> DEFINE s == idle \o <<Catch("any"), Raise("timeout")>>
  <1>1. /\ Len(s) = 5
        /\ s[1] = InRelease
        /\ s[2] = PowerDown
        /\ s[3] = Do("idle")
        /\ s[4] = Catch("any")
        /\ s[5] = Raise("timeout")
    <2>1. s = <<InRelease, PowerDown, Do("idle")>> \o <<Catch("any"), Raise("timeout")>>
      BY DEF idle
    <2> HIDE DEF s
    <2>2. QED BY <2>1, Joined32, NamedSteps, StepsOfScripts
  <1> HIDE DEF s
  <1>2. \A k \in 1 .. 5 : s[5 + 1 - k] = StepAt("timed_out", k)
    BY <1>1, Scripts
  <1>3. Length("timed_out") = 5
    BY Lengths
  <1>4. Entire(s, "timed_out")
    BY <1>1, <1>2, <1>3 DEF Entire, Ends
  <1>5. QED BY <1>4 DEF s

LEMMA CloseIdle ==
    ASSUME pnd.oper = "IDLE"
    PROVE  Ends(close, "close", 3) /\ Len(close) = 3
  <1>1. close = <<Do("idle")>> \o <<Catch("any"), Do("closed")>>
    BY DEF close, idle
  <1>2. Len(close) = 3 /\ close[1] = Do("idle") /\ close[2] = Catch("any")
        /\ close[3] = Do("closed")
    BY <1>1, Joined12, StepsOfScripts
  <1>3. \A k \in 1 .. 3 : close[3 + 1 - k] = StepAt("close", k)
    BY <1>2, Scripts
  <1>4. QED BY <1>2, <1>3 DEF Ends

\* The rounds of poll, counted from the end.
LEMMA PollWhole == Entire(poll_dep_target, "poll")
  <1>1. Polls \in Nat /\ LastPoll = 4 * Polls + 2 /\ Length("poll") = LastPoll
        /\ LastPoll \in Nat
    BY Lengths, BoundAssumption DEF LastPoll
  <1>2. poll_dep_target = (<<MaxRetries>> \o Rounds) \o <<Raise("absent")>>
    BY DEF poll_dep_target
  <1>3. Rounds \in Seq(StepType) /\ Len(Rounds) = 4 * Polls
    <2>1. 4 * Polls \in Nat
      BY <1>1
    <2>2. Len(Rounds) = 4 * Polls
      BY <2>1 DEF Rounds
    <2>3. \A i \in 1 .. 4 : select_dep_target[i] \in StepType
      BY StepsTyped, NamedSteps DEF select_dep_target, Doings, Catches
    <2>4. \A i \in 1 .. 4 * Polls : select_dep_target[1 + ((i - 1) % 4)] \in StepType
      <3>1. \A i \in 1 .. 4 * Polls : 1 + ((i - 1) % 4) \in 1 .. 4
        BY <1>1
      <3>2. QED BY <2>3, <3>1
    <2>5. QED BY <2>1, <2>2, <2>4, IsASeq DEF Rounds
  <1>4. <<MaxRetries>> \in Seq(StepType) /\ Len(<<MaxRetries>>) = 1
        /\ <<MaxRetries>>[1] = MaxRetries
    BY NamedSteps
  <1>5. Raise("absent") \in StepType
    BY StepsTyped DEF Errors
  <1>6. <<Raise("absent")>> \in Seq(StepType) /\ Len(<<Raise("absent")>>) = 1
        /\ <<Raise("absent")>>[1] = Raise("absent")
    BY <1>5
  <1> DEFINE front == <<MaxRetries>> \o Rounds
  <1>7. /\ front \in Seq(StepType) /\ Len(front) = 1 + 4 * Polls /\ front[1] = MaxRetries
        /\ \A i \in 1 .. 4 * Polls : front[1 + i] = Rounds[i]
    <2>1. front \in Seq(StepType) /\ Len(front) = 1 + 4 * Polls
      BY <1>1, <1>3, <1>4, Prefix
    <2>2. front[1] = MaxRetries
      BY <1>3, <1>4, Prefix
    <2>3. \A i \in 1 .. 4 * Polls : front[1 + i] = Rounds[i]
      BY <1>3, <1>4, Prefix
    <2>4. QED BY <2>1, <2>2, <2>3
  <1> HIDE DEF front
  <1>8. /\ Len(poll_dep_target) = LastPoll
        /\ \A i \in 1 .. 1 + 4 * Polls : poll_dep_target[i] = front[i]
        /\ poll_dep_target[1 + 4 * Polls + 1] = Raise("absent")
    BY <1>1, <1>2, <1>6, <1>7, Prefix, SMTT(20) DEF front
  <1>9. ASSUME NEW k \in 1 .. LastPoll
        PROVE  poll_dep_target[LastPoll + 1 - k] = StepAt("poll", k)
    <2>1. StepAt("poll", k) = IF k = 1 THEN Raise("absent") ELSE IF k = LastPoll THEN MaxRetries
             ELSE Rounds[LastPoll - k]
      BY DEF StepAt, Back
    <2>2. CASE k = 1
      <3>1. LastPoll + 1 - k = 1 + 4 * Polls + 1
        BY <1>1, <2>2
      <3>2. QED BY <1>8, <2>1, <2>2, <3>1
    <2>3. CASE k = LastPoll
      <3>1. LastPoll + 1 - k = 1 /\ 1 \in 1 .. 1 + 4 * Polls /\ ~(k = 1)
        BY <1>1, <2>3
      <3>2. QED BY <1>7, <1>8, <2>1, <2>3, <3>1
    <2>4. CASE k # 1 /\ k # LastPoll
      <3>1. PICK i \in 1 .. 4 * Polls : i = LastPoll - k
        BY <1>1, <2>4
      <3>2. LastPoll + 1 - k = 1 + i /\ 1 + i \in 1 .. 1 + 4 * Polls
        BY <1>1, <3>1
      <3>3. poll_dep_target[1 + i] = front[1 + i] /\ front[1 + i] = Rounds[i]
        BY <1>7, <1>8, <3>2
      <3>4. StepAt("poll", k) = Rounds[i]
        BY <2>1, <2>4, <3>1
      <3>5. QED BY <3>2, <3>3, <3>4
    <2>5. QED BY <2>2, <2>3, <2>4
  <1>10. QED BY <1>1, <1>8, <1>9 DEF Entire, Ends

\* Where the marks are.
LEMMA MarksAt ==
    ASSUME NEW m \in Modes, NEW j \in 1 .. Length(m), StepAt(m, j).op \in Marks
    PROVE  \/ m = "open" /\ j \in {1, 5}
           \/ m = "failed_open" /\ j = 3
           \/ m = "poll" /\ j \in 2 .. LastPoll - 1
           \/ m = "target_init" /\ j \in {1, 3, 5, 7}
           \/ m \in {"timed_out", "close", "close_target"} /\ j = 2
  BY Table DEF Marks

\* What they deal with.
LEMMA MarkSteps ==
    /\ Is(StepAt("open", 5), "catch", "close") /\ Is(StepAt("open", 1), "catch", "any")
    /\ Is(StepAt("failed_open", 3), "catch", "any")
    /\ Is(StepAt("target_init", 1), "catch", "idle") /\ Is(StepAt("target_init", 3), "try", "")
    /\ Is(StepAt("target_init", 5), "catch", "any") /\ Is(StepAt("target_init", 7), "try", "")
    /\ Is(StepAt("timed_out", 2), "catch", "any") /\ Is(StepAt("close", 2), "catch", "any")
    /\ Is(StepAt("close_target", 2), "catch", "any")
  <1>1. /\ Is(Catch("any"), "catch", "any") /\ Is(Catch("close"), "catch", "close")
        /\ Is(Catch("idle"), "catch", "idle") /\ Is(Try, "try", "")
    BY DEF Is, Catch, Try, Step
  <1>2. QED BY <1>1, Scripts, Zenon

\* Where the script goes on after an error that is dealt with.
Lands(m, n, e, m2, n2) ==
    \/ m = "open" /\ n \in {5, 6} /\ m2 = "failed_open" /\ n2 = 7
    \/ m = "open" /\ n \in {3, 4} /\ m2 = m /\ n2 = 0
    \/ m = "failed_open" /\ n \in 5 .. 7 /\ m2 = m /\ n2 = 2
    \/ m = "poll" /\ n \in 3 .. LastPoll - 1 /\ Phase(n) = 2 /\ e = "timeout" /\ m2 = m
       /\ n2 = n - 2
    \/ m = "target_init" /\ n = 5 /\ m2 = m /\ n2 = 4
    \/ m = "target_init" /\ n = 2 /\ e = "timeout" /\ m2 = "timed_out" /\ n2 = 5
    \/ m \in {"timed_out", "close", "close_target"} /\ n \in 4 .. 6 /\ m2 = m /\ n2 = 1

\* Where an error ends the call.
Fatal(m, n, e) ==
    \/ m \in {"initiator_init", "exchange", "deselect", "receive", "send"}
    \/ m = "poll" /\ n = 1
    \/ m = "poll" /\ n \in 3 .. LastPoll - 1 /\ Phase(n) = 2 /\ e # "timeout"
    \/ m = "poll" /\ n = LastPoll
    \/ m = "target_init" /\ n = 10
    \/ m = "target_init" /\ n = 2 /\ e # "timeout"
    \/ m \in {"failed_open", "timed_out"} /\ n = 1

\* Where the steps are that can fail.
Fails(m, n) ==
    \/ m = "open" /\ n \in {3, 4, 6} /\ Len(todo) = n
    \/ m = "open" /\ n = 5 /\ Len(todo) > n
    \/ m = "failed_open" /\ n \in {1, 5, 6, 7} /\ Len(todo) = n
    \/ m = "initiator_init" /\ n \in {4, 6, 7, 8}
    \/ m = "poll" /\ n = 1 /\ Len(todo) = 1
    \/ m = "poll" /\ n \in 3 .. LastPoll - 1 /\ Phase(n) = 2
    \/ m = "poll" /\ n = LastPoll
    \/ m \in {"exchange", "receive", "send", "deselect"} /\ n = 1 /\ Len(todo) = 1
    \/ m = "target_init" /\ n \in {2, 10}
    \/ m = "target_init" /\ n = 5 /\ Len(todo) > n
    \/ m \in {"timed_out", "close", "close_target"} /\ n \in 4 .. 6 /\ Len(todo) = n
    \/ m = "timed_out" /\ n = 1 /\ Len(todo) = n

\* A step that can fail is where steps can fail.
LEMMA WhereFails ==
    ASSUME HostTypes, todo # <<>>, NEW m, NEW n, Where(m, n),
           Head(todo).op \in {"cmd", "frame", "raise"}
    PROVE  Fails(m, n)
  <1>1. /\ Len(todo) \in Nat /\ n \in Nat /\ Len(todo) >= n /\ m \in Modes /\ n <= Length(m)
           /\ Length(m) \in Nat
    BY LengthNat DEF HostTypes, Where, Ends
  <1>2. CASE Len(todo) = n /\ n \in 1 .. Length(m) /\ Head(todo) = StepAt(m, n)
    BY <1>1, <1>2, Table, Lengths DEF Fails
  <1>3. CASE m = "open" /\ n = 5 /\ Len(todo) = 6
    BY <1>3 DEF Fails
  <1>4. CASE m = "open" /\ n = 5 /\ Len(todo) = 7
    BY <1>4 DEF Fails
  <1>5. CASE Garbled(m, n) /\ Len(todo) = n + 1
    BY <1>1, <1>5 DEF Fails, Garbled
  <1>6. CASE m \in Caching /\ n \in 1 .. Length(m) /\ Len(todo) > n
    <2>1. Inserted(m, n, Len(todo) - n) /\ Len(todo) - n # 0
      BY <1>1, <1>6 DEF Where
    <2>2. Garbled(m, n) \/ StepAt(m, n).op = "cmd"
      BY <1>6, <2>1, Zenon DEF Inserted, Caching
    <2>3. CASE Garbled(m, n)
      BY <1>1, <1>6, <2>3 DEF Fails, Garbled
    <2>4. CASE StepAt(m, n).op = "cmd"
      BY <1>1, <1>6, <2>4, Table DEF Fails, Caching
    <2>5. QED BY <2>2, <2>3, <2>4
  <1>7. QED BY <1>2, <1>3, <1>4, <1>5, <1>6, Heads, Zenon

\* A mark deals with the error, and the script goes on behind it.
LEMMA PassesOn ==
    ASSUME HostTypes, todo # <<>>, NEW m, NEW n, Where(m, n), call' = call, NEW e,
           NEW p \in 1 .. n, p < Len(todo), StepAt(m, p).op \in Marks,
           \A j \in p + 1 .. n : j < Len(todo) => StepAt(m, j).op \notin Marks,
           StepAt(m, p).name = "any" \/ (StepAt(m, p).name = "timeout" /\ e = "timeout")
    PROVE  todo' = Handler(e).todo => Handler(e).caught /\ Where(m, p - 1)'
           /\ Len(todo') = p - 1
  <1>1. SUFFICES ASSUME todo' = Handler(e).todo
                 PROVE  Handler(e).caught /\ Where(m, p - 1)' /\ Len(todo') = p - 1
    OBVIOUS
  <1>2. Handler(e) = AtMark(Len(todo) + 1 - p, e)
    BY FirstMark
  <1>3. /\ Len(todo) \in Nat /\ n \in Nat /\ Len(todo) >= n
        /\ Len(todo) + 1 - p \in 1 .. Len(todo) /\ Len(todo) + 1 - (Len(todo) + 1 - p) = p
    BY LengthNat DEF HostTypes, Where, Ends
  <1>4. todo[Len(todo) + 1 - p] = StepAt(m, p)
    BY DEF Where, Ends
  <1>5. Handler(e) = [caught |-> TRUE, todo |-> SubSeq(todo, Len(todo) + 1 - p + 1, Len(todo))]
    BY <1>2, <1>4 DEF AtMark
  <1>6. QED BY <1>1, <1>5, GoesOn

\* The cases of a failure.
LEMMA WhereAfter ==
    ASSUME NEW m, NEW n \in Nat, NEW l \in Nat, l = Len(todo), Fails(m, n)
    PROVE  /\ m \in {"open", "target_init"} /\ n = 5 => l > 5
           /\ \/ m = "open" /\ n \in {5, 6}
              \/ m = "open" /\ n \in {3, 4}
              \/ m = "failed_open" /\ n \in 5 .. 7
              \/ m \in {"timed_out", "close", "close_target"} /\ n \in 4 .. 6
              \/ m = "target_init" /\ n = 5
              \/ m = "poll" /\ n \in 3 .. LastPoll - 1 /\ Phase(n) = 2
              \/ m = "poll" /\ n = LastPoll
              \/ m = "target_init" /\ n = 10
              \/ m \in {"initiator_init", "exchange", "deselect", "receive", "send"}
              \/ m \in {"failed_open", "timed_out", "poll"} /\ n = 1 /\ l = 1
              \/ m = "target_init" /\ n = 2
  <1>1. m \in {"open", "target_init"} /\ n = 5 => l > 5
    BY DEF Fails
  <1>2. QED BY <1>1 DEF Fails

\* What becomes of the script after an error.
LEMMA Landing ==
    ASSUME HostTypes, todo # <<>>, NEW m, NEW n, Where(m, n), call' = call, NEW e
    PROVE  (/\ todo' = Handler(e).todo /\ Fails(m, n)
            /\ m = "open" => pnd.oper = "INITIATOR"
            /\ m = "target_init" /\ n = 2 => pnd.oper = "TARGET") =>
             \/ Handler(e).caught /\ \E m2, n2 : Lands(m, n, e, m2, n2) /\ Where(m2, n2)'
                /\ Len(todo') = n2
             \/ ~Handler(e).caught /\ Fatal(m, n, e) /\ todo' = <<>> /\ Where(m, 0)'
  <1>1. SUFFICES ASSUME todo' = Handler(e).todo, Fails(m, n), m = "open"
                        => pnd.oper = "INITIATOR",
                        m = "target_init" /\ n = 2 => pnd.oper = "TARGET"
                 PROVE  \/ Handler(e).caught /\ \E m2, n2 : Lands(m, n, e, m2, n2)
                           /\ Where(m2, n2)' /\ Len(todo') = n2
                        \/ ~Handler(e).caught /\ Fatal(m, n, e) /\ todo' = <<>> /\ Where(m, 0)'
    OBVIOUS
  <1>2. /\ Len(todo) \in Nat /\ n \in Nat /\ Len(todo) >= n /\ m \in Modes /\ n <= Length(m)
        /\ Length(m) \in Nat /\ call' = CallOf(m)
    BY LengthNat DEF HostTypes, Where, Ends
  <1>3. \A j \in 1 .. n : StepAt(m, j).op \in Marks =>
            \/ m = "open" /\ j \in {1, 5}
            \/ m = "failed_open" /\ j = 3
            \/ m = "poll" /\ j \in 2 .. LastPoll - 1
            \/ m = "target_init" /\ j \in {1, 3, 5, 7}
            \/ m \in {"timed_out", "close", "close_target"} /\ j = 2
    BY <1>2, MarksAt
  <1>4. /\ {"try", "catch"} = Marks /\ LastPoll \in Nat
    BY BoundAssumption DEF Marks, LastPoll
  <1>5. ASSUME Handler(e) = [caught |-> FALSE, todo |-> <<>>], Fatal(m, n, e)
        PROVE  ~Handler(e).caught /\ Fatal(m, n, e) /\ todo' = <<>> /\ Where(m, 0)'
    <2>1. todo' = <<>> /\ ~Handler(e).caught
      BY <1>1, <1>5
    <2>2. Len(todo') = 0 /\ Len(todo') - 0 = 0 /\ 0 \in 0 .. Length(m)
      BY <1>2, <2>1
    <2>3. Ends(todo', m, 0)
      BY <2>2 DEF Ends
    <2>4. Inserted(m, 0, Len(todo) - 0)'
      BY <2>2, Zenon DEF Inserted
    <2>5. QED BY <1>2, <1>5, <2>1, <2>2, <2>3, <2>4, Zenon DEF Where
  <1>6. CASE m = "open" /\ n \in {5, 6}
    <2>1. 5 \in 1 .. n /\ 5 < Len(todo)
      <3>1. CASE n = 5
        BY <1>1, <1>2, <1>6, <3>1, WhereAfter
      <3>2. CASE n = 6
        BY <1>2, <3>2
      <3>3. QED BY <1>6, <3>1, <3>2
    <2>2. \A j \in 5 + 1 .. n : j < Len(todo) => StepAt(m, j).op \notin Marks
      BY <1>3, <1>6
    <2>3. StepAt(m, 5).op \in Marks /\ StepAt(m, 5).name = "close"
      BY <1>6, <1>4, MarkSteps DEF Is
    <2>4. Handler(e) = AtMark(Len(todo) + 1 - 5, e)
      BY <2>1, <2>2, <2>3, FirstMark
    <2>5. todo[Len(todo) + 1 - 5] = StepAt(m, 5)
      BY <2>1 DEF Where, Ends
    <2>6. Handler(e) = [caught |-> TRUE, todo |-> close \o <<Raise("io")>>]
      BY <2>3, <2>4, <2>5 DEF AtMark
    <2>7. Handler(e).caught /\ todo' = close \o <<Raise("io")>>
      BY <1>1, <2>6
    <2>8. Entire(todo', "failed_open")
      BY <1>1, <1>6, <2>7, FailedOpenWhole
    <2>9. Ends(todo', "failed_open", 7) /\ Len(todo') = 7 /\ Len(todo') - 7 = 0
          /\ 7 \in 0 .. Length("failed_open")
      BY <2>8, Lengths DEF Entire
    <2>10. Inserted("failed_open", 7, Len(todo) - 7)'
      BY <2>9, Zenon DEF Inserted
    <2>11. "failed_open" \in Modes /\ call' = CallOf("failed_open")
      BY <1>2, <1>6 DEF Modes, CallOf
    <2>12. Where("failed_open", 7)'
      BY <2>9, <2>10, <2>11, Zenon DEF Where
    <2>13. Lands(m, n, e, "failed_open", 7)
      BY <1>6 DEF Lands
    <2>14. QED BY <2>7, <2>9, <2>12, <2>13, Zenon
  <1>7. ASSUME NEW p \in 1 .. n, p < Len(todo), StepAt(m, p).op \in Marks,
               \A j \in p + 1 .. n : j < Len(todo) => StepAt(m, j).op \notin Marks,
               StepAt(m, p).name = "any" \/ (StepAt(m, p).name = "timeout" /\ e = "timeout"),
               Lands(m, n, e, m, p - 1)
        PROVE  Handler(e).caught /\ \E m2, n2 : Lands(m, n, e, m2, n2) /\ Where(m2, n2)'
               /\ Len(todo') = n2
    <2>1. Handler(e).caught /\ Where(m, p - 1)' /\ Len(todo') = p - 1
      BY <1>1, <1>7, PassesOn
    <2>2. QED BY <1>7, <2>1, Zenon
  <1>8. CASE m = "open" /\ n \in {3, 4}
    <2>1. 1 \in 1 .. n /\ 1 < Len(todo) /\ Lands(m, n, e, m, 1 - 1)
      BY <1>2, <1>8 DEF Lands
    <2>2. \A j \in 1 + 1 .. n : j < Len(todo) => StepAt(m, j).op \notin Marks
      BY <1>3, <1>8
    <2>3. StepAt(m, 1).op \in Marks /\ StepAt(m, 1).name = "any"
      BY <1>8, <1>4, MarkSteps DEF Is
    <2>4. QED BY <1>7, <2>1, <2>2, <2>3
  <1>9. CASE m = "failed_open" /\ n \in 5 .. 7
    <2>1. 3 \in 1 .. n /\ 3 < Len(todo) /\ Lands(m, n, e, m, 3 - 1)
      BY <1>2, <1>9 DEF Lands
    <2>2. \A j \in 3 + 1 .. n : j < Len(todo) => StepAt(m, j).op \notin Marks
      BY <1>3, <1>9
    <2>3. StepAt(m, 3).op \in Marks /\ StepAt(m, 3).name = "any"
      BY <1>9, <1>4, MarkSteps DEF Is
    <2>4. QED BY <1>7, <2>1, <2>2, <2>3
  <1>10. CASE m \in {"timed_out", "close", "close_target"} /\ n \in 4 .. 6
    <2>1. 2 \in 1 .. n /\ 2 < Len(todo) /\ Lands(m, n, e, m, 2 - 1)
      BY <1>2, <1>10 DEF Lands
    <2>2. \A j \in 2 + 1 .. n : j < Len(todo) => StepAt(m, j).op \notin Marks
      BY <1>3, <1>10
    <2>3. StepAt(m, 2).op \in Marks /\ StepAt(m, 2).name = "any"
      BY <1>10, <1>4, MarkSteps DEF Is
    <2>4. QED BY <1>7, <2>1, <2>2, <2>3
  <1>11. CASE m = "target_init" /\ n = 5
    <2>1. 5 \in 1 .. n /\ 5 < Len(todo) /\ Lands(m, n, e, m, 5 - 1)
      <3>1. Len(todo) > n
        BY <1>1, <1>11 DEF Fails
      <3>2. QED BY <1>2, <1>11, <3>1 DEF Lands
    <2>2. \A j \in 5 + 1 .. n : j < Len(todo) => StepAt(m, j).op \notin Marks
      BY <1>11
    <2>3. StepAt(m, 5).op \in Marks /\ StepAt(m, 5).name = "any"
      BY <1>11, <1>4, MarkSteps DEF Is
    <2>4. QED BY <1>7, <2>1, <2>2, <2>3
  <1>12. CASE m = "poll" /\ n \in 3 .. LastPoll - 1 /\ Phase(n) = 2
    <2>1. n - 1 \in 1 .. n /\ n - 1 < Len(todo) /\ n - 1 \in 2 .. LastPoll - 1
          /\ n - 1 - 1 = n - 2
      BY <1>2, <1>4, <1>12
    <2>2. \A j \in (n - 1) + 1 .. n : j < Len(todo) => StepAt(m, j).op \notin Marks
      <3>1. ASSUME NEW j \in (n - 1) + 1 .. n
            PROVE  StepAt(m, j).op \notin Marks
        <4>1. j = n
          BY <1>2
        <4>2. StepAt("poll", n) = InJumpForDEP
          BY <1>2, <1>4, <1>12, PollSteps
        <4>3. QED BY <1>4, <1>12, <4>1, <4>2, Parts DEF Is, Marks
      <3>2. QED BY <3>1
    <2>3. StepAt(m, n - 1).op \in Marks /\ StepAt(m, n - 1).name = "timeout"
      <3>1. Phase(n - 1) = 3
        BY <1>12, PhaseNext
      <3>2. n - 1 \in 1 .. LastPoll
        BY <2>1, <1>4
      <3>3. StepAt("poll", n - 1) = Catch("timeout")
        BY <2>1, <3>1, <3>2, PollSteps
      <3>4. QED BY <1>12, <3>3 DEF Catch, Step, Marks
    <2>4. CASE e = "timeout"
      <3>1. Lands(m, n, e, m, n - 1 - 1)
        BY <1>12, <2>1, <2>4 DEF Lands
      <3>2. QED BY <1>7, <2>1, <2>2, <2>3, <2>4, <3>1
    <2>5. CASE e # "timeout"
      <3>1. Handler(e) = AtMark(Len(todo) + 1 - (n - 1), e)
        BY <2>1, <2>2, <2>3, FirstMark
      <3>2. todo[Len(todo) + 1 - (n - 1)] = StepAt(m, n - 1)
        BY <2>1 DEF Where, Ends
      <3>3. Handler(e) = [caught |-> FALSE, todo |-> <<>>]
        BY <2>3, <2>5, <3>1, <3>2 DEF AtMark
      <3>4. Fatal(m, n, e)
        BY <1>12, <2>5 DEF Fatal
      <3>5. QED BY <1>5, <3>3, <3>4
    <2>6. QED BY <2>4, <2>5
  <1>13. ASSUME NEW p \in 1 .. n, p < Len(todo), StepAt(m, p).op \in Marks,
                StepAt(m, p).name = "",
                \A j \in p + 1 .. n : j < Len(todo) => StepAt(m, j).op \notin Marks
         PROVE  Handler(e) = [caught |-> FALSE, todo |-> <<>>]
    <2>1. Handler(e) = AtMark(Len(todo) + 1 - p, e)
      BY <1>13, FirstMark
    <2>2. todo[Len(todo) + 1 - p] = StepAt(m, p)
      BY <1>13 DEF Where, Ends
    <2>3. QED BY <1>13, <2>1, <2>2 DEF AtMark
  <1>14. CASE m = "poll" /\ n = LastPoll
    <2>1. Fatal(m, n, e)
      BY <1>14 DEF Fatal
    <2>2. CASE Polls = 0
      <3>1. n = 2
        BY <1>14, <2>2 DEF LastPoll
      <3>2. \A j \in 1 .. n : j < Len(todo) => StepAt(m, j).op \notin Marks
        <4>1. ASSUME NEW j \in 1 .. n, StepAt(m, j).op \in Marks PROVE FALSE
          BY <1>3, <1>14, <3>1, <4>1
        <4>2. QED BY <4>1
      <3>3. QED BY <1>5, <2>1, <3>2, NoMark
    <2>3. CASE Polls # 0
      <3>1. LastPoll = 4 * Polls + 2 /\ Polls \in Nat /\ Polls > 0
        BY <2>3, BoundAssumption DEF LastPoll
      <3>2. LastPoll - 1 \in 1 .. n /\ LastPoll - 1 < Len(todo)
            /\ LastPoll - 1 \in 2 .. LastPoll - 1 /\ LastPoll - 1 \in 1 .. LastPoll
        BY <1>2, <1>14, <3>1
      <3>3. Phase(LastPoll - 1) = 0
        <4>1. LastPoll - 1 - (LastPoll - 1) = 0
          BY <3>1
        <4>2. QED BY <4>1 DEF Phase
      <3>4. StepAt("poll", LastPoll - 1) = Try
        BY <3>2, <3>3, PollSteps
      <3>5. StepAt(m, LastPoll - 1).op \in Marks /\ StepAt(m, LastPoll - 1).name = ""
        BY <1>14, <3>4, Parts DEF Is, Marks
      <3>6. \A j \in (LastPoll - 1) + 1 .. n : j < Len(todo) => StepAt(m, j).op \notin Marks
        <4>1. ASSUME NEW j \in (LastPoll - 1) + 1 .. n
              PROVE  StepAt(m, j).op \notin Marks
          <5>1. j = LastPoll /\ LastPoll \in 1 .. LastPoll
            BY <1>14, <3>1
          <5>2. StepAt("poll", LastPoll) = MaxRetries
            BY <5>1, PollSteps
          <5>3. QED BY <1>4, <1>14, <5>1, <5>2, Parts DEF Is, Marks
        <4>2. QED BY <4>1
      <3>7. QED BY <1>5, <1>13, <2>1, <3>2, <3>5, <3>6
    <2>4. QED BY <2>2, <2>3
  <1>15. CASE m = "target_init" /\ n = 10
    <2>1. Fatal(m, n, e)
      BY <1>15 DEF Fatal
    <2>2. 7 \in 1 .. n /\ 7 < Len(todo)
      BY <1>2, <1>15
    <2>3. StepAt(m, 7).op \in Marks /\ StepAt(m, 7).name = ""
      BY <1>15, <1>4, MarkSteps DEF Is
    <2>4. \A j \in 7 + 1 .. n : j < Len(todo) => StepAt(m, j).op \notin Marks
      BY <1>3, <1>15
    <2>5. QED BY <1>5, <1>13, <2>1, <2>2, <2>3, <2>4
  <1>16. CASE m \in {"initiator_init", "exchange", "deselect", "receive", "send"}
    <2>1. Fatal(m, n, e)
      BY <1>16 DEF Fatal
    <2>2. \A j \in 1 .. n : j < Len(todo) => StepAt(m, j).op \notin Marks
      BY <1>3, <1>16
    <2>3. QED BY <1>5, <2>1, <2>2, NoMark
  <1>17. CASE m \in {"failed_open", "timed_out", "poll"} /\ n = 1 /\ Len(todo) = 1
    <2>1. Fatal(m, n, e)
      BY <1>17 DEF Fatal
    <2>2. \A j \in 1 .. n : j < Len(todo) => StepAt(m, j).op \notin Marks
      BY <1>17
    <2>3. QED BY <1>5, <2>1, <2>2, NoMark
  <1>18. CASE m = "target_init" /\ n = 2
    <2>1. 1 \in 1 .. n /\ 1 < Len(todo)
      BY <1>2, <1>18
    <2>2. \A j \in 1 + 1 .. n : j < Len(todo) => StepAt(m, j).op \notin Marks
      BY <1>3, <1>18
    <2>3. StepAt(m, 1).op \in Marks /\ StepAt(m, 1).name = "idle"
      BY <1>18, <1>4, MarkSteps DEF Is
    <2>4. Handler(e) = AtMark(Len(todo) + 1 - 1, e)
      BY <2>1, <2>2, <2>3, FirstMark
    <2>5. todo[Len(todo) + 1 - 1] = StepAt(m, 1)
      BY <2>1 DEF Where, Ends
    <2>6. CASE e # "timeout"
      <3>1. Handler(e) = [caught |-> FALSE, todo |-> <<>>]
        BY <2>3, <2>4, <2>5, <2>6 DEF AtMark
      <3>2. Fatal(m, n, e)
        BY <1>18, <2>6 DEF Fatal
      <3>3. QED BY <1>5, <3>1, <3>2
    <2>7. CASE e = "timeout"
      <3>1. Handler(e) = [caught |-> TRUE, todo |-> idle \o <<Catch("any"), Raise("timeout")>>]
        BY <2>3, <2>4, <2>5, <2>7 DEF AtMark
      <3>2. Handler(e).caught /\ todo' = idle \o <<Catch("any"), Raise("timeout")>>
        BY <1>1, <3>1
      <3>3. Entire(todo', "timed_out")
        BY <1>1, <1>18, <3>2, TimedOutWhole
      <3>4. Ends(todo', "timed_out", 5) /\ Len(todo') = 5 /\ Len(todo') - 5 = 0
            /\ 5 \in 0 .. Length("timed_out")
        BY <3>3, Lengths DEF Entire
      <3>5. Inserted("timed_out", 5, Len(todo) - 5)'
        BY <3>4, Zenon DEF Inserted
      <3>6. "timed_out" \in Modes /\ call' = CallOf("timed_out")
        BY <1>2, <1>18 DEF Modes, CallOf
      <3>7. Where("timed_out", 5)'
        BY <3>4, <3>5, <3>6, Zenon DEF Where
      <3>8. Lands(m, n, e, "timed_out", 5)
        BY <1>18, <2>7 DEF Lands
      <3>9. QED BY <3>2, <3>4, <3>7, <3>8, Zenon
    <2>8. QED BY <2>6, <2>7
  <1>19. \/ m = "open" /\ n \in {5, 6}
         \/ m = "open" /\ n \in {3, 4}
         \/ m = "failed_open" /\ n \in 5 .. 7
         \/ m \in {"timed_out", "close", "close_target"} /\ n \in 4 .. 6
         \/ m = "target_init" /\ n = 5
         \/ m = "poll" /\ n \in 3 .. LastPoll - 1 /\ Phase(n) = 2
         \/ m = "poll" /\ n = LastPoll
         \/ m = "target_init" /\ n = 10
         \/ m \in {"initiator_init", "exchange", "deselect", "receive", "send"}
         \/ m \in {"failed_open", "timed_out", "poll"} /\ n = 1 /\ Len(todo) = 1
         \/ m = "target_init" /\ n = 2
    BY <1>1, <1>2, WhereAfter
  <1>20. QED BY <1>6, <1>8, <1>9, <1>10, <1>11, <1>12, <1>14, <1>15, <1>16, <1>17, <1>18, <1>19,
            Zenon

\* The parts of the position.
LEMMA WhereParts ==
    ASSUME HostTypes, NEW m, NEW n, Where(m, n)
    PROVE  /\ Len(todo) \in Nat /\ n \in Nat /\ Len(todo) >= n /\ m \in Modes /\ n <= Length(m)
           /\ Length(m) \in Nat /\ call = CallOf(m) /\ todo \in Seq(StepType)
           /\ Ends(todo, m, n) /\ Inserted(m, n, Len(todo) - n)
  BY LengthNat DEF HostTypes, Where, Ends

\* What the cache puts before a command.
LEMMA PutFirst ==
    ASSUME NEW s \in Seq(StepType), NEW t, t = (<<>> \o <<Write>>) \o s
           \/ t = (<<ReadRegister>> \o <<Write>>) \o s
    PROVE  \E h \in 1 .. 2 :
             /\ Len(t) = Len(s) + h /\ \A i \in 1 .. Len(s) : t[h + i] = s[i]
             /\ (h = 1 /\ t[1] = Write) \/ (h = 2 /\ t[1] = ReadRegister /\ t[2] = Write)
             /\ \A m : \A n \in Nat : Ends(s, m, n) => Ends(t, m, n)
  <1>1. Write \in StepType /\ ReadRegister \in StepType
    BY NamedSteps, StepsTyped
  <1>2. ASSUME NEW p \in Seq(StepType), t = p \o s, NEW h \in 1 .. 2, Len(p) = h,
               (h = 1 /\ p[1] = Write) \/ (h = 2 /\ p[1] = ReadRegister /\ p[2] = Write)
        PROVE  /\ Len(t) = Len(s) + h /\ \A i \in 1 .. Len(s) : t[h + i] = s[i]
               /\ (h = 1 /\ t[1] = Write) \/ (h = 2 /\ t[1] = ReadRegister /\ t[2] = Write)
               /\ \A m : \A n \in Nat : Ends(s, m, n) => Ends(t, m, n)
    <2>1. /\ Len(p \o s) = Len(p) + Len(s) /\ \A i \in 1 .. Len(p) : (p \o s)[i] = p[i]
          /\ \A i \in 1 .. Len(s) : (p \o s)[Len(p) + i] = s[i]
      BY <1>2, Prefix
    <2>2. \A m : \A n \in Nat : Ends(s, m, n) => Ends(t, m, n)
      BY <1>2, EndsPrefix
    <2>3. Len(t) = Len(s) + h /\ \A i \in 1 .. Len(s) : t[h + i] = s[i]
      BY <2>1, <1>2
    <2>4. (h = 1 /\ t[1] = Write) \/ (h = 2 /\ t[1] = ReadRegister /\ t[2] = Write)
      <3>1. \A i \in 1 .. h : t[i] = p[i]
        BY <2>1, <1>2
      <3>2. CASE h = 1
        BY <1>2, <3>1, <3>2
      <3>3. CASE h = 2
        <4>1. t[1] = p[1] /\ t[2] = p[2] /\ ~(h = 1)
          BY <3>1, <3>3
        <4>2. QED BY <1>2, <3>3, <4>1, Zenon
      <3>4. QED BY <3>2, <3>3, <1>2
    <2>5. QED BY <2>2, <2>3, <2>4
  <1>3. CASE t = (<<>> \o <<Write>>) \o s
    <2>1. <<>> \o <<Write>> \in Seq(StepType) /\ Len(<<>> \o <<Write>>) = 1
          /\ (<<>> \o <<Write>>)[1] = Write
      BY <1>1
    <2>2. 1 \in 1 .. 2
      OBVIOUS
    <2>3. QED BY <1>2, <1>3, <2>1, <2>2
  <1>4. CASE t = (<<ReadRegister>> \o <<Write>>) \o s
    <2>1. /\ <<ReadRegister>> \o <<Write>> \in Seq(StepType)
             /\ Len(<<ReadRegister>> \o <<Write>>) = 2
          /\ (<<ReadRegister>> \o <<Write>>)[1] = ReadRegister
             /\ (<<ReadRegister>> \o <<Write>>)[2] = Write
      BY <1>1
    <2>2. 2 \in 1 .. 2
      OBVIOUS
    <2>3. QED BY <1>2, <1>4, <2>1, <2>2
  <1>5. QED BY <1>3, <1>4

\* The cache goes before the command at the head of the script, and the script does not move.
LEMMA CacheFirst ==
    ASSUME HostTypes, todo # <<>>, NEW m, NEW n, Where(m, n), call' = call,
           Head(todo).op = "cmd",
           (Len(todo) = n /\ m \in Caching) \/ todo[1] = Garbage
    PROVE  todo' = (<<>> \o <<Write>>) \o todo \/ todo' = (<<ReadRegister>> \o <<Write>>)
           \o todo
             => /\ Where(m, n)' /\ Len(todo') > n /\ m \in Caching
                /\ todo'[1] = Write \/ (todo'[1] = ReadRegister /\ todo'[2] = Write)
  <1>1. SUFFICES ASSUME todo' = (<<>> \o <<Write>>) \o todo
                        \/ todo' = (<<ReadRegister>> \o <<Write>>) \o todo
                 PROVE  /\ Where(m, n)' /\ Len(todo') > n /\ m \in Caching
                        /\ todo'[1] = Write \/ (todo'[1] = ReadRegister /\ todo'[2] = Write)
    OBVIOUS
  <1>2. /\ Len(todo) \in Nat /\ n \in Nat /\ Len(todo) >= n /\ m \in Modes /\ n <= Length(m)
        /\ Length(m) \in Nat /\ call = CallOf(m) /\ todo \in Seq(StepType)
        /\ Ends(todo, m, n) /\ Inserted(m, n, Len(todo) - n)
    BY WhereParts
  <1>3. PICK h \in 1 .. 2 :
             /\ Len(todo') = Len(todo) + h /\ \A i \in 1 .. Len(todo) : todo'[h + i] = todo[i]
             /\ (h = 1 /\ todo'[1] = Write)
                \/ (h = 2 /\ todo'[1] = ReadRegister /\ todo'[2] = Write)
             /\ Ends(todo', m, n)
    <2>1. \E h \in 1 .. 2 :
             /\ Len(todo') = Len(todo) + h /\ \A i \in 1 .. Len(todo) : todo'[h + i] = todo[i]
             /\ (h = 1 /\ todo'[1] = Write)
                \/ (h = 2 /\ todo'[1] = ReadRegister /\ todo'[2] = Write)
             /\ \A m2 : \A n2 \in Nat : Ends(todo, m2, n2) => Ends(todo', m2, n2)
      BY <1>1, <1>2, PutFirst
    <2>2. n \in Nat /\ Ends(todo, m, n)
      BY <1>2
    <2>3. QED BY <2>1, <2>2
  <1>4. Len(todo') > n /\ n \in 0 .. Length(m) /\ Len(todo') - n = (Len(todo) - n) + h
        /\ Len(todo) >= 1
    <2>1. Len(todo) >= 1
      <3>1. Len(todo) \in Nat \ {0}
        BY HeadTyped DEF HostTypes
      <3>2. QED BY <3>1
    <2>2. QED BY <1>2, <1>3, <2>1
  <1>5. Cached(h)'
    BY <1>3, Zenon DEF Cached
  <1>6. CASE Len(todo) = n /\ m \in Caching
    <2>1. n >= 1 /\ n \in 1 .. n /\ Len(todo) + 1 - n = 1 /\ Len(todo') - n = h
      BY <1>2, <1>4, <1>6
    <2>2. todo[1] = StepAt(m, n)
      BY <1>2, <2>1 DEF Ends
    <2>3. StepAt(m, n).op = "cmd"
      BY <2>2, HeadTyped DEF HostTypes
    <2>4. Inserted(m, n, Len(todo) - n)'
      BY <1>5, <1>6, <2>1, <2>3, Zenon DEF Inserted, Caching
    <2>5. Where(m, n)'
      BY <1>2, <1>3, <1>4, <2>4 DEF Where
    <2>6. QED BY <1>3, <1>4, <1>6, <2>5
  <1>7. CASE todo[1] = Garbage /\ ~(Len(todo) = n /\ m \in Caching)
    <2>1. ~Cached(1) /\ ~Cached(2) /\ \A i : Cached(i) => i = 1 \/ i = 2
      <3>1. Garbage # Write /\ Garbage # ReadRegister /\ Garbage.name # "WriteRegister"
        BY Parts DEF Is
      <3>2. QED BY <1>7, <3>1 DEF Cached
    <2>2. \A i : ~Cached(i)
      BY <2>1
    <2>3. Garbage # DiagnoseFrame /\ Garbage # SAMConfiguration
      BY Parts DEF Is
    <2>4. Len(todo) - n = 0 \/ (Garbled(m, n) /\ Len(todo) - n = 1)
      BY <1>2, <1>7, <2>2, <2>3, Zenon DEF Inserted
    <2>5. CASE Len(todo) - n = 0
      <3>1. Len(todo) = n /\ n \in 1 .. Length(m) /\ Len(todo) + 1 - n = 1 /\ n \in 1 .. n
        BY <1>2, <1>4, <2>5
      <3>2. todo[1] = StepAt(m, n)
        BY <1>2, <3>1 DEF Ends
      <3>3. Garbage.op = "cmd" /\ Garbage.name = "SetParameters"
        BY Parts DEF Is
      <3>4. m = "open" /\ n = 3
        BY <1>2, <1>7, <3>1, <3>2, <3>3, Table
      <3>5. StepAt(m, n) = SetParameters("default")
        BY <3>4, Scripts
      <3>6. SetParameters("default") # Garbage
        BY DEF Garbage, SetParameters, With, Step
      <3>7. QED BY <1>7, <3>2, <3>5, <3>6
    <2>6. CASE Garbled(m, n) /\ Len(todo) - n = 1
      <3>1. PICK k \in Nat : k = Len(todo') - n /\ k - 1 = h /\ todo'[k] = Garbage
                 /\ m \in Caching
        <4>1. m \in Caching
          BY <2>6 DEF Garbled, Caching
        <4>2. h + 1 \in Nat /\ h + 1 = Len(todo') - n /\ h + 1 - 1 = h /\ todo'[h + 1] = todo[1]
          BY <1>2, <1>3, <1>4, <2>6
        <4>3. QED BY <1>7, <4>1, <4>2
      <3>2. Cached(k - 1)'
        BY <1>5, <3>1
      <3>3. Inserted(m, n, k)'
        BY <2>6, <3>1, <3>2, Zenon DEF Inserted
      <3>4. Inserted(m, n, Len(todo) - n)'
        BY <3>1, <3>3
      <3>5. Where(m, n)'
        BY <1>2, <1>3, <1>4, <3>4 DEF Where
      <3>6. QED BY <1>3, <1>4, <3>1, <3>5
    <2>7. QED BY <2>4, <2>5, <2>6
  <1>8. QED BY <1>6, <1>7

\* The registers are written where the cache was.
LEMMA WriteNext ==
    ASSUME HostTypes, todo # <<>>, NEW m, NEW n, Where(m, n), call' = call,
           Head(todo).op = "write",
           NEW w \in StepType, w.op = "cmd", w.name = "WriteRegister"
    PROVE  todo' = <<w>> \o Tail(todo)
             => Where(m, n)' /\ Len(todo') > n /\ todo'[1] = w /\ m \in Caching
  <1>1. SUFFICES ASSUME todo' = <<w>> \o Tail(todo)
                 PROVE  Where(m, n)' /\ Len(todo') > n /\ todo'[1] = w /\ m \in Caching
    OBVIOUS
  <1>2. /\ Len(todo) \in Nat /\ n \in Nat /\ Len(todo) >= n /\ m \in Modes /\ n <= Length(m)
        /\ Length(m) \in Nat /\ call = CallOf(m) /\ todo \in Seq(StepType)
        /\ Ends(todo, m, n) /\ Inserted(m, n, Len(todo) - n)
    BY WhereParts
  <1>3. /\ m \in Caching /\ Len(todo) > n
    <2>1. CASE n \in 1 .. Length(m) /\ Head(todo) = StepAt(m, n)
      BY <1>2, <2>1, Table
    <2>2. CASE Is(Head(todo), "frame", "Diagnose") \/ Is(Head(todo), "cmd", "SAMConfiguration")
                 \/ Is(Head(todo), "cmd", "SetParameters")
      BY <2>2 DEF Is
    <2>3. QED BY <2>1, <2>2, Heads, Zenon
  <1>4. /\ Len(todo') = Len(todo) /\ todo'[1] = w /\ Ends(todo', m, n)
        /\ \A i \in 2 .. Len(todo) : todo'[i] = todo[i]
    <2>1. /\ Tail(todo) \in Seq(StepType) /\ Len(Tail(todo)) = Len(todo) - 1
             /\ <<w>> \in Seq(StepType)
          /\ Len(<<w>>) = 1 /\ <<w>>[1] = w /\ Ends(Tail(todo), m, n)
          /\ \A i \in 1 .. Len(todo) - 1 : Tail(todo)[i] = todo[i + 1]
      BY <1>2, <1>3, EndsTail, HeadTyped
    <2>2. /\ Len(todo') = 1 + Len(Tail(todo)) /\ \A i \in 1 .. 1 : todo'[i] = <<w>>[i]
          /\ \A i \in 1 .. Len(Tail(todo)) : todo'[1 + i] = Tail(todo)[i]
      BY <1>1, <2>1, Prefix
    <2>3. Ends(todo', m, n)
      BY <1>1, <1>2, <2>1, EndsPrefix
    <2>4. ASSUME NEW i \in 2 .. Len(todo) PROVE todo'[i] = todo[i]
      <3>1. i - 1 \in 1 .. Len(todo) - 1 /\ 1 + (i - 1) = i /\ (i - 1) + 1 = i
        BY <1>2
      <3>2. QED BY <2>1, <2>2, <3>1
    <2>5. QED BY <1>2, <2>1, <2>2, <2>3, <2>4
  <1>5. todo[1].op = "write" /\ todo[1] = Head(todo)
    BY HeadTyped DEF HostTypes
  <1>6. \A i : Cached(i) => i = 1
    BY <1>5, Parts DEF Cached, Is
  <1>7. PICK h \in Nat : h = Len(todo) - n
    BY <1>2, <1>3
  <1>8. Len(todo') - n = h /\ h <= Len(todo) /\ ~(h = 0) /\ h \in Nat
    BY <1>2, <1>3, <1>4, <1>7
  <1>9. Cached(1)'
    BY <1>4, Zenon DEF Cached
  <1>10. \/ Garbled(m, n) /\ todo[h] = Garbage /\ (h = 1 \/ h - 1 = 1)
         \/ m \in Caching /\ n >= 1 /\ StepAt(m, n).op = "cmd" /\ h = 1
    <2>1. ~(m = "open")
      BY <1>3 DEF Caching
    <2>2. Inserted(m, n, h)
      BY <1>2, <1>7
    <2>3. QED BY <1>6, <1>8, <2>1, <2>2, Zenon DEF Inserted, Caching
  <1>11. Inserted(m, n, h)'
    <2>1. CASE Garbled(m, n) /\ todo[h] = Garbage /\ h = 1
      BY <1>5, <2>1, Parts DEF Is
    <2>2. CASE Garbled(m, n) /\ todo[h] = Garbage /\ h - 1 = 1
      <3>1. h = 2 /\ h \in 2 .. Len(todo)
        BY <1>8, <2>2
      <3>2. todo'[h] = Garbage /\ Cached(h - 1)'
        BY <1>4, <1>9, <2>2, <3>1
      <3>3. QED BY <2>2, <3>2, Zenon DEF Inserted
    <2>3. CASE m \in Caching /\ n >= 1 /\ StepAt(m, n).op = "cmd" /\ h = 1
      BY <1>9, <2>3, Zenon DEF Inserted, Caching
    <2>4. QED BY <1>10, <2>1, <2>2, <2>3
  <1>12. Inserted(m, n, Len(todo) - n)' /\ n \in 0 .. Length(m) /\ call' = CallOf(m)
    BY <1>2, <1>8, <1>11
  <1>13. Where(m, n)'
    BY <1>2, <1>4, <1>12 DEF Where
  <1>14. QED BY <1>2, <1>3, <1>4, <1>13

\* A script at its beginning.
LEMMA WhereBegins ==
    ASSUME NEW s, NEW m \in Modes, NEW n \in 0 .. Length(m), Ends(s, m, n), Len(s) = n,
           call' = CallOf(m)
    PROVE  todo' = s => Where(m, n)' /\ Len(todo') = n
  <1>1. SUFFICES ASSUME todo' = s PROVE Where(m, n)' /\ Len(todo') = n
    OBVIOUS
  <1>2. Ends(todo', m, n) /\ Len(todo') = n
    BY <1>1
  <1>3. Len(todo') - n = 0
    BY <1>2, LengthNat
  <1>4. Inserted(m, n, Len(todo) - n)'
    BY <1>3, Zenon DEF Inserted
  <1>5. QED BY <1>2, <1>4 DEF Where

\* Something is put before what follows the step that is done.
LEMMA PutBack ==
    ASSUME HostTypes, todo # <<>>, NEW m, NEW n, Where(m, n), Len(todo) = n,
           NEW p \in Seq(StepType)
    PROVE  todo' = p \o Tail(todo) =>
             /\ Ends(todo', m, n - 1) /\ Len(todo') = Len(p) + (n - 1)
                /\ \A i \in 1 .. Len(p) : todo'[i] = p[i]
  <1>1. SUFFICES ASSUME todo' = p \o Tail(todo)
                 PROVE  /\ Ends(todo', m, n - 1) /\ Len(todo') = Len(p) + (n - 1)
                        /\ \A i \in 1 .. Len(p) : todo'[i] = p[i]
    OBVIOUS
  <1>2. n \in Nat /\ todo \in Seq(StepType) /\ Ends(todo, m, n) /\ Len(todo) \in Nat \ {0}
    BY WhereParts, HeadTyped
  <1>3. /\ Tail(todo) \in Seq(StepType) /\ Len(Tail(todo)) = n - 1 /\ Ends(Tail(todo), m, n - 1)
           /\ n - 1 \in Nat
    BY <1>2, EndsTail
  <1>4. Ends(todo', m, n - 1)
    BY <1>1, <1>3, EndsPrefix
  <1>5. Len(todo') = Len(p) + Len(Tail(todo)) /\ \A i \in 1 .. Len(p) : todo'[i] = p[i]
    BY <1>1, <1>3, Prefix
  <1>6. QED BY <1>3, <1>4, <1>5

\* pn532_uart_send wakes the chip before the first command of open.
LEMMA WakeWhere ==
    ASSUME HostTypes, todo # <<>>, Where("open", 6), Len(todo) = 6, call' = call
    PROVE  todo' = <<SAMConfiguration, [Head(todo) EXCEPT !.op = "frame"]>> \o Tail(todo)
             => Where("open", 5)' /\ Len(todo') = 7 /\ todo'[1] = SAMConfiguration
  <1>1. SUFFICES ASSUME todo' = <<SAMConfiguration, [Head(todo) EXCEPT !.op = "frame"]>>
                        \o Tail(todo)
                 PROVE  Where("open", 5)' /\ Len(todo') = 7 /\ todo'[1] = SAMConfiguration
    OBVIOUS
  <1>2. /\ call = CallOf("open") /\ todo \in Seq(StepType) /\ Ends(todo, "open", 6)
           /\ "open" \in Modes
    BY WhereParts
  <1>3. Head(todo) = Diagnose
    <2>1. 6 \in 1 .. 6 /\ Len(todo) + 1 - 6 = 1
      OBVIOUS
    <2>2. todo[1] = StepAt("open", 6)
      BY <1>2, <2>1 DEF Ends
    <2>3. QED BY <1>2, <2>2, HeadTyped, Scripts
  <1> DEFINE p == <<SAMConfiguration, DiagnoseFrame>>
  <1>4. p \in Seq(StepType) /\ Len(p) = 2 /\ p[1] = SAMConfiguration /\ p[2] = DiagnoseFrame
    <2>1. DiagnoseFrame \in StepType
      <3>1. DiagnoseFrame = Step("frame", "Diagnose", {})
        <4>1. ASSUME NEW a
                     PROVE [Step("cmd", "Diagnose", a) EXCEPT !.op = "frame"] = Step("frame",
                     "Diagnose", a)
          BY DEF Step
        <4>2. QED BY <4>1 DEF DiagnoseFrame, Diagnose, Cmd
      <3>2. QED BY <3>1 DEF Step, StepType, Commands, Prompt
    <2>2. SAMConfiguration \in StepType
      BY NamedSteps
    <2>3. QED BY <2>1, <2>2
  <1>5. todo' = p \o Tail(todo)
    BY <1>1, <1>3 DEF DiagnoseFrame
  <1> HIDE DEF p
  <1>6. Ends(todo', "open", 6 - 1) /\ Len(todo') = Len(p) + (6 - 1)
        /\ \A i \in 1 .. Len(p) : todo'[i] = p[i]
    BY <1>4, <1>5, PutBack
  <1>7. Ends(todo', "open", 5) /\ Len(todo') = 7 /\ todo'[1] = SAMConfiguration
        /\ todo'[2] = DiagnoseFrame /\ Len(todo') - 5 = 2
    BY <1>4, <1>6
  <1>8. Inserted("open", 5, 2)'
    BY <1>7, Zenon DEF Inserted
  <1>9. Inserted("open", 5, Len(todo) - 5)' /\ 5 \in 0 .. Length("open")
        /\ call' = CallOf("open")
    BY <1>2, <1>7, <1>8, Lengths
  <1>10. QED BY <1>2, <1>7, <1>9 DEF Where

\* A cache that was never set writes parameters of its own.
LEMMA GarbageWhere ==
    ASSUME HostTypes, todo # <<>>, NEW m, NEW n, Where(m, n), Len(todo) = n, Garbled(m, n - 1),
           call' = call
    PROVE  todo' = <<Garbage>> \o Tail(todo) => Where(m, n - 1)' /\ Len(todo') = n
           /\ todo'[1] = Garbage
  <1>1. SUFFICES ASSUME todo' = <<Garbage>> \o Tail(todo)
                 PROVE  Where(m, n - 1)' /\ Len(todo') = n /\ todo'[1] = Garbage
    OBVIOUS
  <1>2. /\ Len(todo) \in Nat /\ n \in Nat /\ m \in Modes /\ n <= Length(m)
        /\ Length(m) \in Nat /\ call = CallOf(m) /\ todo \in Seq(StepType) /\ Ends(todo, m, n)
    BY WhereParts
  <1>3. n \in Nat \ {0} /\ n - 1 \in 0 .. Length(m)
    <2>1. Len(todo) \in Nat \ {0}
      BY <1>2, HeadTyped
    <2>2. QED BY <1>2, <2>1
  <1>4. <<Garbage>> \in Seq(StepType) /\ Len(<<Garbage>>) = 1 /\ <<Garbage>>[1] = Garbage
    BY NamedSteps DEF Garbage
  <1>5. /\ Ends(todo', m, n - 1) /\ Len(todo') = Len(<<Garbage>>) + (n - 1)
        /\ \A i \in 1 .. Len(<<Garbage>>) : todo'[i] = <<Garbage>>[i]
    BY <1>1, <1>4, PutBack
  <1>6. Len(todo') = n /\ todo'[1] = Garbage /\ Len(todo') - (n - 1) = 1
    BY <1>3, <1>4, <1>5
  <1>7. Inserted(m, n - 1, 1)'
    BY <1>6, Zenon DEF Inserted
  <1>8. Inserted(m, n - 1, Len(todo) - (n - 1))'
    BY <1>6, <1>7
  <1>9. QED BY <1>2, <1>3, <1>5, <1>6, <1>8 DEF Where

\* Where a call begins.
Begins(c, m, n) ==
    \/ c \in {"open", "initiator_init", "poll", "exchange", "deselect", "target_init",
       "receive", "send"}
         /\ m = c /\ n = Length(c)
    \/ c = "close" /\ pnd.oper = "INITIATOR" /\ m = "close" /\ n = 6
    \/ c = "close" /\ pnd.oper = "TARGET" /\ m = "close_target" /\ n = 5
    \/ c = "close" /\ pnd.oper = "IDLE" /\ m = "close" /\ n = 3

\* A call begins at the beginning of its script.
LEMMA BeginWhere ==
    ASSUME HostTypes, NEW c \in Calls \ {"none"}
    PROVE  Begin(c) => \E m, n : Begins(c, m, n) /\ Where(m, n)' /\ Len(todo') = n
  <1>1. SUFFICES ASSUME Begin(c) PROVE \E m, n : Begins(c, m, n) /\ Where(m, n)'
                        /\ Len(todo') = n
    OBVIOUS
  <1>2. todo' = Script(c) /\ call' = c
    BY <1>1 DEF Begin
  <1>3. ASSUME c # "close", Entire(Script(c), c), CallOf(c) = c, Length(c) \in Nat,
               Begins(c, c, Length(c)), c \in Modes
        PROVE  \E m, n : Begins(c, m, n) /\ Where(m, n)' /\ Len(todo') = n
    <2>1. Length(c) \in 0 .. Length(c) /\ Ends(Script(c), c, Length(c))
          /\ Len(Script(c)) = Length(c)
      BY <1>3 DEF Entire
    <2>2. Where(c, Length(c))' /\ Len(todo') = Length(c)
      BY <1>2, <1>3, <2>1, WhereBegins
    <2>3. QED BY <1>3, <2>2
  <1>4. ASSUME NEW m \in Modes, NEW n \in 0 .. Length(m), Ends(close, m, n), Len(close) = n,
               c = "close",
               CallOf(m) = c, Begins(c, m, n)
        PROVE  \E m2, n2 : Begins(c, m2, n2) /\ Where(m2, n2)' /\ Len(todo') = n2
    <2>1. todo' = close
      BY <1>2, <1>4 DEF Script
    <2>2. Where(m, n)' /\ Len(todo') = n
      BY <1>2, <1>4, <2>1, WhereBegins
    <2>3. QED BY <1>4, <2>2
  <1>5. CASE c # "close"
    <2>1. c \in {"open", "initiator_init", "poll", "exchange", "deselect", "target_init",
          "receive", "send"}
      BY <1>5 DEF Calls
    <2>2. Entire(Script(c), c)
      BY <2>1, OpenWhole, InitiatorInitWhole, TargetInitWhole, ShortWhole, PollWhole DEF Script
    <2>3. c \in Modes /\ CallOf(c) = c /\ Begins(c, c, Length(c))
      BY <2>1 DEF Modes, CallOf, Begins
    <2>4. QED BY <1>3, <1>5, <2>2, <2>3, LengthNat
  <1>6. CASE c = "close" /\ pnd.oper = "INITIATOR"
    <2>1. Entire(close, "close") /\ Length("close") = 6
      BY <1>6, CloseWhole, Lengths
    <2>2. "close" \in Modes /\ CallOf("close") = c /\ Begins(c, "close", 6)
      BY <1>6 DEF Modes, CallOf, Begins
    <2>3. 6 \in 0 .. Length("close") /\ Ends(close, "close", 6) /\ Len(close) = 6
      BY <2>1 DEF Entire
    <2>4. QED BY <1>4, <1>6, <2>2, <2>3
  <1>7. CASE c = "close" /\ pnd.oper = "TARGET"
    <2>1. Entire(close, "close_target") /\ Length("close_target") = 5
      BY <1>7, CloseTargetWhole, Lengths
    <2>2. "close_target" \in Modes /\ CallOf("close_target") = c /\ Begins(c, "close_target", 5)
      BY <1>7 DEF Modes, CallOf, Begins
    <2>3. 5 \in 0 .. Length("close_target") /\ Ends(close, "close_target", 5) /\ Len(close) = 5
      BY <2>1 DEF Entire
    <2>4. QED BY <1>4, <1>7, <2>2, <2>3
  <1>8. CASE c = "close" /\ pnd.oper = "IDLE"
    <2>1. Ends(close, "close", 3) /\ Len(close) = 3 /\ 3 \in 0 .. Length("close")
      BY <1>8, CloseIdle, Lengths
    <2>2. "close" \in Modes /\ CallOf("close") = c /\ Begins(c, "close", 3)
      BY <1>8 DEF Modes, CallOf, Begins
    <2>3. QED BY <1>4, <1>8, <2>2, <2>1
  <1>9. pnd.oper \in {"INITIATOR", "TARGET", "IDLE"}
    BY DEF HostTypes, DeviceType
  <1>10. QED BY <1>5, <1>6, <1>7, <1>8, <1>9

-----------------------------------------------------------------------------
\* What the host knows at its place, and the steps that move it.

\* What the host knows at (m, n): of its errors, its cache, the power mode and the mode of
\* the device.
Control(m, n) ==
  /\ at # "step" => Head(todo).op \in {"cmd", "frame"} /\ ~pnd.trigged
  /\ result # "ok" => todo = <<>> /\ m # "none"
  /\ draining => m \in {"receive", "send", "close", "close_target"}
  /\ m = "none" \/ (m = "open" /\ n = 7) => pnd = NewDevice
  /\ m = "open" /\ n >= 2 => pnd.pending = {} /\ ~pnd.trigged /\ ~pnd.crc /\ ~pnd.par
  /\ m = "open" /\ n >= 6 => pnd.power = "LOWVBAT" /\ at = "step"
  /\ pnd.trigged =>
       /\ result = "ok" /\ (Len(todo) = n \/ todo[1] = Garbage)
       /\ \/ m = "open" /\ n <= 1
          \/ m = "initiator_init"
          \/ m = "poll" /\ n = LastPoll
          \/ m = "target_init" /\ n >= 2
  /\ call \in {"none", "open", "close"} => abort = "none"
  /\ m \in {"failed_open", "timed_out"} /\ n = 0 => result # "ok"
  /\ m = "open" => result = "ok"

\* Where each power mode can be.
PowerMode(m, n) ==
  /\ pnd.power = "LOWVBAT" =>
       \/ m = "none"
       \/ (m = "open" /\ n >= 6)
       \/ (m = "failed_open" /\ n <= 4)
       \/ (m \in {"close", "close_target"} /\ n <= 3)
       \/ (m = "timed_out" /\ (n = 3 \/ (n < 3 /\ pnd.oper = "IDLE")))
  /\ pnd.power = "POWERDOWN" => pnd.oper = "TARGET"
  /\ pnd.power = "POWERDOWN" =>
       \/ m = "target_init" /\ n = 2 /\ at = "reply" /\ Head(todo).name = "TgInitAsTarget"
       \/ m = "target_init" /\ n = 0 /\ result # "ok"
       \/ m \in {"timed_out", "close_target"} /\ n = 5 /\ at = "step"

\* Where each mode of the device can be.
OperMode(m, n) ==
  /\ pnd.oper = "INITIATOR" => m \notin {"receive", "send"}
     /\ ~(m = "target_init" /\ n \in 1 .. 7) /\ ~(m = "target_init" /\ n = 0 /\ result = "ok")
        /\ m # "timed_out" /\ ~(m = "close_target" /\ n >= 4)
  /\ pnd.oper = "TARGET" => (m = "target_init" /\ n <= 7)
     \/ m \in {"timed_out", "receive", "send", "close_target"} \/ (m = "close" /\ n <= 3)
  /\ pnd.oper = "IDLE" => (m = "failed_open" /\ n <= 3) \/ (m = "timed_out" /\ n <= 2)
     \/ (m \in {"close", "close_target"} /\ n <= 3)
  /\ role = "initiator"
     => pnd.oper # "TARGET"
     /\ m \notin {"target_init", "timed_out", "receive", "send", "close_target"}
  /\ role = "target" => m \notin {"initiator_init", "poll", "exchange", "deselect"}

\* The place of the host in its script, and what it knows there.
Placed(m, n) == Where(m, n) /\ Control(m, n) /\ PowerMode(m, n) /\ OperMode(m, n)

\* One step of the script is done.
LEMMA Done ==
    ASSUME HostTypes, NEW m, NEW n, Where(m, n), call' = call
    PROVE  todo # <<>> /\ todo' = Tail(todo) /\ Len(todo) = n
           => Where(m, n - 1)' /\ Len(todo') = n - 1 /\ n >= 1
  <1>1. SUFFICES ASSUME todo # <<>>, todo' = Tail(todo), Len(todo) = n
                 PROVE  Where(m, n - 1)' /\ Len(todo') = n - 1 /\ n >= 1
    OBVIOUS
  <1>2. After(m, n, n - 1)
    BY <1>1 DEF After
  <1>3. Where(m, n - 1)'
    BY <1>1, <1>2, Advance
  <1>4. Len(todo) \in Nat \ {0} /\ Len(todo') = Len(todo) - 1
    BY <1>1, HeadTyped DEF HostTypes
  <1>5. QED BY <1>1, <1>3, <1>4

\* A step that is no command, nor of the cache, is one of the script.
LEMMA OwnStep ==
    ASSUME HostTypes, todo # <<>>, NEW m, NEW n, Where(m, n),
           Head(todo).op \in {"try", "catch", "set", "do", "raise"}
    PROVE  Len(todo) = n /\ n \in 1 .. Length(m) /\ Head(todo) = StepAt(m, n)
  BY Heads DEF Is

\* How marks move the script.
Passed(m, n, m2, n2) ==
    /\ m2 = m /\ n2 = n - 1
    /\ \/ m = "open" /\ n \in {1, 5}
       \/ m = "failed_open" /\ n = 3
       \/ m = "poll" /\ n \in 2 .. LastPoll - 1
       \/ m = "target_init" /\ n \in {1, 3, 5, 7}
       \/ m \in {"timed_out", "close", "close_target"} /\ n = 2

\* A mark that is passed.
LEMMA PlacedPassMark ==
    ASSUME Types, NEW m, NEW n, Placed(m, n), PassMark
    PROVE  \E m2, n2 : Placed(m2, n2)' /\ Passed(m, n, m2, n2) /\ Len(todo) = n
           /\ Len(todo') = n2
  <1>1. /\ HostTypes /\ todo # <<>> /\ Head(todo).op \in {"try", "catch"} /\ todo' = Tail(todo)
           /\ at = "step"
        /\ UNCHANGED <<call, result, at, draining, abort, pnd, role>>
    BY DEF Types, PassMark, Ready, Keep
  <1>2. Where(m, n)
    BY DEF Placed
  <1>3. Len(todo) = n /\ n \in 1 .. Length(m) /\ Head(todo) = StepAt(m, n) /\ m \in Modes
    BY <1>1, <1>2, OwnStep, WhereParts
  <1>4. Where(m, n - 1)' /\ Len(todo') = n - 1 /\ n >= 1
    BY <1>1, <1>2, <1>3, Done
  <1>5. Passed(m, n, m, n - 1)
    <2>1. StepAt(m, n).op \in Marks
      BY <1>1, <1>3 DEF Marks
    <2>2. QED BY <1>3, <2>1, MarksAt DEF Passed
  <1>6. Control(m, n - 1)'
    <2>1. result = "ok"
      BY <1>1 DEF Placed, Control
    <2>2. QED BY <1>1, <1>3, <1>4, <1>5, <2>1 DEF Placed, Control, Passed
  <1>7. PowerMode(m, n - 1)'
    BY <1>1, <1>3, <1>5 DEF Placed, PowerMode, Passed
  <1>8. OperMode(m, n - 1)'
    BY <1>1, <1>3, <1>5 DEF Placed, OperMode, Passed
  <1>9. Placed(m, n - 1)'
    BY <1>4, <1>6, <1>7, <1>8 DEF Placed
  <1>10. QED BY <1>3, <1>4, <1>5, <1>9

\* Where an error is raised.
LEMMA FailsAtRaise ==
    ASSUME HostTypes, todo # <<>>, NEW m, NEW n, Where(m, n), Head(todo).op = "raise"
    PROVE  m \in {"failed_open", "poll", "timed_out"} /\ n = 1
           /\ Head(todo).name \in {"io", "absent", "timeout"}
  BY OwnStep, WhereParts, Table

Raised(m, n, m2, n2) == m2 = m /\ n2 = 0 /\ m \in {"failed_open", "poll", "timed_out"} /\ n = 1

\* The error ends the call.
LEMMA PlacedRaiseError ==
    ASSUME Types, NEW m, NEW n, Placed(m, n), RaiseError
    PROVE  \E m2, n2 : Placed(m2, n2)' /\ Raised(m, n, m2, n2) /\ Len(todo) = n
           /\ Len(todo') = n2 /\ result' # "ok"
  <1>1. /\ HostTypes /\ todo # <<>> /\ Head(todo).op = "raise" /\ Fail(Head(todo).name)
           /\ at = "step" /\ at' = "step"
        /\ UNCHANGED <<call, draining, abort, pnd, role>>
    BY DEF Types, RaiseError, Ready, Keep, Fail
  <1>2. Where(m, n)
    BY DEF Placed
  <1>3. Len(todo) = n /\ m \in {"failed_open", "poll", "timed_out"} /\ n = 1
        /\ Head(todo).name \in {"io", "absent", "timeout"}
    BY <1>1, <1>2, FailsAtRaise, OwnStep
  <1>4. Fails(m, n)
    BY <1>1, <1>2, WhereFails
  <1>5. \/ Handler(Head(todo).name).caught /\ \E m2, n2 : Lands(m, n, Head(todo).name, m2, n2)
           /\ Where(m2, n2)' /\ Len(todo') = n2
        \/ ~Handler(Head(todo).name).caught /\ Fatal(m, n, Head(todo).name) /\ todo' = <<>>
           /\ Where(m, 0)'
    BY <1>1, <1>2, <1>3, <1>4, Landing DEF Fail
  <1>6. ~Handler(Head(todo).name).caught /\ todo' = <<>> /\ Where(m, 0)'
    BY <1>3, <1>5 DEF Lands
  <1>7. result' = Head(todo).name /\ result' # "ok" /\ Len(todo') = 0
    BY <1>1, <1>3, <1>6 DEF Fail
  <1>8. Control(m, 0)'
    <2>1. LastPoll > 1
      BY BoundAssumption DEF LastPoll
    <2>2. ~pnd.trigged
      BY <1>3, <2>1 DEF Placed, Control
    <2>3. QED BY <1>1, <1>3, <1>6, <1>7, <2>2 DEF Placed, Control
  <1>9. PowerMode(m, 0)'
    BY <1>1, <1>3 DEF Placed, PowerMode
  <1>10. OperMode(m, 0)'
    BY <1>1, <1>3 DEF Placed, OperMode
  <1>11. Placed(m, 0)' /\ Raised(m, n, m, 0)
    BY <1>3, <1>6, <1>8, <1>9, <1>10 DEF Placed, Raised
  <1>12. QED BY <1>3, <1>7, <1>11

\* How register fields that are set move the script.
SetAt(m, n, m2, n2) ==
    /\ m2 = m /\ n2 = n - 1
    /\ \/ m = "open" /\ n = 2 /\ Head(todo).arg = {"txbits", "crypto", "parity"} \cup Crc
       \/ m = "initiator_init" /\ n = 2 /\ Head(todo).arg = {"initiator"}
       \/ m = "initiator_init" /\ n = 3
          /\ Head(todo).arg = {"txbits", "crypto", "parity"} \cup Crc
       \/ m = "initiator_init" /\ n = 4
          /\ Head(todo).arg = Iso14443a \cup {"noerror", "multiple"}
       \/ m = "target_init" /\ n = 4 /\ Head(todo).arg = {"rfon"}
       \/ m = "target_init" /\ n = 9 /\ Head(todo).arg = {"txbits", "crypto", "parity"} \cup Crc
       \/ m = "target_init" /\ n = 12
          /\ Head(todo).arg = {"txbits", "crypto", "parity"} \cup Crc
       \/ m = "target_init" /\ n = 13 /\ Head(todo).arg = {"noerror", "multiple"}

LEMMA SetArgs ==
    /\ StepAt("open", 2).arg = {"txbits", "crypto", "parity"} \cup Crc
    /\ StepAt("initiator_init", 2).arg = {"initiator"}
    /\ StepAt("initiator_init", 3).arg = {"txbits", "crypto", "parity"} \cup Crc
    /\ StepAt("initiator_init", 4).arg = Iso14443a \cup {"noerror", "multiple"}
    /\ StepAt("target_init", 4).arg = {"rfon"}
    /\ StepAt("target_init", 9).arg = {"txbits", "crypto", "parity"} \cup Crc
    /\ StepAt("target_init", 12).arg = {"txbits", "crypto", "parity"} \cup Crc
    /\ StepAt("target_init", 13).arg = {"noerror", "multiple"}
  BY Scripts, SetParts, Zenon DEF reset_settings

\* Fields are set where SetAt says.
LEMMA SetSteps ==
    ASSUME HostTypes, todo # <<>>, NEW m, NEW n, Where(m, n), Head(todo).op = "set"
    PROVE  SetAt(m, n, m, n - 1)
  <1>1. n \in 1 .. Length(m) /\ Head(todo) = StepAt(m, n) /\ m \in Modes
    BY OwnStep, WhereParts
  <1>2. \/ m = "open" /\ n = 2
        \/ m = "initiator_init" /\ (n = 2 \/ n = 3 \/ n = 4)
        \/ m = "target_init" /\ (n = 4 \/ n = 9 \/ n = 12 \/ n = 13)
    BY <1>1, Table
  <1>3. QED BY <1>1, <1>2, SetArgs, Zenon DEF SetAt

\* Fields go into the cache.
LEMMA PlacedSetFields ==
    ASSUME Types, NEW m, NEW n, Placed(m, n), SetFields
    PROVE  \E m2, n2 : Placed(m2, n2)' /\ SetAt(m, n, m2, n2) /\ Len(todo) = n
           /\ Len(todo') = n2
  <1>1. /\ HostTypes /\ todo # <<>> /\ Head(todo).op = "set" /\ todo' = Tail(todo)
           /\ at = "step"
        /\ UNCHANGED <<call, result, at, draining, abort, role>>
    BY DEF Types, SetFields, Ready, Keep
  <1>2. Where(m, n)
    BY DEF Placed
  <1>3. Len(todo) = n
    BY <1>1, <1>2, OwnStep
  <1>4. Where(m, n - 1)' /\ Len(todo') = n - 1 /\ n >= 1
    BY <1>1, <1>2, <1>3, Done
  <1>5. SetAt(m, n, m, n - 1)
    BY <1>1, <1>2, SetSteps
  <1>6. \/ m = "open" /\ n = 2
        \/ m = "initiator_init" /\ (n = 2 \/ n = 3 \/ n = 4)
        \/ m = "target_init" /\ (n = 4 \/ n = 9 \/ n = 12 \/ n = 13)
    BY <1>5, Zenon DEF SetAt
  <1>7. result = "ok" /\ UNCHANGED <<pnd.power, pnd.oper>>
    BY <1>1 DEF Placed, Control, Types, HostTypes, DeviceType, SetFields
  <1>8. Control(m, n - 1)'
    BY <1>1, <1>4, <1>6, <1>7 DEF Placed, Control
  <1>9. PowerMode(m, n - 1)'
    BY <1>1, <1>6, <1>7 DEF Placed, PowerMode
  <1>10. OperMode(m, n - 1)'
    BY <1>1, <1>6, <1>7 DEF Placed, OperMode
  <1>11. Placed(m, n - 1)'
    BY <1>4, <1>8, <1>9, <1>10 DEF Placed
  <1>12. QED BY <1>3, <1>4, <1>5, <1>11

\* The flush that begins open.
LEMMA PlacedFlushInput ==
    ASSUME Types, NEW m, NEW n, Placed(m, n), FlushInput
    PROVE  m = "open" /\ n = 7 /\ Len(todo) = n /\ Placed("open", 6)' /\ Len(todo') = 6
  <1>1. /\ HostTypes /\ todo # <<>> /\ Head(todo).op = "do" /\ Head(todo).name = "flush"
           /\ todo' = Tail(todo)
        /\ at = "step" /\ UNCHANGED <<call, result, at, draining, abort, pnd, role>>
    BY DEF Types, FlushInput, Ready, Keep
  <1>2. Where(m, n)
    BY DEF Placed
  <1>3. Len(todo) = n /\ m = "open" /\ n = 7
    BY <1>1, <1>2, OwnStep, WhereParts, Table
  <1>4. Where(m, n - 1)' /\ Len(todo') = n - 1 /\ n - 1 = 6
    BY <1>1, <1>2, <1>3, Done
  <1>5. result = "ok"
    BY <1>1 DEF Placed, Control
  <1>6. pnd = NewDevice
    BY <1>3 DEF Placed, Control
  <1>7. pnd.power = "LOWVBAT" /\ pnd.oper = "INITIATOR" /\ pnd.pending = {} /\ ~pnd.trigged
        /\ ~pnd.crc /\ ~pnd.par
    BY <1>6, Zenon DEF NewDevice
  <1>8. Control("open", 6)'
    BY <1>1, <1>3, <1>5, <1>7 DEF Placed, Control
  <1>9. PowerMode("open", 6)' /\ OperMode("open", 6)'
    BY <1>1, <1>3, <1>7 DEF Placed, PowerMode, OperMode
  <1>10. QED BY <1>3, <1>4, <1>8, <1>9 DEF Placed

\* Where parameters are set that may have been set before.
ParametersAt(m, n) == (m = "initiator_init" /\ n = 5)
    \/ (m = "target_init" /\ (n = 6 \/ n = 11))

\* The parameters are sent, or not.
LEMMA PlacedSetParameters ==
    ASSUME Types, NEW m, NEW n, Placed(m, n), set_parameters
    PROVE  ParametersAt(m, n) /\ Len(todo) = n /\ Placed(m, n - 1)'
  <1>1. /\ HostTypes /\ todo # <<>> /\ Head(todo).op = "do" /\ Head(todo).name = "parameters"
           /\ at = "step"
        /\ UNCHANGED <<call, result, at, draining, abort, pnd, role>>
        /\ todo' = Tail(todo) \/ todo' = <<Garbage>> \o Tail(todo)
    BY DEF Types, set_parameters, Ready, Keep, Garbage
  <1>2. Where(m, n)
    BY DEF Placed
  <1>3. Len(todo) = n /\ ParametersAt(m, n)
    <2>1. (m = "initiator_init" /\ n = 5) \/ (m = "target_init" /\ n \in {6, 11})
      <3>1. n \in 1 .. Length(m) /\ Head(todo) = StepAt(m, n) /\ m \in Modes
        BY <1>1, <1>2, OwnStep, WhereParts
      <3>2. QED BY <1>1, <3>1, Table
    <2>2. QED BY <2>1, <1>1, <1>2, OwnStep DEF ParametersAt
  <1>4. Where(m, n - 1)' /\ (Len(todo') = n - 1 \/ todo'[1] = Garbage)
    <2>1. CASE todo' = Tail(todo)
      BY <1>1, <1>2, <1>3, <2>1, Done
    <2>2. CASE todo' = <<Garbage>> \o Tail(todo)
      <3>1. Garbled(m, n - 1)
        BY <1>3 DEF ParametersAt, Garbled
      <3>2. QED BY <1>1, <1>2, <1>3, <2>2, <3>1, GarbageWhere
    <2>3. QED BY <1>1, <2>1, <2>2
  <1>5. result = "ok"
    BY <1>1 DEF Placed, Control
  <1>6. Control(m, n - 1)'
    BY <1>1, <1>3, <1>4, <1>5 DEF Placed, Control, ParametersAt
  <1>7. PowerMode(m, n - 1)' /\ OperMode(m, n - 1)'
    BY <1>1, <1>3 DEF Placed, PowerMode, OperMode, ParametersAt
  <1>8. QED BY <1>3, <1>4, <1>6, <1>7 DEF Placed

\* What the driver remembers, and where.
Did(m, n, what) ==
    \/ m = "failed_open" /\ n = 2 /\ what = "closed"
    \/ m = "failed_open" /\ n = 4 /\ what = "idle"
    \/ m = "initiator_init" /\ n = 1 /\ what = "INITIATOR"
    \/ m = "poll" /\ n \in 2 .. LastPoll - 1 /\ what = "free"
    \/ m = "deselect" /\ n = 2 /\ what = "free"
    \/ m = "target_init" /\ n = 8 /\ what = "TARGET"
    \/ m \in {"close", "close_target"} /\ n = 1 /\ what = "closed"
    \/ m \in {"timed_out", "close", "close_target"} /\ n = 3 /\ what = "idle"
Remembered(what) ==
    /\ what \in {"free", "INITIATOR", "TARGET"} => UNCHANGED <<pnd.power>>
    /\ what \in {"free", "idle", "INITIATOR", "TARGET"} =>
            UNCHANGED <<pnd.power, pnd.pending, pnd.trigged, pnd.crc, pnd.par>>
    /\ what = "free" => UNCHANGED <<pnd.oper>>
    /\ what = "idle" => pnd'.oper = "IDLE"
    /\ what = "closed" => /\ pnd'.oper = "INITIATOR" /\ pnd'.power = "LOWVBAT"
                             /\ pnd'.pending = {}
                          /\ ~pnd'.trigged /\ ~pnd'.crc /\ ~pnd'.par
    /\ what \in {"INITIATOR", "TARGET"} => pnd'.oper = what

\* Remember remembers that.
LEMMA RememberedBy ==
    ASSUME HostTypes, Remember
    PROVE  Remembered(Head(todo).name)
  <1>1. pnd \in DeviceType
    BY DEF HostTypes
  <1>2. PICK what : what = Head(todo).name
    OBVIOUS
  <1>3. CASE what = "free"
    BY <1>1, <1>2, <1>3 DEF DeviceType, Remember, Remembered
  <1>4. CASE what = "idle"
    BY <1>1, <1>2, <1>4 DEF DeviceType, Remember, Remembered
  <1>5. CASE what = "closed"
    <2>1. pnd' = NewDevice
      BY <1>2, <1>5 DEF Remember
    <2>2. /\ pnd'.power = "LOWVBAT" /\ pnd'.oper = "INITIATOR" /\ pnd'.pending = {}
             /\ ~pnd'.trigged
          /\ ~pnd'.crc /\ ~pnd'.par
      BY <2>1, Zenon DEF NewDevice
    <2>3. QED BY <1>2, <1>5, <2>2 DEF Remembered
  <1>6. CASE what \in {"INITIATOR", "TARGET"}
    BY <1>1, <1>2, <1>6 DEF DeviceType, Remember, Remembered
  <1>7. QED BY <1>2, <1>3, <1>4, <1>5, <1>6 DEF Remembered

\* The driver remembers, and the script goes on.
LEMMA PlacedRemember ==
    ASSUME Types, NEW m, NEW n, Placed(m, n), Remember
    PROVE  Did(m, n, Head(todo).name) /\ Remembered(Head(todo).name) /\ Len(todo) = n
           /\ Placed(m, n - 1)' /\ Len(todo') = n - 1
  <1>1. /\ HostTypes /\ todo # <<>> /\ Head(todo).op = "do"
           /\ Head(todo).name \notin {"flush", "parameters"} /\ at = "step"
        /\ UNCHANGED <<call, result, at, draining, abort, role>> /\ todo' = Tail(todo)
    BY DEF Types, Remember, Ready, Keep
  <1>2. Where(m, n)
    BY DEF Placed
  <1>3. Len(todo) = n /\ Did(m, n, Head(todo).name) /\ Remembered(Head(todo).name)
    <2>1. Len(todo) = n /\ n \in 1 .. Length(m) /\ Head(todo) = StepAt(m, n) /\ m \in Modes
      BY <1>1, <1>2, OwnStep, WhereParts
    <2>2. Did(m, n, Head(todo).name)
      BY <1>1, <2>1, Table DEF Did
    <2>3. QED BY <1>1, <2>1, <2>2, RememberedBy
  <1>4. Where(m, n - 1)' /\ Len(todo') = n - 1
    BY <1>1, <1>2, <1>3, Done
  <1>5. result = "ok"
    BY <1>1 DEF Placed, Control
  <1>6. PICK what : what = Head(todo).name /\ Did(m, n, what) /\ Remembered(what)
    BY <1>3
  <1>7. Control(m, n - 1)'
    <2>1. LastPoll > 1
      BY BoundAssumption DEF LastPoll
    <2>2. QED BY <1>1, <1>4, <1>5, <1>6, <2>1 DEF Placed, Control, Did, Remembered
  <1>8. PowerMode(m, n - 1)'
    BY <1>1, <1>6 DEF Placed, PowerMode, Did, Remembered
  <1>9. OperMode(m, n - 1)'
    BY <1>1, <1>6 DEF Placed, OperMode, Did, Remembered
  <1>10. QED BY <1>3, <1>4, <1>7, <1>8, <1>9 DEF Placed

\* What is pending is written.
LEMMA PlacedWriteRegisters ==
    ASSUME Types, NEW m, NEW n, Placed(m, n), WriteRegisters
    PROVE  /\ Placed(m, n)' /\ m \in Caching /\ Len(todo) > n /\ n >= 1 /\ ~pnd.trigged
           /\ pnd' = [pnd EXCEPT !.pending = {}]
           /\ pnd.pending = {} \/ todo'[1] = With("WriteRegister", pnd.pending)
  <1>1. /\ HostTypes /\ todo # <<>> /\ Head(todo).op = "write" /\ at = "step"
        /\ UNCHANGED <<call, result, at, draining, abort, role>>
        /\ pnd' = [pnd EXCEPT !.pending = {}]
        /\ todo' = (IF pnd.pending = {} THEN <<>> ELSE <<With("WriteRegister", pnd.pending)>>)
           \o Tail(todo)
    BY DEF Types, WriteRegisters, Ready, Keep
  <1>2. Where(m, n)
    BY DEF Placed
  <1>3. m \in Caching /\ Len(todo) > n /\ n \in 1 .. Length(m)
    <2>1. CASE n \in 1 .. Length(m) /\ Head(todo) = StepAt(m, n)
      BY <1>1, <1>2, <2>1, WhereParts, Table
    <2>2. CASE Is(Head(todo), "frame", "Diagnose") \/ Is(Head(todo), "cmd", "SAMConfiguration")
                 \/ Is(Head(todo), "cmd", "SetParameters")
      BY <1>1, <2>2 DEF Is
    <2>3. QED BY <1>1, <1>2, <2>1, <2>2, Heads, Zenon
  <1>4. /\ Where(m, n)'
        /\ pnd.pending = {} \/ todo'[1] = With("WriteRegister", pnd.pending)
    <2>1. CASE pnd.pending = {}
      <3>1. todo' = Tail(todo)
        BY <1>1, <2>1, HeadTyped DEF HostTypes
      <3>2. After(m, n, n)
        <4>1. ~(Len(todo) = n)
          BY <1>2, <1>3, WhereParts, <1>1
        <4>2. QED BY <4>1, Zenon DEF After
      <3>3. QED BY <1>1, <1>2, <2>1, <3>1, <3>2, Advance
    <2>2. CASE pnd.pending # {}
      <3>1. todo' = <<With("WriteRegister", pnd.pending)>> \o Tail(todo)
        BY <1>1, <2>2
      <3>2. With("WriteRegister", pnd.pending) \in StepType
        BY <1>1, StepsTyped DEF HostTypes, DeviceType
      <3>3. With("WriteRegister", pnd.pending).op = "cmd"
            /\ With("WriteRegister", pnd.pending).name = "WriteRegister"
        BY DEF With, Step
      <3>4. QED BY <1>1, <1>2, <3>1, <3>2, <3>3, WriteNext
    <2>3. QED BY <2>1, <2>2
  <1>5. result = "ok" /\ ~pnd.trigged
    <2>1. result = "ok"
      BY <1>1 DEF Placed, Control
    <2>2. todo[1] # Garbage
      BY <1>1, HeadTyped, Parts DEF HostTypes, Is
    <2>3. ~(Len(todo) = n)
      BY <1>2, <1>3, WhereParts, <1>1
    <2>4. QED BY <2>1, <2>2, <2>3 DEF Placed, Control
  <1>6. /\ UNCHANGED <<pnd.power, pnd.oper, pnd.crc, pnd.par, pnd.trigged>> /\ pnd'.pending = {}
    BY <1>1 DEF HostTypes, DeviceType
  <1>7. m \in {"initiator_init", "poll", "target_init"}
    BY <1>3 DEF Caching
  <1>8. Control(m, n)'
    BY <1>1, <1>5, <1>6, <1>7 DEF Placed, Control
  <1>9. PowerMode(m, n)' /\ OperMode(m, n)'
    BY <1>1, <1>5, <1>6, <1>7 DEF Placed, PowerMode, OperMode
  <1>10. QED BY <1>1, <1>3, <1>4, <1>5, <1>8, <1>9 DEF Placed

\* The commands and where they are.
Issues(m, n, l, h) ==
    \/ m = "open" /\ n = 3 /\ l = 3 /\ h.name = "SetParameters"
    \/ m = "open" /\ n = 4 /\ l = 4 /\ h.name = "GetFirmwareVersion"
    \/ m = "open" /\ n = 6 /\ l = 6 /\ h.name = "Diagnose" /\ h.op = "cmd"
    \/ m = "open" /\ n = 5 /\ l = 6 /\ h.name = "Diagnose" /\ h.op = "frame"
    \/ m = "open" /\ n = 5 /\ l = 7 /\ h.name = "SAMConfiguration"
    \/ m = "failed_open" /\ n = 5 /\ l = 5 /\ h.name = "PowerDown"
    \/ m = "failed_open" /\ n = 6 /\ l = 6 /\ h.name = "RFConfiguration" /\ h.arg = {"off"}
    \/ m = "failed_open" /\ n = 7 /\ l = 7 /\ h.name = "InRelease"
    \/ m = "initiator_init" /\ n \in 6 .. 8 /\ l = n /\ h.name = "RFConfiguration"
    \/ m = "initiator_init" /\ n = 4 /\ l = 5 /\ h.name = "SetParameters"
    \/ m = "initiator_init" /\ n >= 1 /\ l > n /\ h.name \in {"ReadRegister", "WriteRegister"}
    \/ m = "poll" /\ n >= 1 /\ l > n /\ h.name \in {"ReadRegister", "WriteRegister"}
    \/ m = "poll" /\ n = LastPoll /\ l = n /\ h.name = "RFConfiguration" /\ h.arg = {}
    \/ m = "poll" /\ n \in 3 .. LastPoll - 1 /\ Phase(n) = 2 /\ l = n /\ h.name = "InJumpForDEP"
    \/ m = "deselect" /\ n = 1 /\ l = 1 /\ h.name = "InDeselect"
    \/ m = "exchange" /\ n = 1 /\ l = 1 /\ h.name = "InDataExchange"
    \/ m = "receive" /\ n = 1 /\ l = 1 /\ h.name = "TgGetData"
    \/ m = "send" /\ n = 1 /\ l = 1 /\ h.name = "TgSetData"
    \/ m = "target_init" /\ n >= 1 /\ l > n /\ h.name \in {"ReadRegister", "WriteRegister"}
    \/ m = "target_init" /\ n \in {5, 10} /\ l = n + 1 /\ h.name = "SetParameters"
    \/ m = "target_init" /\ n = 2 /\ l = 2 /\ h.name = "TgInitAsTarget"
    \/ m = "target_init" /\ n = 10 /\ l = 10 /\ h.name = "RFConfiguration" /\ h.arg = {"off"}
    \/ m = "close" /\ n = 6 /\ l = 6 /\ h.name = "InRelease"
    \/ m = "close" /\ n = 5 /\ l = 5 /\ h.name = "RFConfiguration" /\ h.arg = {"off"}
    \/ m = "close" /\ n = 4 /\ l = 4 /\ h.name = "PowerDown"
    \/ m \in {"timed_out", "close_target"} /\ n = 5 /\ l = 5 /\ h.name = "InRelease"
    \/ m \in {"timed_out", "close_target"} /\ n = 4 /\ l = 4 /\ h.name = "PowerDown"

\* A command is where Issues says.
LEMMA Commanding ==
    ASSUME HostTypes, todo # <<>>, NEW m, NEW n, Where(m, n), Head(todo).op \in {"cmd", "frame"}
    PROVE  Issues(m, n, Len(todo), Head(todo))
  <1>1. PICK h : h = Head(todo)
    OBVIOUS
  <1>2. PICK l \in Nat : l = Len(todo)
    BY WhereParts
  <1>3. n \in Nat /\ m \in Modes
    BY WhereParts
  <1>4. CASE l = n /\ n \in 1 .. Length(m) /\ h = StepAt(m, n)
    <2>1. h.op = "cmd"
      BY <1>1, <1>3, <1>4, Table
    <2>2. Issues(m, n, l, h)
      BY <1>3, <1>4, <2>1, Table DEF Issues
    <2>3. QED BY <1>1, <1>2, <2>2
  <1>5. CASE m = "open" /\ n = 5 /\ l = 6 /\ Is(h, "frame", "Diagnose")
    BY <1>1, <1>2, <1>5 DEF Issues, Is
  <1>6. CASE m = "open" /\ n = 5 /\ l = 7 /\ Is(h, "cmd", "SAMConfiguration")
    BY <1>1, <1>2, <1>6 DEF Issues, Is
  <1>7. CASE Garbled(m, n) /\ l = n + 1 /\ Is(h, "cmd", "SetParameters")
    BY <1>1, <1>2, <1>7 DEF Issues, Is, Garbled
  <1>8. CASE m \in Caching /\ n \in 1 .. Length(m) /\ l > n
             /\ (Is(h, "cmd", "ReadRegister") \/ Is(h, "cmd", "WriteRegister"))
    BY <1>1, <1>2, <1>3, <1>8 DEF Issues, Is, Caching
  <1>9. ~Is(h, "write", "")
    BY <1>1 DEF Is
  <1>10. \/ l = n /\ n \in 1 .. Length(m) /\ h = StepAt(m, n)
         \/ m = "open" /\ n = 5 /\ l = 6 /\ Is(h, "frame", "Diagnose")
         \/ m = "open" /\ n = 5 /\ l = 7 /\ Is(h, "cmd", "SAMConfiguration")
         \/ Garbled(m, n) /\ l = n + 1 /\ Is(h, "cmd", "SetParameters")
         \/ /\ m \in Caching /\ n \in 1 .. Length(m) /\ l > n
            /\ \/ Is(h, "write", "")
               \/ Is(h, "cmd", "ReadRegister") /\ Is(todo[2], "write", "")
               \/ Is(h, "cmd", "WriteRegister")
    BY <1>1, <1>2, Heads
  <1>11. QED BY <1>4, <1>5, <1>6, <1>7, <1>8, <1>9, <1>10, Zenon

\* What the cache holds goes before the command.
LEMMA PlacedWriteBack ==
    ASSUME Types, NEW m, NEW n, Placed(m, n), SendCommand
    PROVE  pnd.trigged =>
             /\ Placed(m, n)' /\ m \in Caching /\ (todo'[1] = Write \/ todo'[1] = ReadRegister)
             /\ pnd' = [pnd EXCEPT !.trigged = FALSE] /\ UNCHANGED <<at, result, chip, line>>
                /\ at = "step"
             /\ (m = "target_init" => n # 4)
  <1>1. SUFFICES ASSUME pnd.trigged
                 PROVE  /\ Placed(m, n)' /\ m \in Caching
                           /\ (todo'[1] = Write \/ todo'[1] = ReadRegister)
                        /\ pnd' = [pnd EXCEPT !.trigged = FALSE]
                           /\ UNCHANGED <<at, result, chip, line>> /\ at = "step"
                        /\ (m = "target_init" => n # 4)
    OBVIOUS
  <1>2. /\ HostTypes /\ todo # <<>> /\ Head(todo).op = "cmd" /\ at = "step"
        /\ UNCHANGED <<call, result, at, draining, abort, role, chip, line>>
        /\ pnd' = [pnd EXCEPT !.trigged = FALSE]
        /\ todo' = (IF Partial(pnd.pending) = {} THEN <<>> ELSE <<ReadRegister>>) \o <<Write>>
           \o todo
    BY <1>1 DEF Types, SendCommand, WriteBack, Ready, Keep, line
  <1>3. Where(m, n)
    BY DEF Placed
  <1>4. PICK l, h : l \in Nat /\ l = Len(todo) /\ h = Head(todo) /\ Issues(m, n, l, h)
    BY <1>2, <1>3, Commanding, WhereParts
  <1>5. /\ result = "ok" /\ (l = n \/ todo[1] = Garbage)
        /\ \/ m = "open" /\ n <= 1
           \/ m = "initiator_init"
           \/ m = "poll" /\ n = LastPoll
           \/ m = "target_init" /\ n >= 2
    BY <1>1, <1>4 DEF Placed, Control
  <1>6. ~(m = "open" /\ n <= 1)
    BY <1>4 DEF Issues
  <1>7. m \in Caching
    BY <1>5, <1>6 DEF Caching
  <1>8. /\ Where(m, n)' /\ (todo'[1] = Write \/ todo'[1] = ReadRegister)
    <2>1. todo' = (<<>> \o <<Write>>) \o todo \/ todo' = (<<ReadRegister>> \o <<Write>>) \o todo
      BY <1>2
    <2>2. (Len(todo) = n /\ m \in Caching) \/ todo[1] = Garbage
      BY <1>4, <1>5, <1>7
    <2>3. /\ Where(m, n)' /\ Len(todo') > n /\ m \in Caching
          /\ todo'[1] = Write \/ (todo'[1] = ReadRegister /\ todo'[2] = Write)
      BY <1>2, <1>3, <2>1, <2>2, CacheFirst
    <2>4. QED BY <2>3
  <1>9. /\ UNCHANGED <<pnd.power, pnd.oper, pnd.crc, pnd.par, pnd.pending>> /\ ~pnd'.trigged
    BY <1>2 DEF HostTypes, DeviceType
  <1>10. m \in {"initiator_init", "poll", "target_init"}
    BY <1>7 DEF Caching
  <1>11. Control(m, n)'
    BY <1>2, <1>5, <1>9, <1>10 DEF Placed, Control
  <1>12. PowerMode(m, n)'
    BY <1>2, <1>5, <1>9, <1>10 DEF Placed, PowerMode
  <1>13. OperMode(m, n)'
    BY <1>2, <1>5, <1>9, <1>10 DEF Placed, OperMode
  <1>14. m = "target_init" => n # 4
    <2>1. Len(todo) = n \/ Garbled(m, n) \/ m # "target_init"
      <3>1. SUFFICES ASSUME todo[1] = Garbage, m = "target_init" PROVE Len(todo) = n
                            \/ Garbled(m, n)
        BY <1>4, <1>5
      <3>2. h.name = "SetParameters"
        BY <1>2, <1>4, <3>1, HeadTyped, Parts DEF HostTypes, Is
      <3>3. QED BY <1>4, <3>1, <3>2 DEF Issues, Garbled
    <2>2. QED BY <1>4, <2>1 DEF Issues, Garbled
  <1>15. QED BY <1>2, <1>7, <1>8, <1>11, <1>12, <1>13, <1>14 DEF Placed

\* The chip is woken before the first command.
LEMMA PlacedWake ==
    ASSUME Types, NEW m, NEW n, Placed(m, n), SendCommand
    PROVE  ~pnd.trigged /\ pnd.power = "LOWVBAT" =>
             /\ m = "open" /\ n = 6 /\ Len(todo) = 6 /\ Placed("open", 5)' /\ Len(todo') = 7
             /\ tx' = tx \o Wake /\ rx' = <<>> /\ at = "step" /\ UNCHANGED <<at, chip, result>>
             /\ pnd' = [pnd EXCEPT !.power = "NORMAL"]
  <1>1. SUFFICES ASSUME ~pnd.trigged, pnd.power = "LOWVBAT"
                 PROVE  /\ m = "open" /\ n = 6 /\ Len(todo) = 6 /\ Placed("open", 5)'
                           /\ Len(todo') = 7
                        /\ tx' = tx \o Wake /\ rx' = <<>> /\ at = "step"
                           /\ UNCHANGED <<at, chip, result>>
                        /\ pnd' = [pnd EXCEPT !.power = "NORMAL"]
    OBVIOUS
  <1>2. /\ HostTypes /\ todo # <<>> /\ Head(todo).op = "cmd" /\ at = "step"
        /\ UNCHANGED <<call, result, at, draining, abort, role, chip>>
        /\ tx' = tx \o Wake /\ rx' = <<>>
        /\ pnd' = [pnd EXCEPT !.power = "NORMAL"]
        /\ todo' = <<SAMConfiguration, [Head(todo) EXCEPT !.op = "frame"]>> \o Tail(todo)
    BY <1>1 DEF Types, SendCommand, Ready, Keep
  <1>3. Where(m, n)
    BY DEF Placed
  <1>4. PICK l, h : l \in Nat /\ l = Len(todo) /\ h = Head(todo) /\ Issues(m, n, l, h)
    BY <1>2, <1>3, Commanding, WhereParts
  <1>5. m = "open" /\ n = 6 /\ Len(todo) = 6
    BY <1>1, <1>2, <1>4 DEF Issues, Placed, PowerMode
  <1>6. Where("open", 5)' /\ Len(todo') = 7
    BY <1>2, <1>3, <1>5, WakeWhere
  <1>7. /\ UNCHANGED <<pnd.oper, pnd.crc, pnd.par, pnd.pending, pnd.trigged>>
           /\ pnd'.power = "NORMAL"
        /\ result = "ok"
    BY <1>2 DEF HostTypes, DeviceType, Placed, Control
  <1>8. Control("open", 5)'
    BY <1>1, <1>2, <1>5, <1>7 DEF Placed, Control
  <1>9. PowerMode("open", 5)' /\ OperMode("open", 5)'
    BY <1>2, <1>5, <1>7 DEF Placed, PowerMode, OperMode
  <1>10. QED BY <1>2, <1>5, <1>6, <1>8, <1>9 DEF Placed

\* A command is put on the line.
LEMMA PlacedTransmit ==
    ASSUME Types, NEW m, NEW n, Placed(m, n), SendCommand \/ SendFrame
    PROVE  (SendFrame \/ (~pnd.trigged /\ pnd.power # "LOWVBAT")) =>
             /\ Placed(m, n)' /\ ~pnd.trigged /\ at = "step" /\ at' = "ack" /\ todo' = todo
                /\ todo # <<>>
             /\ Head(todo).op \in {"cmd", "frame"} /\ result = "ok" /\ result' = result
                /\ draining' = draining
             /\ pnd'.power = "NORMAL" /\ pnd.power \in {"NORMAL", "POWERDOWN"}
             /\ UNCHANGED <<pnd.oper, pnd.crc, pnd.par, pnd.pending, pnd.trigged, role, spent,
                abort, call>>
             /\ Issues(m, n, Len(todo), Head(todo))
             /\ ~(m = "open" /\ n >= 6)
             /\ \/ Head(todo).op = "cmd" /\ pnd.power = "NORMAL" /\ Transmit(<<>>, <<>>)
                \/ Head(todo).op = "cmd" /\ pnd.power = "POWERDOWN" /\ Transmit(Wake, <<>>)
                \/ Head(todo).op = "frame" /\ m = "open" /\ n = 5 /\ Len(todo) = 6
                   /\ Transmit(<<>>, rx)
  <1>1. SUFFICES ASSUME SendFrame \/ (~pnd.trigged /\ pnd.power # "LOWVBAT")
        PROVE  /\ Placed(m, n)' /\ ~pnd.trigged /\ at = "step" /\ at' = "ack" /\ todo' = todo
                  /\ todo # <<>>
               /\ Head(todo).op \in {"cmd", "frame"} /\ result = "ok" /\ result' = result
                  /\ draining' = draining
               /\ pnd'.power = "NORMAL" /\ pnd.power \in {"NORMAL", "POWERDOWN"}
               /\ UNCHANGED <<pnd.oper, pnd.crc, pnd.par, pnd.pending, pnd.trigged, role, spent,
                  abort, call>>
               /\ Issues(m, n, Len(todo), Head(todo))
               /\ ~(m = "open" /\ n >= 6)
               /\ \/ Head(todo).op = "cmd" /\ pnd.power = "NORMAL" /\ Transmit(<<>>, <<>>)
                  \/ Head(todo).op = "cmd" /\ pnd.power = "POWERDOWN" /\ Transmit(Wake, <<>>)
                  \/ Head(todo).op = "frame" /\ m = "open" /\ n = 5 /\ Len(todo) = 6
                     /\ Transmit(<<>>, rx)
    OBVIOUS
  <1>2. /\ HostTypes /\ todo # <<>> /\ Head(todo).op \in {"cmd", "frame"} /\ at = "step"
           /\ at' = "ack"
        /\ UNCHANGED <<call, result, todo, draining, abort, role, spent>>
        /\ pnd.power \in {"NORMAL", "POWERDOWN", "LOWVBAT"} /\ pnd \in DeviceType
    BY <1>1 DEF Types, HostTypes, DeviceType, SendCommand, SendFrame, Ready, Keep, Transmit
  <1>3. Where(m, n)
    BY DEF Placed
  <1>4. PICK l, h : l \in Nat /\ l = Len(todo) /\ h = Head(todo) /\ Issues(m, n, l, h)
    BY <1>2, <1>3, Commanding, WhereParts
  <1>5. result = "ok"
    BY <1>2 DEF Placed, Control
  <1>6. CASE SendFrame
    <2>1. m = "open" /\ n = 5 /\ l = 6
      <3>1. h.op = "frame"
        BY <1>4, <1>6 DEF SendFrame, Ready
      <3>2. ~(n \in 1 .. Length(m) /\ h = StepAt(m, n))
        BY <1>3, <3>1, Table, WhereParts, <1>2
      <3>3. /\ ~Is(h, "cmd", "SAMConfiguration") /\ ~Is(h, "cmd", "SetParameters")
               /\ ~Is(h, "write", "")
            /\ ~Is(h, "cmd", "ReadRegister") /\ ~Is(h, "cmd", "WriteRegister")
        BY <3>1 DEF Is
      <3>4. m = "open" /\ n = 5 /\ Len(todo) = 6
        BY <1>2, <1>3, <1>4, <3>2, <3>3, Heads, Zenon
      <3>5. QED BY <1>4, <3>4
    <2>2. ~pnd.trigged /\ pnd.power = "NORMAL"
      BY <1>2, <2>1 DEF Placed, Control, PowerMode
    <2>3. pnd' = pnd /\ Transmit(<<>>, rx)
      BY <1>6 DEF SendFrame
    <2>4. Where(m, n)'
      BY <1>2, <1>3 DEF Where, Inserted, Cached
    <2>5. Control(m, n)' /\ PowerMode(m, n)' /\ OperMode(m, n)'
      BY <1>2, <1>5, <2>1, <2>2, <2>3 DEF Placed, Control, PowerMode, OperMode
    <2>6. Head(todo).op = "frame"
      BY <1>6 DEF SendFrame, Ready
    <2>7. QED BY <1>2, <1>4, <1>5, <2>1, <2>2, <2>3, <2>4, <2>5, <2>6 DEF Placed
  <1>7. CASE ~SendFrame
    <2>1. /\ ~pnd.trigged /\ pnd.power \in {"NORMAL", "POWERDOWN"} /\ Head(todo).op = "cmd"
          /\ \/ pnd.power = "NORMAL" /\ Transmit(<<>>, <<>>) /\ pnd' = pnd
             \/ pnd.power = "POWERDOWN" /\ Transmit(Wake, <<>>)
                /\ pnd' = [pnd EXCEPT !.power = "NORMAL"]
      BY <1>1, <1>2, <1>7 DEF SendCommand, Ready
    <2>2. UNCHANGED <<pnd.oper, pnd.crc, pnd.par, pnd.pending, pnd.trigged>>
          /\ pnd'.power = "NORMAL"
      BY <1>2, <2>1 DEF DeviceType
    <2>3. ~(m = "open" /\ n >= 6)
      BY <2>1 DEF Placed, Control
    <2>4. Where(m, n)'
      BY <1>2, <1>3 DEF Where, Inserted, Cached
    <2>5. Control(m, n)'
      <3>1. m # "none"
        BY <1>4 DEF Issues
      <3>2. QED BY <1>2, <1>5, <2>1, <2>2, <2>3, <3>1 DEF Placed, Control
    <2>6. PowerMode(m, n)' /\ OperMode(m, n)'
      BY <1>2, <1>5, <2>2 DEF Placed, PowerMode, OperMode
    <2>7. QED BY <1>2, <1>4, <1>5, <2>1, <2>2, <2>3, <2>4, <2>5, <2>6 DEF Placed
  <1>8. QED BY <1>6, <1>7

\* The place is a matter of the script and the call.
LEMMA WhereSame ==
    ASSUME NEW m, NEW n, Where(m, n)
    PROVE  todo' = todo /\ call' = call => Where(m, n)'
  BY DEF Where, Inserted, Cached

\* The ACK frame of a command.
Accepted == at = "ack" /\ rx # <<>> /\ Head(rx).t = "ack" /\ ReceiveAck

\* The place stays, and the power mode is that of a target that waits.
LEMMA PlacedAck ==
    ASSUME Types, NEW m, NEW n, Placed(m, n)
    PROVE  Accepted =>
             /\ Placed(m, n)' /\ at' = "reply" /\ rx' = Tail(rx) /\ result = "ok" /\ todo # <<>>
             /\ UNCHANGED <<todo, result, draining, call, abort, role, spent, chip, tx>>
             /\ UNCHANGED <<pnd.oper, pnd.crc, pnd.par, pnd.pending, pnd.trigged>>
             /\ pnd'.power = IF Head(todo).name = "TgInitAsTarget" THEN "POWERDOWN" ELSE pnd.power
             /\ Issues(m, n, Len(todo), Head(todo))
  <1>1. SUFFICES ASSUME Accepted
        PROVE  /\ Placed(m, n)' /\ at' = "reply" /\ rx' = Tail(rx) /\ result = "ok"
                  /\ todo # <<>>
               /\ UNCHANGED <<todo, result, draining, call, abort, role, spent, chip, tx>>
               /\ UNCHANGED <<pnd.oper, pnd.crc, pnd.par, pnd.pending, pnd.trigged>>
               /\ pnd'.power = IF Head(todo).name = "TgInitAsTarget" THEN "POWERDOWN" ELSE pnd.power
               /\ Issues(m, n, Len(todo), Head(todo))
    OBVIOUS
  <1>2. /\ HostTypes /\ todo # <<>> /\ at = "ack" /\ at' = "reply" /\ rx' = Tail(rx)
        /\ UNCHANGED <<call, result, todo, draining, abort, role, spent, chip, tx>>
        /\ pnd' = [pnd EXCEPT !.power = IF Head(todo).name = "TgInitAsTarget" THEN "POWERDOWN" ELSE @]
    BY <1>1 DEF Accepted, Types, HostTypes, ReceiveAck, Keep
  <1>3. /\ UNCHANGED <<pnd.oper, pnd.crc, pnd.par, pnd.pending, pnd.trigged>>
        /\ pnd'.power = IF Head(todo).name = "TgInitAsTarget" THEN "POWERDOWN" ELSE pnd.power
    BY <1>2 DEF HostTypes, DeviceType
  <1>4. Where(m, n) /\ Head(todo).op \in {"cmd", "frame"} /\ result = "ok"
    BY <1>2 DEF Placed, Control
  <1>5. PICK l, h : l \in Nat /\ l = Len(todo) /\ h = Head(todo) /\ Issues(m, n, l, h)
    BY <1>2, <1>4, Commanding, WhereParts
  <1>6. h.name = "TgInitAsTarget" => m = "target_init" /\ n = 2
    BY <1>5 DEF Issues
  <1>7. Where(m, n)'
    BY <1>2, <1>4, WhereSame
  <1>8. Control(m, n)'
    <2>1. m # "none" /\ ~(m = "open" /\ n = 7)
      BY <1>5 DEF Issues
    <2>2. QED BY <1>2, <1>3, <1>4, <2>1 DEF Placed, Control
  <1>9. PowerMode(m, n)'
    <2>1. m = "target_init" /\ n = 2 => pnd.oper = "TARGET"
      BY <1>2 DEF Placed, OperMode, Types, HostTypes, DeviceType
    <2>2. QED BY <1>2, <1>3, <1>5, <1>6, <2>1 DEF Placed, PowerMode
  <1>10. OperMode(m, n)'
    BY <1>2, <1>3 DEF Placed, OperMode
  <1>11. QED BY <1>2, <1>3, <1>4, <1>5, <1>7, <1>8, <1>9, <1>10 DEF Placed

\* A command that fails.
Failed(m, n, e, m2, n2) ==
    \/ Lands(m, n, e, m2, n2) /\ result' = "ok"
    \/ m2 = m /\ n2 = 0 /\ Fatal(m, n, e) /\ result' = e

\* A command that fails leaves the host at a place of its script.
LEMMA PlacedFail ==
    ASSUME Types, NEW m, NEW n, Placed(m, n), NEW e \in Errors
    PROVE  (/\ at # "step" /\ Fail(e)
               /\ UNCHANGED <<call, role, draining, pnd.oper, pnd.crc, pnd.par, pnd.trigged>>
            /\ UNCHANGED pnd.pending
            /\ (pnd'.power = pnd.power \/ pnd'.power = "NORMAL")
               /\ abort' \in {abort, "none"}) =>
             \E m2, n2 : Placed(m2, n2)' /\ Failed(m, n, e, m2, n2) /\ Len(todo') = n2
                 /\ Issues(m, n, Len(todo), Head(todo))
  <1>1. SUFFICES ASSUME at # "step", Fail(e),
                        UNCHANGED <<call, role, draining, pnd.oper, pnd.crc, pnd.par,
                        pnd.trigged>>,
                        UNCHANGED pnd.pending,
                        pnd'.power = pnd.power \/ pnd'.power = "NORMAL",
                            abort' \in {abort, "none"}
        PROVE  \E m2, n2 : Placed(m2, n2)' /\ Failed(m, n, e, m2, n2) /\ Len(todo') = n2
               /\ Issues(m, n, Len(todo), Head(todo))
    OBVIOUS
  <1>2. /\ HostTypes /\ todo # <<>> /\ at' = "step" /\ at \in {"ack", "reply"}
        /\ todo' = Handler(e).todo /\ result' = IF Handler(e).caught THEN result ELSE e
    BY <1>1 DEF Types, HostTypes, Fail
  <1>3. Where(m, n) /\ Head(todo).op \in {"cmd", "frame"} /\ result = "ok" /\ ~pnd.trigged
    BY <1>1, <1>2 DEF Placed, Control
  <1>4. PICK l, h : l \in Nat /\ l = Len(todo) /\ h = Head(todo) /\ Issues(m, n, l, h)
    BY <1>2, <1>3, Commanding, WhereParts
  <1>5. Fails(m, n)
    BY <1>2, <1>3, WhereFails
  <1>6. pnd.oper \in {"INITIATOR", "TARGET", "IDLE"} /\ n \in Nat /\ m \in Modes
        /\ LastPoll \in Nat /\ LastPoll > 1
    BY <1>2, <1>3, WhereParts, BoundAssumption DEF HostTypes, DeviceType, LastPoll
  <1>7. /\ m = "open" => pnd.oper = "INITIATOR"
        /\ m = "target_init" /\ n = 2 => pnd.oper = "TARGET"
    BY <1>6 DEF Placed, OperMode
  <1>8. \/ Handler(e).caught /\ \E m2, n2 : Lands(m, n, e, m2, n2) /\ Where(m2, n2)'
           /\ Len(todo') = n2
        \/ ~Handler(e).caught /\ Fatal(m, n, e) /\ todo' = <<>> /\ Where(m, 0)'
    BY <1>1, <1>2, <1>3, <1>5, <1>7, Landing
  <1>9. CASE Handler(e).caught /\ \E m2, n2 : Lands(m, n, e, m2, n2) /\ Where(m2, n2)'
             /\ Len(todo') = n2
    <2>1. PICK m2, n2 : Lands(m, n, e, m2, n2) /\ Where(m2, n2)' /\ Len(todo') = n2
      BY <1>9
    <2>2. result' = "ok"
      BY <1>2, <1>3, <1>9
    <2>3. Control(m2, n2)'
      BY <1>1, <1>2, <1>3, <1>6, <2>1, <2>2 DEF Placed, Control, Lands
    <2>4. PowerMode(m2, n2)'
      <3>1. pnd.power # "LOWVBAT"
        <4>1. l = l /\ at # "step"
          BY <1>1
        <4>2. QED BY <1>4, <1>6, <4>1 DEF Placed, PowerMode, Control, Issues
      <3>2. pnd.power = "POWERDOWN" => m = "target_init" /\ n = 2
        BY <1>1, <1>4, <1>6 DEF Placed, PowerMode, Issues
      <3>3. pnd'.power = "POWERDOWN" => m2 = "timed_out" /\ n2 = 5
        BY <1>1, <3>2, <2>1 DEF Lands
      <3>4. pnd'.power # "LOWVBAT"
        BY <1>1, <3>1
      <3>5. pnd'.power = "POWERDOWN" => pnd'.oper = "TARGET"
        BY <1>1, <1>7, <3>2
      <3>6. QED BY <1>2, <3>3, <3>4, <3>5 DEF PowerMode
    <2>5. OperMode(m2, n2)'
      BY <1>1, <1>6, <1>7, <2>1 DEF Placed, OperMode, Lands
    <2>6. Placed(m2, n2)' /\ Failed(m, n, e, m2, n2)
      BY <2>1, <2>2, <2>3, <2>4, <2>5 DEF Placed, Failed
    <2>7. QED BY <1>4, <2>1, <2>6
  <1>10. CASE ~Handler(e).caught /\ Fatal(m, n, e) /\ todo' = <<>> /\ Where(m, 0)'
    <2>1. result' = e /\ e # "ok" /\ Len(todo') = 0
      BY <1>2, <1>10 DEF Errors
    <2>2. m # "none" /\ m # "open"
      BY <1>10 DEF Fatal
    <2>3. Control(m, 0)'
      BY <1>1, <1>2, <1>3, <1>6, <1>10, <2>1, <2>2 DEF Placed, Control
    <2>4. PowerMode(m, 0)'
      BY <1>1, <1>2, <1>4, <1>6, <1>10, <2>1 DEF Placed, PowerMode, Fatal, Issues
    <2>5. OperMode(m, 0)'
      BY <1>1, <1>6, <1>7, <1>10, <2>1 DEF Placed, OperMode, Fatal
    <2>6. Placed(m, 0)' /\ Failed(m, n, e, m, 0)
      BY <1>10, <2>1, <2>3, <2>4, <2>5 DEF Placed, Failed
    <2>7. QED BY <1>4, <2>1, <2>6
  <1>11. QED BY <1>8, <1>9, <1>10, Zenon

\* What the host has after the reply to its command.
Mine(f) == f.t = "reply" /\ f.name = Head(todo).name
Got(f) ==
    /\ UNCHANGED <<pnd.oper, pnd.crc, pnd.par, pnd.trigged>>
    /\ f.name = "TgInitAsTarget" => pnd'.power = "NORMAL"
    /\ f.name = "PowerDown" => pnd'.power = "LOWVBAT"
    /\ f.name \notin {"TgInitAsTarget", "PowerDown"} => UNCHANGED pnd.power
    /\ f.name = "ReadRegister" => pnd'.pending = pnd.pending \ (Partial(pnd.pending) \cap f.arg)
    /\ f.name # "ReadRegister" => UNCHANGED pnd.pending

\* A reply that is taken.
LEMMA GotBy ==
    ASSUME Types, ReceiveReply
    PROVE  Mine(Head(rx)) => Head(rx) \in Incoming /\ Got(Head(rx)) /\ Accept(Head(rx))
           /\ rx' = Tail(rx)
  <1>1. SUFFICES ASSUME Mine(Head(rx)) PROVE Head(rx) \in Incoming /\ Got(Head(rx))
                        /\ Accept(Head(rx)) /\ rx' = Tail(rx)
    OBVIOUS
  <1>2. PICK f : f = Head(rx)
    OBVIOUS
  <1>3. f \in Incoming /\ Accept(f) /\ rx' = Tail(rx) /\ pnd \in DeviceType
    BY <1>1, <1>2, TailTyped DEF ReceiveReply, Mine, Types, ChipTypes, HostTypes
  <1>4. f.st = "released" => f.name \in {"TgGetData", "TgSetData"}
    BY <1>3 DEF Incoming, FrameType, StatusOf, Outcomes, Commands, Prompt, Waiting
  <1>5. pnd' = CASE f.st = "released" -> [pnd EXCEPT !.target = FALSE]
                [] f.name = "TgInitAsTarget" ->
                        [pnd EXCEPT !.power = "NORMAL", !.target = @ \/ f.st = "ok"]
                [] f.name = "InJumpForDEP" -> [pnd EXCEPT !.target = f.st = "ok"]
                [] f.name = "SetParameters" -> [pnd EXCEPT !.default = f.arg = {"default"}]
                [] f.name = "PowerDown" -> [pnd EXCEPT !.power = "LOWVBAT"]
                [] f.name = "ReadRegister" ->
                        [pnd EXCEPT !.pending = @ \ (Partial(@) \cap f.arg)]
                [] OTHER -> pnd
    BY <1>3 DEF Accept
  <1>6. Got(f)
    <2>1. CASE f.st = "released"
      BY <1>3, <1>4, <1>5, <2>1 DEF Got, DeviceType
    <2>2. CASE f.st # "released" /\ f.name = "TgInitAsTarget"
      BY <1>3, <1>5, <2>2 DEF Got, DeviceType
    <2>3. CASE f.st # "released" /\ f.name = "InJumpForDEP"
      BY <1>3, <1>5, <2>3 DEF Got, DeviceType
    <2>4. CASE f.st # "released" /\ f.name = "SetParameters"
      BY <1>3, <1>5, <2>4 DEF Got, DeviceType
    <2>5. CASE f.st # "released" /\ f.name = "PowerDown"
      BY <1>3, <1>5, <2>5 DEF Got, DeviceType
    <2>6. CASE f.st # "released" /\ f.name = "ReadRegister"
      <3>1. pnd' = [pnd EXCEPT !.pending = @ \ (Partial(@) \cap f.arg)]
        BY <1>5, <2>6
      <3>2. UNCHANGED <<pnd.oper, pnd.crc, pnd.par, pnd.trigged, pnd.power>>
            /\ pnd'.pending = pnd.pending \ (Partial(pnd.pending) \cap f.arg)
        BY <1>3, <3>1 DEF DeviceType
      <3>3. QED BY <2>6, <3>2 DEF Got
    <2>7. CASE f.st # "released"
               /\ f.name \notin {"TgInitAsTarget", "InJumpForDEP", "SetParameters", "PowerDown",
               "ReadRegister"}
      BY <1>3, <1>5, <2>7 DEF Got, DeviceType
    <2>8. QED BY <2>1, <2>2, <2>3, <2>4, <2>5, <2>6, <2>7
  <1>7. QED BY <1>2, <1>3, <1>6

\* How a reply moves the script.
Moves(m, n, l, name, m2, n2) ==
    IF name = "InJumpForDEP" THEN m2 = "poll" /\ n2 = 0
    ELSE m2 = m /\ n2 = IF l = n THEN n - 1 ELSE n

\* The command is done.
LEMMA PlacedReply ==
    ASSUME Types, NEW m, NEW n, Placed(m, n), ReceiveReply
    PROVE  Mine(Head(rx)) /\ Head(rx).st = "ok" =>
             /\ \E m2, n2 : Placed(m2, n2)' /\ Moves(m, n, Len(todo), Head(todo).name, m2, n2)
             /\ at' = "step" /\ result' = "ok" /\ draining' = draining
             /\ todo' = (IF Head(todo).name = "InJumpForDEP" THEN <<>> ELSE Tail(todo))
             /\ Issues(m, n, Len(todo), Head(todo))
  <1>1. SUFFICES ASSUME Mine(Head(rx)), Head(rx).st = "ok"
        PROVE  /\ \E m2, n2 : Placed(m2, n2)' /\ Moves(m, n, Len(todo), Head(todo).name, m2, n2)
               /\ at' = "step" /\ result' = "ok" /\ draining' = draining
               /\ todo' = (IF Head(todo).name = "InJumpForDEP" THEN <<>> ELSE Tail(todo))
               /\ Issues(m, n, Len(todo), Head(todo))
    OBVIOUS
  <1>2. PICK f : f = Head(rx)
    OBVIOUS
  <1>3. Got(f) /\ Accept(f) /\ f.name = Head(todo).name /\ f.st = "ok"
    BY <1>1, <1>2, GotBy DEF Mine
  <1>4. /\ HostTypes /\ todo # <<>> /\ at' = "step" /\ at = "reply"
        /\ UNCHANGED <<call, role, draining, result, abort>>
        /\ todo' = IF f.name = "InJumpForDEP" THEN <<>> ELSE Tail(todo)
    BY <1>3 DEF Types, HostTypes, ReceiveReply, Accept, Keep
  <1>5. Where(m, n) /\ Head(todo).op \in {"cmd", "frame"} /\ result = "ok" /\ ~pnd.trigged
    BY <1>4 DEF Placed, Control
  <1>6. PICK l, h : l \in Nat /\ l = Len(todo) /\ h = Head(todo) /\ Issues(m, n, l, h)
    BY <1>4, <1>5, Commanding, WhereParts
  <1>7. /\ n \in Nat /\ m \in Modes /\ LastPoll \in Nat /\ LastPoll > 1 /\ n <= Length(m)
           /\ Length(m) \in Nat
        /\ call = CallOf(m) /\ todo \in Seq(StepType) /\ l >= n
    BY <1>4, <1>5, <1>6, WhereParts, BoundAssumption DEF LastPoll
  <1>8. CASE f.name = "InJumpForDEP"
    <2>1. m = "poll" /\ todo' = <<>>
      BY <1>3, <1>4, <1>6, <1>8 DEF Issues
    <2>2. Len(todo') = 0 /\ Len(todo') - 0 = 0 /\ 0 \in 0 .. Length(m) /\ call' = CallOf(m)
      <3>1. Len(todo') = 0
        BY <2>1
      <3>2. Len(todo') - 0 = 0
        BY <3>1
      <3>3. 0 \in 0 .. Length(m)
        BY <1>7
      <3>4. QED BY <1>4, <1>7, <3>1, <3>2, <3>3
    <2>3. Ends(todo', m, 0) /\ Inserted(m, 0, Len(todo) - 0)'
      <3>1. Ends(todo', m, 0)
        BY <2>2 DEF Ends
      <3>2. Inserted(m, 0, Len(todo) - 0)'
        BY <2>2, Zenon DEF Inserted
      <3>3. QED BY <3>1, <3>2
    <2>4. Where(m, 0)'
      BY <1>7, <2>2, <2>3, Zenon DEF Where
    <2>5. Control(m, 0)' /\ PowerMode(m, 0)' /\ OperMode(m, 0)'
      <3>1. pnd'.power = pnd.power /\ pnd'.pending = pnd.pending
            /\ UNCHANGED <<pnd.oper, pnd.crc, pnd.par, pnd.trigged>>
        BY <1>3, <1>8 DEF Got
      <3>2. QED BY <1>4, <1>5, <2>1, <3>1 DEF Placed, Control, PowerMode, OperMode
    <2>6. Placed(m, 0)' /\ Moves(m, n, Len(todo), Head(todo).name, m, 0)
      BY <1>3, <1>8, <2>1, <2>4, <2>5 DEF Placed, Moves
    <2>7. QED BY <1>3, <1>4, <1>5, <1>6, <2>6
  <1>9. CASE f.name # "InJumpForDEP"
    <2>1. PICK n2 : After(m, n, n2)
      BY DEF After
    <2>2. Where(m, n2)' /\ (n2 = n \/ n2 = n - 1) /\ n2 \in Nat
      BY <1>4, <1>5, <1>9, <2>1, Advance
    <2>3. n2 = IF l = n THEN n - 1 ELSE n
      BY <1>6, <2>1 DEF After
    <2>4. PICK name : name = f.name /\ name = h.name
      BY <1>3, <1>6
    <2>5. /\ UNCHANGED <<pnd.oper, pnd.crc, pnd.par, pnd.trigged>>
          /\ name = "TgInitAsTarget" => pnd'.power = "NORMAL"
          /\ name = "PowerDown" => pnd'.power = "LOWVBAT"
          /\ name \notin {"TgInitAsTarget", "PowerDown"} => pnd'.power = pnd.power
          /\ name # "ReadRegister" => pnd'.pending = pnd.pending
      BY <1>3, <2>4 DEF Got
    <2>6. Control(m, n2)'
      <3>1. m # "none" /\ ~(m = "open" /\ n2 >= 6) /\ (m = "open" => name # "ReadRegister")
        <4>1. ~(m = "open" /\ n >= 6)
          BY <1>4 DEF Placed, Control
        <4>2. QED BY <1>6, <1>7, <2>2, <2>4, <4>1 DEF Issues
      <3>2. ~(m \in {"failed_open", "timed_out"} /\ n2 = 0)
        BY <1>6, <1>7, <2>2 DEF Issues
      <3>3. QED BY <1>4, <1>5, <1>7, <2>2, <2>5, <3>1, <3>2 DEF Placed, Control
    <2>7. PowerMode(m, n2)'
      <3>1. pnd.power # "LOWVBAT"
        <4>1. /\ m # "none" /\ ~(m = "failed_open" /\ n <= 4)
              /\ ~(m \in {"close", "close_target", "timed_out"} /\ n <= 3)
          BY <1>6, <1>7 DEF Issues
        <4>2. ~(m = "open" /\ n >= 6)
          BY <1>4 DEF Placed, Control
        <4>3. QED BY <1>7, <4>1, <4>2 DEF Placed, PowerMode
      <3>2. pnd.power = "POWERDOWN" => name = "TgInitAsTarget"
        BY <1>4, <1>5, <1>6, <2>4 DEF Placed, PowerMode
      <3>3. name = "PowerDown" => /\ n2 = 4 - 1 \/ (n2 = 4 /\ m = "failed_open")
                                  /\ m \in {"failed_open", "close", "close_target", "timed_out"}
        <4>1. ASSUME name = "PowerDown"
              PROVE  \/ m = "failed_open" /\ n = 5 /\ l = 5
                     \/ m \in {"close", "close_target", "timed_out"} /\ n = 4 /\ l = 4
          BY <1>6, <1>7, <2>4, <4>1 DEF Issues
        <4>2. QED BY <2>3, <2>4, <4>1
      <3>4. name = "PowerDown" => pnd'.power = "LOWVBAT"
        BY <2>5
      <3>5. pnd'.power = "LOWVBAT" => name = "PowerDown"
        BY <2>5, <3>1
      <3>6. pnd'.power # "POWERDOWN"
        BY <2>5, <3>2
      <3>7. QED BY <3>3, <3>5, <3>6 DEF PowerMode
    <2>8. OperMode(m, n2)'
      <3>1. m = "target_init" /\ n2 # n => n = 2 \/ n = 10
        BY <1>6, <1>7, <2>2, <2>3 DEF Issues
      <3>2. UNCHANGED <<pnd.oper, result, role>>
        BY <1>4, <2>5
      <3>3. m = "close_target" => n \in {4, 5}
        BY <1>6 DEF Issues
      <3>4. m = "timed_out" => n \in {4, 5}
        BY <1>6 DEF Issues
      <3>5. m = "failed_open" => n \in 5 .. 7
        BY <1>6 DEF Issues
      <3>6. m = "close" => n \in 4 .. 6
        BY <1>6 DEF Issues
      <3>7. QED BY <1>7, <2>2, <3>1, <3>2, <3>3, <3>4, <3>5, <3>6 DEF Placed, OperMode
    <2>9. Placed(m, n2)'
      BY <2>2, <2>6, <2>7, <2>8 DEF Placed
    <2>10. Moves(m, n, Len(todo), Head(todo).name, m, n2)
      BY <1>3, <1>6, <1>9, <2>3 DEF Moves
    <2>11. QED BY <1>3, <1>4, <1>5, <1>6, <1>9, <2>9, <2>10
  <1>10. QED BY <1>8, <1>9

\* The command is repeated.
LEMMA PlacedStranger ==
    ASSUME Types, NEW m, NEW n, Placed(m, n), ReceiveReply
    PROVE  Mine(Head(rx)) /\ Head(rx).st = "stranger" =>
             /\ Placed(m, n)' /\ at' = "step" /\ result = "ok"
                /\ UNCHANGED <<todo, result, draining>>
             /\ m = "target_init" /\ n = 2 /\ Len(todo) = 2
                /\ Head(todo).name = "TgInitAsTarget"
  <1>1. SUFFICES ASSUME Mine(Head(rx)), Head(rx).st = "stranger"
        PROVE  /\ Placed(m, n)' /\ at' = "step" /\ result = "ok"
                  /\ UNCHANGED <<todo, result, draining>>
               /\ m = "target_init" /\ n = 2 /\ Len(todo) = 2
                  /\ Head(todo).name = "TgInitAsTarget"
    OBVIOUS
  <1>2. PICK f : f = Head(rx)
    OBVIOUS
  <1>3. f \in Incoming /\ Got(f) /\ Accept(f) /\ f.name = Head(todo).name /\ f.st = "stranger"
    BY <1>1, <1>2, GotBy DEF Mine
  <1>4. /\ HostTypes /\ todo # <<>> /\ at' = "step" /\ at = "reply"
        /\ UNCHANGED <<call, role, draining, result, abort, todo>>
    BY <1>3 DEF Types, HostTypes, ReceiveReply, Accept, Keep
  <1>5. Where(m, n) /\ Head(todo).op \in {"cmd", "frame"} /\ result = "ok" /\ ~pnd.trigged
    BY <1>4 DEF Placed, Control
  <1>6. PICK l, h : l \in Nat /\ l = Len(todo) /\ h = Head(todo) /\ Issues(m, n, l, h)
    BY <1>4, <1>5, Commanding, WhereParts
  <1>7. f.name = "TgInitAsTarget"
    BY <1>3 DEF Incoming, FrameType, StatusOf, Outcomes, Commands, Prompt, Waiting
  <1>8. m = "target_init" /\ n = 2 /\ l = 2
    BY <1>3, <1>6, <1>7 DEF Issues
  <1>9. UNCHANGED <<pnd.oper, pnd.crc, pnd.par, pnd.trigged, pnd.pending>>
        /\ pnd'.power = "NORMAL"
    BY <1>3, <1>7 DEF Got
  <1>10. Where(m, n)'
    BY <1>4, <1>5, WhereSame
  <1>11. Control(m, n)' /\ PowerMode(m, n)' /\ OperMode(m, n)'
    BY <1>4, <1>5, <1>8, <1>9 DEF Placed, Control, PowerMode, OperMode
  <1>12. QED BY <1>3, <1>4, <1>5, <1>6, <1>7, <1>8, <1>10, <1>11 DEF Placed

\* The scripts of each call.
LEMMA ModeOf ==
    ASSUME NEW m \in Modes
    PROVE  /\ CallOf(m) \in Calls
           /\ CallOf(m) \in {"none", "initiator_init", "poll", "exchange", "deselect",
              "receive", "send"} => m = CallOf(m)
           /\ CallOf(m) = "open" => m \in {"open", "failed_open"}
           /\ CallOf(m) = "target_init" => m \in {"target_init", "timed_out"}
           /\ CallOf(m) = "close" => m \in {"close", "close_target"}
  BY DEF CallOf, Modes, Calls

\* The host has nothing to do.
LEMMA AtEnd ==
    ASSUME HostTypes, todo = <<>>, NEW m, NEW n, Where(m, n)
    PROVE  n = 0
  <1>1. Len(todo) >= n /\ n \in Nat
    BY WhereParts
  <1>2. Len(todo) = 0
    OBVIOUS
  <1>3. QED BY <1>1, <1>2

\* A process that has ended.
LEMMA PlacedGone ==
    ASSUME Gone, role' = role, role \in {"initiator", "target"}
    PROVE  Placed("none", 0)'
  <1>1. call' = "none" /\ result' = "ok" /\ todo' = <<>> /\ at' = "step" /\ draining' = FALSE
        /\ abort' = "none" /\ pnd' = NewDevice
    BY DEF Gone
  <1>2. /\ pnd'.power = "LOWVBAT" /\ pnd'.oper = "INITIATOR" /\ pnd'.pending = {}
           /\ ~pnd'.trigged
        /\ ~pnd'.crc /\ ~pnd'.par
    BY <1>1, Zenon DEF NewDevice
  <1>3. Where("none", 0)'
    <2>1. Len(todo') = 0 /\ Len(todo') - 0 = 0
      <3>1. Len(todo') = 0
        BY <1>1
      <3>2. QED BY <3>1
    <2>2. Ends(todo', "none", 0)
      BY <2>1 DEF Ends
    <2>3. Inserted("none", 0, Len(todo) - 0)'
      BY <2>1, Zenon DEF Inserted
    <2>4. "none" \in Modes /\ 0 \in 0 .. Length("none") /\ call' = CallOf("none")
      BY <1>1, Lengths DEF Modes, CallOf
    <2>5. QED BY <2>2, <2>3, <2>4, Zenon DEF Where
  <1>4. Control("none", 0)'
    BY <1>1, <1>2 DEF Control
  <1>5. PowerMode("none", 0)' /\ OperMode("none", 0)'
    BY <1>2 DEF PowerMode, OperMode
  <1>6. QED BY <1>3, <1>4, <1>5 DEF Placed

\* One call after another: from (m, 0) to (m2, n2).
Follows(m, m2, n2) ==
    \/ m = "open" /\ result = "ok" /\ role = "initiator" /\ m2 = "initiator_init" /\ n2 = 8
    \/ m = "open" /\ result = "ok" /\ role = "target" /\ m2 = "target_init" /\ n2 = 13
    \/ m = "initiator_init" /\ result = "ok" /\ m2 = "poll" /\ n2 = LastPoll
    \/ m \in {"poll", "exchange"} /\ result = "ok" /\ m2 = "exchange" /\ n2 = 1
    \/ m \in {"poll", "exchange"} /\ result = "ok" /\ m2 = "deselect" /\ n2 = 2
    \/ m = "exchange" /\ result # "ok" /\ m2 = "deselect" /\ n2 = 2
    \/ m \in {"target_init", "send"} /\ result = "ok" /\ m2 = "receive" /\ n2 = 1
    \/ m = "receive" /\ result = "ok" /\ m2 = "send" /\ n2 = 1
    \/ m = "deselect" /\ result = "ok" /\ Begins("close", m2, n2)
    \/ m \in {"initiator_init", "poll", "exchange", "deselect", "target_init", "timed_out",
       "receive", "send"}
         /\ result # "ok" /\ Begins("close", m2, n2)

\* mac_link_drain takes the device over.
Drains(m, m2, n2) ==
    /\ m \in {"target_init", "receive", "send"} /\ (result = "ok" \/ m # "target_init")
    /\ m2 = "receive" /\ n2 = 1

\* The program's calls follow one another as Follows says.
LEMMA NextCall ==
    ASSUME HostTypes, todo = <<>>, NEW m, Placed(m, 0), call # "none", NEW c \in NextCalls,
           c # "none",
           role \in {"initiator", "target"}, NEW m2, NEW n2, Begins(c, m2, n2)
    PROVE  Follows(m, m2, n2)
  <1>1. m \in Modes /\ call = CallOf(m) /\ result \in Errors \cup {"ok"} /\ call \in Calls
    BY WhereParts DEF Placed, HostTypes
  <1>2. m \in {"failed_open", "timed_out"} => result # "ok"
    BY DEF Placed, Control
  <1>3. CASE call = "open"
    <2>1. result = "ok" /\ c = (IF role = "initiator" THEN "initiator_init" ELSE "target_init")
      BY <1>3 DEF NextCalls
    <2>2. m = "open"
      BY <1>1, <1>2, <1>3, <2>1, ModeOf
    <2>3. QED BY <2>1, <2>2, Lengths DEF Follows, Begins
  <1>4. CASE call = "close"
    BY <1>4 DEF NextCalls
  <1>5. CASE result # "ok" /\ call \notin {"open", "close"}
    <2>1. c = "close" \/ (c = "deselect" /\ call = "exchange")
      BY <1>5 DEF NextCalls
    <2>2. m \in {"initiator_init", "poll", "exchange", "deselect", "target_init", "timed_out",
          "receive", "send"}
      BY <1>1, <1>5, ModeOf DEF Calls
    <2>3. call = "exchange" => m = "exchange"
      BY <1>1, ModeOf
    <2>4. CASE c = "close"
      BY <1>5, <2>2, <2>4, Zenon DEF Follows
    <2>5. CASE c = "deselect" /\ call = "exchange"
      <3>1. m = "exchange" /\ m2 = "deselect" /\ n2 = 2
        BY <2>3, <2>5, Lengths DEF Begins
      <3>2. QED BY <1>5, <3>1 DEF Follows
    <2>6. QED BY <2>1, <2>4, <2>5
  <1>6. CASE result = "ok"
             /\ call \in {"initiator_init", "poll", "exchange", "deselect", "receive", "send"}
    <2>1. m = call
      BY <1>1, <1>6, ModeOf
    <2>2. CASE call = "initiator_init"
      <3>1. c = "poll" /\ m2 = "poll" /\ n2 = LastPoll
        BY <1>6, <2>2, Lengths DEF NextCalls, Begins
      <3>2. QED BY <1>6, <2>1, <2>2, <3>1 DEF Follows
    <2>3. CASE call \in {"poll", "exchange"}
      <3>1. c \in {"exchange", "deselect"}
        BY <1>6, <2>3 DEF NextCalls
      <3>2. (m2 = "exchange" /\ n2 = 1) \/ (m2 = "deselect" /\ n2 = 2)
        BY <3>1, Lengths DEF Begins
      <3>3. QED BY <1>6, <2>1, <2>3, <3>2 DEF Follows
    <2>4. CASE call = "deselect"
      <3>1. c = "close"
        BY <1>6, <2>4 DEF NextCalls
      <3>2. QED BY <1>6, <2>1, <2>4, <3>1, Zenon DEF Follows
    <2>5. CASE call = "send"
      <3>1. c = "receive"
        BY <1>6, <2>5 DEF NextCalls
      <3>2. QED BY <1>6, <2>1, <2>5, <3>1, Lengths DEF Follows, Begins
    <2>6. CASE call = "receive"
      <3>1. c = "send"
        BY <1>6, <2>6 DEF NextCalls
      <3>2. QED BY <1>6, <2>1, <2>6, <3>1, Lengths DEF Follows, Begins
    <2>7. QED BY <1>6, <2>2, <2>3, <2>4, <2>5, <2>6
  <1>7. CASE result = "ok" /\ call = "target_init"
    <2>1. m = "target_init"
      BY <1>1, <1>2, <1>7, ModeOf
    <2>2. c = "receive"
      BY <1>7 DEF NextCalls
    <2>3. QED BY <1>7, <2>1, <2>2, Lengths DEF Follows, Begins
  <1>8. call \in {"open", "initiator_init", "poll", "exchange", "deselect", "target_init",
        "receive", "send", "close"}
    BY <1>1 DEF Calls
  <1>9. QED BY <1>1, <1>3, <1>4, <1>5, <1>6, <1>7, <1>8

\* The next call begins at its place.
LEMMA PlacedFollows ==
    ASSUME HostTypes, todo = <<>>, NEW m, Placed(m, 0), role \in {"initiator", "target"},
           NEW m2, NEW n2,
           Follows(m, m2, n2) \/ Drains(m, m2, n2)
    PROVE  (/\ Where(m2, n2)' /\ Len(todo') = n2 /\ result' = "ok" /\ at' = "step"
               /\ abort' = "none"
            /\ pnd' = pnd /\ role' = role
            /\ draining' = draining \/ m2 = "receive") => Placed(m2, n2)'
  <1>1. SUFFICES ASSUME Where(m2, n2)', Len(todo') = n2, result' = "ok", at' = "step",
                        abort' = "none",
                        pnd' = pnd, role' = role, draining' = draining \/ m2 = "receive"
                 PROVE  Placed(m2, n2)'
    OBVIOUS
  <1>2. pnd.oper \in {"INITIATOR", "TARGET", "IDLE"} /\ n2 \in Nat /\ LastPoll \in Nat
        /\ LastPoll > 1
    <2>1. n2 \in Nat
      <3>1. Begins("close", m2, n2) => n2 \in Nat
        BY DEF Begins
      <3>2. LastPoll \in Nat
        BY BoundAssumption DEF LastPoll
      <3>3. QED BY <3>1, <3>2 DEF Follows, Drains
    <2>2. QED BY <2>1, BoundAssumption DEF HostTypes, DeviceType, LastPoll
  <1>3. Control(m2, n2)'
    <2>1. m2 \notin {"none", "open", "failed_open", "timed_out"}
      BY DEF Follows, Drains, Begins
    <2>2. draining' => m2 \in {"receive", "send", "close", "close_target"}
      BY <1>1 DEF Follows, Drains, Begins, Placed, Control
    <2>3. pnd.trigged => \/ m2 = "initiator_init"
                         \/ m2 = "poll" /\ n2 = LastPoll
                         \/ m2 = "target_init" /\ n2 >= 2
      BY <1>2 DEF Follows, Drains, Begins, Placed, Control
    <2>4. QED BY <1>1, <2>1, <2>2, <2>3 DEF Control
  <1>4. PowerMode(m2, n2)'
    <2>1. pnd.power = "LOWVBAT" => m2 = "close" /\ n2 <= 3
      <3>1. pnd.power = "LOWVBAT" => m = "timed_out" /\ pnd.oper = "IDLE"
        BY DEF Follows, Drains, Placed, PowerMode
      <3>2. QED BY <3>1 DEF Follows, Drains, Begins
    <2>2. pnd.power = "POWERDOWN" => m2 = "close_target" /\ n2 = 5 /\ pnd.oper = "TARGET"
      <3>1. pnd.power = "POWERDOWN" => m = "target_init" /\ result # "ok" /\ pnd.oper = "TARGET"
        BY DEF Placed, PowerMode
      <3>2. QED BY <3>1 DEF Follows, Drains, Begins
    <2>3. QED BY <1>1, <2>1, <2>2 DEF PowerMode
  <1>5. OperMode(m2, n2)'
    <2>1. CASE Drains(m, m2, n2)
      BY <1>1, <1>2, <2>1 DEF OperMode, Placed, Drains
    <2>2. CASE Begins("close", m2, n2)
      BY <1>1, <1>2, <2>2 DEF OperMode, Placed, Begins
    <2>3. CASE Follows(m, m2, n2) /\ ~Begins("close", m2, n2)
      BY <1>1, <1>2, <2>3 DEF OperMode, Placed, Follows
    <2>4. QED BY <2>1, <2>2, <2>3
  <1>6. QED BY <1>1, <1>3, <1>4, <1>5 DEF Placed

\* What a call that begins leaves alone.
LEMMA BeginHost ==
    ASSUME HostTypes, NEW c
    PROVE  Begin(c) => /\ result' = "ok" /\ at' = "step" /\ abort' = "none" /\ call' = c
  BY DEF Begin

\* How calls return.
Returns(m, n, m2, n2) ==
    \/ Gone /\ m2 = "none" /\ n2 = 0
    \/ n = 0 /\ result' = "ok" /\ at' = "step" /\ UNCHANGED <<pnd, draining>>
       /\ Follows(m, m2, n2)
    \/ n = 0 /\ result' = "ok" /\ at' = "step" /\ UNCHANGED pnd /\ draining'
       /\ Drains(m, m2, n2)

\* A call returns, and the next begins.
LEMMA PlacedReturn ==
    ASSUME Types, NEW m, NEW n, Placed(m, n), Return
    PROVE  \E m2, n2 : Placed(m2, n2)' /\ Returns(m, n, m2, n2) /\ Len(todo') = n2
  <1>1. HostTypes /\ call # "none" /\ todo = <<>> /\ UNCHANGED <<role, spent, chip, line>>
        /\ role \in {"initiator", "target"}
    BY BoundAssumption DEF Types, Return, SpentTypes
  <1>2. Where(m, n) /\ n = 0
    BY <1>1, AtEnd DEF Placed
  <1>3. Placed(m, 0)
    BY <1>2
  <1>4. CASE Gone
    <2>1. Placed("none", 0)'
      BY <1>1, <1>4, PlacedGone
    <2>2. Len(todo') = 0
      <3>1. todo' = <<>>
        BY <1>4 DEF Gone
      <3>2. QED BY <3>1
    <2>3. QED BY <1>4, <2>1, <2>2, Zenon DEF Returns
  <1>5. ASSUME NEW c \in NextCalls, c # "none", Begin(c), UNCHANGED <<draining, pnd>>
        PROVE  \E m2, n2 : Placed(m2, n2)' /\ Returns(m, n, m2, n2) /\ Len(todo') = n2
    <2>1. c \in Calls \ {"none"}
      BY <1>1, <1>5, NextCallsTyped DEF HostTypes
    <2>2. PICK m2, n2 : Begins(c, m2, n2) /\ Where(m2, n2)' /\ Len(todo') = n2
      BY <1>1, <1>5, <2>1, BeginWhere
    <2>3. Follows(m, m2, n2)
      BY <1>1, <1>3, <1>5, <2>2, NextCall
    <2>4. result' = "ok" /\ at' = "step" /\ abort' = "none"
      BY <1>1, <1>5, BeginHost
    <2>5. draining' = draining \/ m2 = "receive"
      BY <1>5
    <2>6. Placed(m2, n2)'
      BY <1>1, <1>3, <1>5, <2>2, <2>3, <2>4, <2>5, PlacedFollows
    <2>7. Returns(m, n, m2, n2)
      BY <1>2, <1>5, <2>3, <2>4, Zenon DEF Returns
    <2>8. QED BY <2>2, <2>6, <2>7
  <1>6. CASE call \in {"target_init", "receive", "send"}
             /\ (result = "ok" \/ call # "target_init")
             /\ Begin("receive") /\ draining' = TRUE /\ UNCHANGED pnd
    <2>1. PICK m2, n2 : Begins("receive", m2, n2) /\ Where(m2, n2)' /\ Len(todo') = n2
      BY <1>1, <1>6, BeginWhere DEF Calls
    <2>2. m2 = "receive" /\ n2 = 1
      BY <2>1, Lengths DEF Begins
    <2>3. m \in {"target_init", "receive", "send"} /\ (result = "ok" \/ m # "target_init")
      <3>1. call = CallOf(m) /\ m \in Modes
        BY <1>1, <1>2, WhereParts
      <3>2. m = "timed_out" => result # "ok"
        BY <1>3 DEF Placed, Control
      <3>3. m \in {"target_init", "timed_out", "receive", "send"}
        BY <1>6, <3>1, ModeOf
      <3>4. m = "timed_out" => call = "target_init"
        BY <3>1 DEF CallOf
      <3>5. m = "target_init" => call = "target_init"
        BY <3>1 DEF CallOf
      <3>6. QED BY <1>6, <3>2, <3>3, <3>4, <3>5
    <2>4. Drains(m, m2, n2)
      BY <2>2, <2>3 DEF Drains
    <2>5. result' = "ok" /\ at' = "step" /\ abort' = "none"
      BY <1>1, <1>6, BeginHost
    <2>6. Placed(m2, n2)'
      BY <1>1, <1>3, <1>6, <2>1, <2>2, <2>4, <2>5, PlacedFollows
    <2>7. Returns(m, n, m2, n2)
      BY <1>2, <1>6, <2>4, <2>5, Zenon DEF Returns
    <2>8. QED BY <2>1, <2>6, <2>7
  <1>7. \/ \E c \in NextCalls : IF c = "none" THEN Gone ELSE Begin(c)
           /\ UNCHANGED <<draining, pnd>>
        \/ call \in {"target_init", "receive", "send"}
           /\ (result = "ok" \/ call # "target_init")
             /\ Begin("receive") /\ draining' = TRUE /\ UNCHANGED pnd
    BY DEF Return
  <1>8. QED BY <1>4, <1>5, <1>6, <1>7

\* A process starts.
LEMMA PlacedStart ==
    ASSUME Types, NEW m, NEW n, Placed(m, n), Start
    PROVE  m = "none" /\ Placed("open", 7)' /\ Len(todo') = 7 /\ at' = "step"
           /\ UNCHANGED <<pnd, chip, line, role>>
  <1>1. /\ HostTypes /\ call = "none" /\ UNCHANGED <<role, draining, pnd, chip, line>>
           /\ Begin("open")
    BY DEF Types, Start
  <1>2. PICK m2, n2 : Begins("open", m2, n2) /\ Where(m2, n2)' /\ Len(todo') = n2
    BY <1>1, BeginWhere DEF Calls
  <1>3. m2 = "open" /\ n2 = 7
    BY <1>2, Lengths DEF Begins
  <1>4. m = "none"
    <2>1. call = CallOf(m) /\ m \in Modes
      BY <1>1, WhereParts DEF Placed
    <2>2. QED BY <1>1, <2>1 DEF CallOf, Modes
  <1>5. result' = "ok" /\ at' = "step" /\ abort' = "none"
    BY <1>1, BeginHost
  <1>6. pnd = NewDevice /\ ~draining
    BY <1>4 DEF Placed, Control
  <1>7. pnd.power = "LOWVBAT" /\ pnd.oper = "INITIATOR" /\ pnd.pending = {} /\ ~pnd.trigged
        /\ ~pnd.crc /\ ~pnd.par
    BY <1>6, Zenon DEF NewDevice
  <1>8. Control("open", 7)'
    BY <1>1, <1>5, <1>6, <1>7 DEF Control
  <1>9. PowerMode("open", 7)' /\ OperMode("open", 7)'
    BY <1>1, <1>5, <1>7 DEF PowerMode, OperMode
  <1>10. QED BY <1>1, <1>2, <1>3, <1>4, <1>5, <1>8, <1>9 DEF Placed

\* The exchange thread is cancelled.
LEMMA PlacedCancel ==
    ASSUME Types, NEW m, NEW n, Placed(m, n), Cancel
    PROVE  /\ m = "receive" /\ n = 1 /\ Placed("receive", 1)' /\ Len(todo') = 1 /\ at' = "step"
              /\ draining'
           /\ UNCHANGED <<pnd, chip, line, role>>
  <1>1. /\ HostTypes /\ call = "receive" /\ todo # <<>> /\ draining' = TRUE
           /\ UNCHANGED <<role, pnd, chip, line>> /\ Begin("receive")
    BY DEF Types, Cancel
  <1>2. PICK m2, n2 : Begins("receive", m2, n2) /\ Where(m2, n2)' /\ Len(todo') = n2
    BY <1>1, BeginWhere DEF Calls
  <1>3. m2 = "receive" /\ n2 = 1
    BY <1>2, Lengths DEF Begins
  <1>4. m = "receive" /\ n = 1
    <2>1. call = CallOf(m) /\ m \in Modes /\ Where(m, n)
      BY <1>1, WhereParts DEF Placed
    <2>2. m = "receive"
      BY <1>1, <2>1, ModeOf
    <2>3. n \in 0 .. 1
      <3>1. n \in Nat /\ n <= Length(m)
        BY <1>1, <2>1, WhereParts
      <3>2. QED BY <2>2, <3>1, Lengths
    <2>4. n # 0
      <3>1. SUFFICES ASSUME n = 0 PROVE FALSE
        OBVIOUS
      <3>2. Len(todo) > 0
        BY <1>1 DEF HostTypes
      <3>3. Inserted(m, n, Len(todo) - n)
        BY <2>1, Zenon DEF Where
      <3>4. ~(Len(todo) - n = 0)
        BY <3>1, <3>2
      <3>5. ~Garbled(m, n)
        BY <2>2 DEF Garbled
      <3>6. QED BY <2>2, <3>3, <3>4, <3>5, Zenon DEF Inserted
    <2>5. QED BY <2>2, <2>3, <2>4
  <1>5. result' = "ok" /\ at' = "step" /\ abort' = "none" /\ call' = "receive"
    BY <1>1, BeginHost
  <1>6. result = "ok" /\ ~pnd.trigged
    BY <1>1, <1>4 DEF Placed, Control
  <1>7. Control("receive", 1)'
    BY <1>1, <1>5, <1>6 DEF Control
  <1>8. PowerMode("receive", 1)' /\ OperMode("receive", 1)'
    BY <1>1, <1>4, <1>5, <1>6 DEF Placed, PowerMode, OperMode
  <1>9. QED BY <1>1, <1>2, <1>3, <1>4, <1>5, <1>7, <1>8 DEF Placed

\* The processes that end otherwise, and the steps that are not the host's.
LEMMA PlacedEnd ==
    ASSUME Types, Gone, role' = role
    PROVE  Placed("none", 0)' /\ Len(todo') = 0
  <1>1. role \in {"initiator", "target"}
    BY BoundAssumption DEF Types, SpentTypes
  <1>2. todo' = <<>>
    BY DEF Gone
  <1>3. Len(todo') = 0
    BY <1>2
  <1>4. QED BY <1>1, <1>3, PlacedGone

\* A step that is not the host's leaves it where it is.
LEMMA PlacedSame ==
    ASSUME Types, NEW m, NEW n, Placed(m, n)
    PROVE  UNCHANGED <<role, call, result, todo, at, draining, pnd>>
           /\ (abort' = abort \/ AbortCommand) => Placed(m, n)'
  <1>1. SUFFICES ASSUME UNCHANGED <<role, call, result, todo, at, draining, pnd>>,
                        abort' = abort \/ AbortCommand
                 PROVE  Placed(m, n)'
    OBVIOUS
  <1>2. Where(m, n)'
    BY <1>1, WhereSame DEF Placed
  <1>3. call \in {"none", "open", "close"} => abort' = "none"
    <2>1. abort' = abort \/ (todo # <<>> /\ call \notin {"open", "close"})
      BY <1>1 DEF AbortCommand
    <2>2. call = "none" => todo = <<>>
      <3>1. SUFFICES ASSUME call = "none" PROVE todo = <<>>
        OBVIOUS
      <3>2. HostTypes /\ Where(m, n) /\ call = CallOf(m) /\ m \in Modes
        BY WhereParts DEF Types, Placed
      <3>3. m = "none"
        BY <3>1, <3>2 DEF CallOf, Modes
      <3>4. n = 0
        BY <3>2, <3>3, Lengths, WhereParts
      <3>5. Inserted(m, n, Len(todo) - n) /\ Len(todo) \in Nat
        BY <3>2, WhereParts
      <3>6. ~Garbled(m, n)
        BY <3>3 DEF Garbled
      <3>7. Len(todo) - n = 0
        BY <3>3, <3>5, <3>6, Zenon DEF Inserted
      <3>8. Len(todo) = 0
        BY <3>4, <3>5, <3>7
      <3>9. QED BY <3>2, <3>8 DEF HostTypes
    <2>3. QED BY <2>1, <2>2 DEF Placed, Control
  <1>4. Control(m, n)'
    BY <1>1, <1>3 DEF Placed, Control
  <1>5. PowerMode(m, n)' /\ OperMode(m, n)'
    BY <1>1 DEF Placed, PowerMode, OperMode
  <1>6. QED BY <1>2, <1>4, <1>5 DEF Placed

\* The first of a sequence goes, or one more comes.
LEMMA Pulled ==
    ASSUME NEW S, NEW s \in Seq(S), s # <<>>
    PROVE  /\ Len(s) \in Nat /\ Len(s) >= 1 /\ Head(s) = s[1] /\ s[1] \in S
           /\ Tail(s) \in Seq(S) /\ Len(Tail(s)) = Len(s) - 1
           /\ \A i \in 1 .. Len(s) - 1 : Tail(s)[i] = s[i + 1]
           /\ (Len(s) = 1 => Tail(s) = <<>>)
  <1>1. Len(s) \in Nat /\ Len(s) >= 1
    OBVIOUS
  <1>2. Head(s) = s[1] /\ s[1] \in S
    BY <1>1
  <1>3. Tail(s) \in Seq(S) /\ Len(Tail(s)) = Len(s) - 1
    OBVIOUS
  <1>4. \A i \in 1 .. Len(s) - 1 : Tail(s)[i] = s[i + 1]
    OBVIOUS
  <1>5. Len(s) = 1 => Tail(s) = <<>>
    <2>1. \A t \in Seq(S) : t # <<>> => Len(t) >= 1
      OBVIOUS
    <2>2. PICK t : t = Tail(s)
      OBVIOUS
    <2>3. t \in Seq(S) /\ Len(t) = Len(s) - 1
      BY <1>3, <2>2
    <2>4. Len(s) = 1 => t = <<>>
      BY <1>1, <2>1, <2>3
    <2>5. QED BY <2>2, <2>4
  <1>6. QED BY <1>1, <1>2, <1>3, <1>4, <1>5

-----------------------------------------------------------------------------
\* The chip and the line: which commands may be taken for one of the script, and in which
\* order frames come.

\* One more element.
LEMMA Pushed ==
    ASSUME NEW S, NEW s \in Seq(S), NEW f \in S
    PROVE  /\ Len(s) \in Nat /\ Append(s, f) \in Seq(S) /\ Len(Append(s, f)) = Len(s) + 1
           /\ \A i \in 1 .. Len(s) : Append(s, f)[i] = s[i]
           /\ Append(s, f)[Len(s) + 1] = f /\ Append(s, f) # <<>>
           /\ (s = <<>> => Head(Append(s, f)) = f) /\ (s # <<>> => Head(Append(s, f)) = Head(s))
  <1>1. Len(s) \in Nat /\ Append(s, f) \in Seq(S) /\ Len(Append(s, f)) = Len(s) + 1
    OBVIOUS
  <1>2. \A i \in 1 .. Len(s) : Append(s, f)[i] = s[i]
    OBVIOUS
  <1>3. Append(s, f)[Len(s) + 1] = f
    OBVIOUS
  <1>4. Append(s, f) # <<>>
    <2>1. Len(Append(s, f)) >= 1
      BY <1>1
    <2>2. QED BY <2>1
  <1>5. Head(Append(s, f)) = Append(s, f)[1]
    BY <1>1, <1>4
  <1>6. s = <<>> => Len(s) = 0
    OBVIOUS
  <1>7. s # <<>> => Head(s) = s[1] /\ Len(s) >= 1
    OBVIOUS
  <1>8. s = <<>> => Head(Append(s, f)) = f
    BY <1>3, <1>5, <1>6
  <1>9. s # <<>> => Head(Append(s, f)) = Head(s)
    BY <1>1, <1>2, <1>5, <1>7
  <1>10. QED BY <1>1, <1>2, <1>3, <1>4, <1>8, <1>9

\* The chip's steps, as the other side sees them.
HostStays == UNCHANGED <<role, call, result, todo, at, draining, abort, pnd>>
    /\ spent'.lost = spent.lost

\* What a frame is to the other side, and what becomes of the line.
Pulls == tx # <<>> /\ tx' = Tail(tx) /\ chip.running.name \notin Prompt
Pushes(f) == f \in Incoming /\ rx' = Append(rx, f)
TakesWake ==
    /\ Pulls /\ Head(tx).t = "wake" /\ rx' = rx
    /\ chip'.running = chip.running /\ chip'.regs = chip.regs /\ chip'.field = chip.field
    /\ chip.power = "lowvbat" => chip'.power = "halfway"
    /\ chip.power = "down" => chip'.power = "on"
    /\ chip.power \in {"halfway", "on"} => chip'.power = chip.power
TakesAck ==
    /\ Pulls /\ Head(tx).t = "ack" /\ rx' = rx
    /\ chip'.running = chip.running
       \/ (chip'.running.name = Idling /\ ~chip'.running.old /\ chip'.running.t = "cmd")
    /\ chip'.regs = chip.regs /\ chip'.field = chip.field /\ chip'.power = chip.power
Acknowledges(f, g) == g.t = "ack" /\ g.name = f.name /\ g.old = f.old
TakesCmd ==
    /\ Pulls /\ Head(tx).t = "cmd" /\ Head(tx).name \in Commands /\ ~(Head(tx).name = Idling)
    /\ Hears(Head(tx).name)
    /\ \E g : Pushes(g) /\ Acknowledges(Head(tx), g)
    /\ chip'.running = Head(tx) /\ chip'.regs = chip.regs
    /\ Head(tx).name = "TgInitAsTarget" => chip'.power = "down"
    /\ ~(Head(tx).name = "TgInitAsTarget") => chip'.power = "on"
    /\ chip'.field <=> chip.field \/ Head(tx).name = "InJumpForDEP"
Drops ==
    /\ Pulls /\ Head(tx).t = "cmd" /\ ~Hears(Head(tx).name) /\ rx' = rx
    /\ chip'.running = chip.running /\ chip'.regs = chip.regs /\ chip'.field = chip.field
       /\ chip'.power = chip.power

\* The reply g to the command c; on when it waited for the other device.
Replies(c, g) ==
    /\ g.t = "reply" /\ g.name = c.name /\ g.old = c.old
    /\ c.name = "ReadRegister" => g.arg = chip.regs
Answers ==
    /\ tx' = tx /\ chip.running.name \in Commands /\ ~(chip.running.name = Idling)
    /\ \E g : Pushes(g) /\ Replies(chip.running, g)
    /\ chip'.running.name = Idling /\ ~chip'.running.old /\ chip'.running.t = "cmd"
    /\ chip.regs \subseteq chip'.regs
    /\ chip.running.name = "WriteRegister" => chip.running.arg \subseteq chip'.regs
    /\ chip.running.name = "PowerDown" => chip'.power = "lowvbat"
    /\ chip.running.name \in Prompt \ {"PowerDown"} => chip'.power = chip.power
    /\ chip.running.name \in Waiting => chip'.power = "on"
    /\ chip.running.name = "RFConfiguration"
       => (chip'.field
       <=> "on" \in chip.running.arg \/ (chip.field /\ ~("off" \in chip.running.arg)))
    /\ ~(chip.running.name = "RFConfiguration") => chip'.field = chip.field

\* A frame is taken in one of four ways.
LEMMA TakesMoves ==
    ASSUME Types, Takes
    PROVE  HostStays /\ (TakesWake \/ TakesAck \/ TakesCmd \/ Drops)
  <1>1. PICK f : f = Head(tx)
    OBVIOUS
  <1>2. f \in Outgoing /\ tx # <<>> /\ Pulls /\ HostStays
    BY <1>1 DEF Types, ChipTypes, Takes, Pulls, HostStays, host
  <1>3. chip \in [power : {"lowvbat", "halfway", "down", "on"}, running : RunningFrame,
                  regs : SUBSET Field, default : BOOLEAN, field : BOOLEAN]
    BY DEF Types, ChipTypes
  <1>4. CASE f.t = "wake"
    <2>1. rx' = rx
          /\ chip' = [chip EXCEPT !.power = CASE @ = "lowvbat" -> "halfway" [] @ = "down" -> "on" [] OTHER -> @]
      BY <1>1, <1>4 DEF Takes
    <2>2. TakesWake
      BY <1>1, <1>2, <1>3, <1>4, <2>1 DEF TakesWake
    <2>3. QED BY <1>2, <2>2
  <1>5. CASE f.t = "ack"
    <2>1. rx' = rx
          /\ chip' = IF chip.power = "on" THEN [chip EXCEPT !.running = Cold.running] ELSE chip
      BY <1>1, <1>5 DEF Takes
    <2>2. Cold.running.name = Idling /\ ~Cold.running.old /\ Cold.running.t = "cmd"
      BY DEF Cold, Frame
    <2>3. TakesAck
      BY <1>1, <1>2, <1>3, <1>5, <2>1, <2>2 DEF TakesAck
    <2>4. QED BY <1>2, <2>3
  <1>6. CASE f.t = "cmd" /\ Hears(f.name)
    <2>1. /\ chip' = [chip EXCEPT !.running = f, !.field = @ \/ f.name = "InJumpForDEP",
                                  !.power = IF f.name = "TgInitAsTarget" THEN "down" ELSE "on"]
          /\ rx' = Append(rx, [f EXCEPT !.t = "ack"])
      BY <1>1, <1>6 DEF Takes
    <2>2. [f EXCEPT !.t = "ack"] \in Incoming /\ f.name \in Commands /\ ~(f.name = Idling)
      BY <1>2, <1>6 DEF Outgoing, Incoming, FrameType, StatusOf, Outcomes, Commands, Prompt,
         Waiting, Idling
    <2>3. Pushes([f EXCEPT !.t = "ack"]) /\ Acknowledges(f, [f EXCEPT !.t = "ack"])
      BY <1>2, <2>1, <2>2 DEF Pushes, Acknowledges, Outgoing, FrameType
    <2>4. chip'.running = f /\ chip'.regs = chip.regs
          /\ (chip'.field <=> chip.field \/ f.name = "InJumpForDEP")
      BY <1>3, <2>1
    <2>5. chip'.power = IF f.name = "TgInitAsTarget" THEN "down" ELSE "on"
      BY <1>3, <2>1
    <2>6. TakesCmd
      BY <1>1, <1>2, <1>6, <2>2, <2>3, <2>4, <2>5 DEF TakesCmd
    <2>7. QED BY <1>2, <2>6
  <1>7. CASE f.t = "cmd" /\ ~Hears(f.name)
    <2>1. chip' = chip /\ rx' = rx
      BY <1>1, <1>7 DEF Takes
    <2>2. QED BY <1>1, <1>2, <1>7, <2>1 DEF Drops
  <1>8. f.t \in {"cmd", "wake", "ack"}
    BY <1>2 DEF Outgoing
  <1>9. QED BY <1>4, <1>5, <1>6, <1>7, <1>8

\* A command is answered.
LEMMA AnswersMoves ==
    ASSUME Types, Executes \/ Hearing
    PROVE  HostStays /\ Answers
  <1>1. PICK c : c = chip.running
    OBVIOUS
  <1>2. chip \in [power : {"lowvbat", "halfway", "down", "on"}, running : RunningFrame,
                  regs : SUBSET Field, default : BOOLEAN, field : BOOLEAN]
    BY DEF Types, ChipTypes
  <1>3. c \in RunningFrame
    BY <1>1, <1>2
  <1>4. PICK st : Answer(st) /\ st \in StatusOf(c.name) /\ c.name \in Commands
    BY <1>1 DEF Executes, Hearing, Answer, StatusOf, Outcomes, Commands, Waiting, Prompt
  <1>5. PICK g : g = [c EXCEPT !.t = "reply", !.st = st,
             !.arg = IF c.name = "ReadRegister" THEN chip.regs ELSE @]
    OBVIOUS
  <1>6. g \in Incoming
    BY <1>2, <1>3, <1>4, <1>5 DEF FrameType, RunningFrame, Incoming, Args, StatusOf, Outcomes,
       Statuses
  <1>7. rx' = Append(rx, g) /\ tx' = tx
    BY <1>1, <1>4, <1>5 DEF Answer
  <1>8. Replies(c, g)
    BY <1>3, <1>5 DEF Replies, RunningFrame, FrameType
  <1>9. ~(c.name = Idling)
    BY <1>4 DEF Commands, Prompt, Waiting, Idling
  <1>10. Cold.running.name = Idling /\ ~Cold.running.old /\ Cold.running.t = "cmd"
    BY DEF Cold, Frame
  <1>11. HostStays
    <2>1. role' = role /\ UNCHANGED host
      BY <1>4 DEF Answer
    <2>2. spent' = spent \/ spent' = [spent EXCEPT !["strangers"] = @ + 1]
      BY DEF Executes, Hearing, Spend
    <2>3. spent'.lost = spent.lost
      BY <2>2 DEF Types, SpentTypes
    <2>4. QED BY <2>1, <2>3 DEF HostStays, host
  <1>12. CASE Executes
    <2>1. c.name \in Prompt /\ ~(c.name \in Waiting)
      BY <1>1, <1>12 DEF Executes, Prompt, Waiting
    <2>2. /\ chip'.running = Cold.running
          /\ chip'.power = IF c.name = "PowerDown" THEN "lowvbat" ELSE chip.power
          /\ chip'.regs = IF c.name = "WriteRegister" THEN chip.regs \cup c.arg ELSE chip.regs
          /\ chip'.field = IF c.name = "RFConfiguration"
                            THEN "on" \in c.arg
                                \/ (chip.field /\ "off" \notin c.arg) ELSE chip.field
      BY <1>1, <1>2, <1>12 DEF Executes
    <2>3. chip.regs \subseteq chip'.regs
          /\ (c.name = "WriteRegister" => c.arg \subseteq chip'.regs)
      BY <2>2
    <2>4. c.name = "RFConfiguration"
          => (chip'.field <=> "on" \in c.arg \/ (chip.field /\ ~("off" \in c.arg)))
      BY <2>2
    <2>5. ~(c.name = "RFConfiguration") => chip'.field = chip.field
      BY <2>2
    <2>6. Pushes(g) /\ Replies(c, g)
      BY <1>6, <1>7, <1>8 DEF Pushes
    <2>7. c.name = "PowerDown" => chip'.power = "lowvbat"
      BY <2>2
    <2>8. c.name \in Prompt \ {"PowerDown"} => chip'.power = chip.power
      BY <2>2
    <2>9. chip'.running.name = Idling /\ ~chip'.running.old /\ chip'.running.t = "cmd"
      BY <1>10, <2>2
    <2>10. Answers
      BY <1>1, <1>4, <1>7, <1>9, <2>1, <2>3, <2>4, <2>5, <2>6, <2>7, <2>8, <2>9, Zenon
         DEF Answers
    <2>11. QED BY <1>11, <2>10
  <1>13. CASE Hearing
    <2>1. c.name \in Waiting
      BY <1>1, <1>13 DEF Hearing
    <2>2. chip'.running = Cold.running /\ chip'.power = "on" /\ chip'.regs = chip.regs
          /\ chip'.field = chip.field
      BY <1>1, <1>2, <1>13 DEF Hearing
    <2>3. ~(c.name \in Prompt)
          /\ ~(c.name \in {"WriteRegister", "PowerDown", "RFConfiguration"})
      BY <2>1 DEF Waiting, Prompt
    <2>4. Pushes(g) /\ Replies(c, g)
      BY <1>6, <1>7, <1>8 DEF Pushes
    <2>5. Answers
      BY <1>1, <1>4, <1>7, <1>9, <1>10, <2>1, <2>2, <2>3, <2>4, Zenon DEF Answers
    <2>6. QED BY <1>11, <2>5
  <1>14. QED BY <1>12, <1>13

\* The commands the host must not take for its own while the script is at (m, n): all of
\* them, but for those that an error or a drain has left behind.
Icily(m, n) ==
    /\ m # "failed_open"
    /\ \/ draining
       \/ m \in {"close", "close_target"}
       \/ m = "timed_out" /\ n <= 2
       \/ result # "ok" /\ m # "exchange"
Tracked(m, n, name) ==
    /\ m = "failed_open" => ~(name = "SAMConfiguration")
    /\ Icily(m, n) => name \in {"RFConfiguration", "PowerDown"}

\* No command that is left behind may be taken for one of the script.
Strict(m, n) == m # "failed_open" /\ ~Icily(m, n)

\* Commands are still to come.
Sending(m, n) ==
    ~(m = "none" \/ (m = "open" /\ n = 7)
        \/ (m \in {"failed_open", "close", "close_target"} /\ n <= 3))

\* What is on the line.
InTx == \E i \in 1 .. Len(tx) : tx[i].t = "cmd"
MineInTx == \E i \in 1 .. Len(tx) : tx[i].t = "cmd" /\ ~tx[i].old
MyAck == \E j \in 1 .. Len(rx) : rx[j].t = "ack" /\ ~rx[j].old
Acked == at = "ack" => MineInTx \/ MyAck
Woken == \E i \in 1 .. Len(tx) : tx[i].t = "wake"
Serene == Len(tx) = 0 /\ Len(rx) = 0 /\ chip.running.name = Idling

\* No command that is under way is taken for one of the script: before a command is sent,
DisciplineStep(m, n) == at = "step" /\ Sending(m, n) =>
    \A i \in 1 .. Len(tx) : tx[i].t = "cmd" => ~Tracked(m, n, tx[i].name)

\* while it is on its way,
DisciplineTx(m, n) == at # "step" =>
    \A i \in 1 .. Len(tx) : tx[i].t = "cmd" /\ tx[i].old => ~Tracked(m, n, tx[i].name)

\* while its ACK frame is waited for: the replies that came first keep it from being
\* misread,
DisciplineAck(m, n) == at = "ack" =>
    /\ chip.running.old /\ Tracked(m, n, chip.running.name) => Len(rx) = 0
    /\ \A i \in 1 .. Len(rx) : rx[i].old /\ Tracked(m, n, rx[i].name) => rx[1].t = "reply"

\* and while its reply is waited for.
DisciplineReply(m, n) == at = "reply" =>
    /\ chip.running.old => ~Tracked(m, n, chip.running.name)
    /\ \A i \in 1 .. Len(rx) : rx[i].old => ~Tracked(m, n, rx[i].name)
    /\ Strict(m, n) => \A i \in 1 .. Len(tx) : ~(tx[i].t = "cmd")
Discipline(m, n) ==
    DisciplineStep(m, n) /\ DisciplineTx(m, n) /\ DisciplineAck(m, n) /\ DisciplineReply(m, n)

\* What is on the line comes in order: an idle chip has nothing of the past,
OrderIdle == chip.running.name = Idling => ~chip.running.old

\* a register that was read is what the chip has,
OrderRead == \A i \in 1 .. Len(rx) : rx[i].t = "reply" /\ rx[i].name = "ReadRegister"
    => rx[i].arg \subseteq chip.regs

\* the command of the host is the last on its way,
OrderTx == at # "step" => \A i \in 1 .. Len(tx) : tx[i].t = "cmd" /\ ~tx[i].old =>
    /\ i = Len(tx) /\ tx[i].name = Head(todo).name /\ tx[i].arg = Head(todo).arg
    /\ chip.running.name = Idling \/ chip.running.old
    /\ \A j \in 1 .. Len(rx) : rx[j].old

\* or it runs, alone,
OrderRunning == at # "step" /\ ~(chip.running.name = Idling) /\ ~chip.running.old =>
    /\ Len(tx) = 0 /\ chip.running.name = Head(todo).name /\ chip.running.arg = Head(todo).arg
    /\ \A j \in 1 .. Len(rx) : rx[j].t = "reply" => rx[j].old

\* or it is answered, and done,
Answered ==
    /\ chip.running.name = Idling
    /\ Head(todo).name = "WriteRegister" => Head(todo).arg \subseteq chip.regs
    /\ Head(todo).name = "PowerDown" => chip.power = "lowvbat"
    /\ Head(todo).name = "TgInitAsTarget" => chip.power = "on"
    /\ Head(todo).name = "RFConfiguration" /\ Head(todo).arg = {"off"} => ~chip.field

\* which its reply says.
OrderRx == at # "step" => \A j \in 1 .. Len(rx) : ~rx[j].old =>
    /\ Len(tx) = 0
    /\ rx[j].t = "reply" => j = Len(rx) /\ rx[j].name = Head(todo).name /\ Answered
Order == OrderIdle /\ OrderRead /\ OrderTx /\ OrderRunning /\ OrderRx

\* The line as the chip's steps change it.
LEMMA PullLine ==
    ASSUME Types
    PROVE  Pulls => /\ tx \in Seq(Outgoing) /\ tx' \in Seq(Outgoing) /\ Len(tx) \in Nat
                       /\ Len(tx) >= 1 /\ Len(tx') = Len(tx) - 1
                    /\ Head(tx) = tx[1] /\ tx[1] \in Outgoing
                    /\ \A i \in 1 .. Len(tx') : tx'[i] = tx[i + 1] /\ i + 1 \in 1 .. Len(tx)
  <1>1. SUFFICES ASSUME Pulls
        PROVE  /\ tx \in Seq(Outgoing) /\ tx' \in Seq(Outgoing) /\ Len(tx) \in Nat
                  /\ Len(tx) >= 1 /\ Len(tx') = Len(tx) - 1
               /\ Head(tx) = tx[1] /\ tx[1] \in Outgoing
               /\ \A i \in 1 .. Len(tx') : tx'[i] = tx[i + 1] /\ i + 1 \in 1 .. Len(tx)
    OBVIOUS
  <1>2. tx \in Seq(Outgoing) /\ tx # <<>> /\ tx' = Tail(tx)
    BY <1>1 DEF Types, ChipTypes, Pulls
  <1>3. /\ Len(tx) \in Nat /\ Len(tx) >= 1 /\ Head(tx) = tx[1] /\ tx[1] \in Outgoing
        /\ tx' \in Seq(Outgoing) /\ Len(tx') = Len(tx) - 1
        /\ \A i \in 1 .. Len(tx) - 1 : tx'[i] = tx[i + 1]
    BY <1>2, Pulled
  <1>4. QED BY <1>2, <1>3

\* The line with one more frame.
LEMMA PushLine ==
    ASSUME Types, NEW f, Pushes(f)
    PROVE  /\ rx \in Seq(Incoming) /\ rx' \in Seq(Incoming) /\ Len(rx) \in Nat
              /\ Len(rx') = Len(rx) + 1
           /\ \A i \in 1 .. Len(rx') : (i \in 1 .. Len(rx) /\ rx'[i] = rx[i])
              \/ (i = Len(rx) + 1 /\ rx'[i] = f)
  <1>1. rx \in Seq(Incoming) /\ f \in Incoming /\ rx' = Append(rx, f)
    BY DEF Types, ChipTypes, Pushes
  <1>2. /\ Len(rx) \in Nat /\ rx' \in Seq(Incoming) /\ Len(rx') = Len(rx) + 1
        /\ \A i \in 1 .. Len(rx) : rx'[i] = rx[i]
        /\ rx'[Len(rx) + 1] = f
    BY <1>1, Pushed
  <1>3. QED BY <1>1, <1>2

\* Order survives each step of the chip.
LEMMA OrderTakesWake ==
    ASSUME Types, Order, HostStays
    PROVE  TakesWake \/ Drops => Order'
  <1>1. SUFFICES ASSUME TakesWake \/ Drops PROVE Order'
    OBVIOUS
  <1>2. /\ Len(tx) \in Nat /\ Len(tx) >= 1 /\ Len(tx') = Len(tx) - 1
        /\ \A i \in 1 .. Len(tx') : tx'[i] = tx[i + 1] /\ i + 1 \in 1 .. Len(tx)
    BY <1>1, PullLine DEF TakesWake, Drops
  <1>3. rx' = rx /\ chip'.running = chip.running /\ chip'.regs = chip.regs
        /\ UNCHANGED <<at, todo>>
    BY <1>1 DEF TakesWake, Drops, HostStays
  <1>4. OrderIdle' /\ OrderRead'
    BY <1>3 DEF Order, OrderIdle, OrderRead
  <1>5. OrderTx'
    BY <1>2, <1>3, SMTT(20) DEF Order, OrderTx
  <1>6. OrderRunning'
    BY <1>2, <1>3 DEF Order, OrderRunning
  <1>7. OrderRx'
    BY <1>2, <1>3 DEF Order, OrderRx
  <1>8. QED BY <1>4, <1>5, <1>6, <1>7 DEF Order

LEMMA OrderTakesAck ==
    ASSUME Types, Order, HostStays
    PROVE  TakesAck => Order'
  <1>1. SUFFICES ASSUME TakesAck PROVE Order'
    OBVIOUS
  <1>2. /\ Len(tx) \in Nat /\ Len(tx) >= 1 /\ Len(tx') = Len(tx) - 1
        /\ \A i \in 1 .. Len(tx') : tx'[i] = tx[i + 1] /\ i + 1 \in 1 .. Len(tx)
    BY <1>1, PullLine DEF TakesAck
  <1>3. rx' = rx /\ chip'.regs = chip.regs /\ UNCHANGED <<at, todo>>
        /\ (chip'.running = chip.running \/ (chip'.running.name = Idling /\ ~chip'.running.old))
    BY <1>1 DEF TakesAck, HostStays
  <1>4. OrderIdle' /\ OrderRead'
    BY <1>3 DEF Order, OrderIdle, OrderRead
  <1>5. chip.running.name = Idling \/ chip.running.old => chip'.running.name = Idling
        \/ chip'.running.old
    BY <1>3
  <1>6. OrderTx'
    <2>1. SUFFICES ASSUME at # "step", NEW i \in 1 .. Len(tx'), tx'[i].t = "cmd", ~tx'[i].old
          PROVE  /\ i = Len(tx') /\ tx'[i].name = Head(todo).name /\ tx'[i].arg = Head(todo).arg
                 /\ chip'.running.name = Idling \/ chip'.running.old
                 /\ \A j \in 1 .. Len(rx) : rx[j].old
      BY <1>3 DEF OrderTx
    <2>2. i + 1 \in 1 .. Len(tx) /\ tx'[i] = tx[i + 1]
      BY <1>2
    <2>3. QED BY <1>2, <1>5, <2>1, <2>2 DEF Order, OrderTx
  <1>7. OrderRunning'
    BY <1>2, <1>3 DEF Order, OrderRunning
  <1>8. OrderRx'
    BY <1>2, <1>3 DEF Order, OrderRx
  <1>9. QED BY <1>4, <1>6, <1>7, <1>8 DEF Order

LEMMA OrderTakesCmd ==
    ASSUME Types, Order, HostStays
    PROVE  TakesCmd => Order'
  <1>1. SUFFICES ASSUME TakesCmd PROVE Order'
    OBVIOUS
  <1>2. /\ Len(tx) \in Nat /\ Len(tx) >= 1 /\ Len(tx') = Len(tx) - 1 /\ Head(tx) = tx[1]
        /\ \A i \in 1 .. Len(tx') : tx'[i] = tx[i + 1] /\ i + 1 \in 1 .. Len(tx)
    BY <1>1, PullLine DEF TakesCmd
  <1>3. PICK f : f = tx[1]
    OBVIOUS
  <1>4. PICK g : Pushes(g) /\ Acknowledges(f, g)
    BY <1>1, <1>2, <1>3 DEF TakesCmd
  <1>5. /\ Len(rx) \in Nat /\ Len(rx') = Len(rx) + 1
        /\ \A i \in 1 .. Len(rx') : (i \in 1 .. Len(rx) /\ rx'[i] = rx[i])
           \/ (i = Len(rx) + 1 /\ rx'[i] = g)
    BY <1>4, PushLine
  <1>6. /\ f.t = "cmd" /\ chip'.running = f /\ chip'.regs = chip.regs /\ ~(f.name = Idling)
           /\ UNCHANGED <<at, todo>>
        /\ g.t = "ack" /\ g.old = f.old /\ g.name = f.name
    BY <1>1, <1>2, <1>3, <1>4 DEF TakesCmd, HostStays, Acknowledges
  <1>7. OrderIdle'
    BY <1>6 DEF OrderIdle
  <1>8. OrderRead'
    BY <1>5, <1>6 DEF Order, OrderRead
  <1>9. at # "step" /\ f.old => \A i \in 1 .. Len(rx') : ~rx'[i].old
        => rx'[i] \in {rx[j] : j \in 1 .. Len(rx)}
    BY <1>5, <1>6
  <1>10. at # "step"
         => (~f.old => Len(tx) = 1 /\ f.name = Head(todo).name /\ f.arg = Head(todo).arg
                                      /\ \A j \in 1 .. Len(rx) : rx[j].old)
    BY <1>2, <1>3, <1>6 DEF Order, OrderTx
  <1>11. at # "step" => \A j \in 1 .. Len(rx) : rx[j].old
    BY <1>2 DEF Order, OrderRx
  <1>12. OrderTx'
    <2>1. SUFFICES ASSUME at # "step", NEW i \in 1 .. Len(tx'), tx'[i].t = "cmd", ~tx'[i].old
          PROVE  /\ i = Len(tx') /\ tx'[i].name = Head(todo).name /\ tx'[i].arg = Head(todo).arg
                 /\ f.old /\ \A j \in 1 .. Len(rx') : rx'[j].old
      BY <1>6 DEF OrderTx
    <2>2. i + 1 \in 1 .. Len(tx) /\ tx'[i] = tx[i + 1]
      BY <1>2
    <2>3. i + 1 = Len(tx) /\ tx'[i].name = Head(todo).name /\ tx'[i].arg = Head(todo).arg
      BY <2>1, <2>2 DEF Order, OrderTx
    <2>4. f.old
      BY <1>2, <1>10, <2>1, <2>2
    <2>5. \A j \in 1 .. Len(rx') : rx'[j].old
      BY <1>5, <1>6, <1>11, <2>1, <2>4
    <2>6. i = Len(tx')
      BY <1>2, <2>3
    <2>7. QED BY <2>3, <2>4, <2>5, <2>6
  <1>13. OrderRunning'
    BY <1>2, <1>5, <1>6, <1>10, <1>11 DEF OrderRunning
  <1>14. OrderRx'
    BY <1>2, <1>5, <1>6, <1>10, <1>11 DEF OrderRx
  <1>15. QED BY <1>7, <1>8, <1>12, <1>13, <1>14 DEF Order

LEMMA OrderAnswers ==
    ASSUME Types, Order, HostStays
    PROVE  Answers => Order'
  <1>1. SUFFICES ASSUME Answers PROVE Order'
    OBVIOUS
  <1>2. PICK c : c = chip.running
    OBVIOUS
  <1>3. PICK g : Pushes(g) /\ Replies(c, g)
    BY <1>1, <1>2 DEF Answers
  <1>4. /\ Len(rx) \in Nat /\ Len(rx') = Len(rx) + 1
        /\ \A i \in 1 .. Len(rx') : (i \in 1 .. Len(rx) /\ rx'[i] = rx[i])
           \/ (i = Len(rx) + 1 /\ rx'[i] = g)
    BY <1>3, PushLine
  <1>5. /\ tx' = tx /\ ~(c.name = Idling) /\ chip'.running.name = Idling /\ ~chip'.running.old
           /\ UNCHANGED <<at, todo>>
        /\ g.t = "reply" /\ g.name = c.name /\ g.old = c.old
        /\ (c.name = "ReadRegister" => g.arg = chip.regs)
        /\ chip.regs \subseteq chip'.regs
    BY <1>1, <1>2, <1>3 DEF Answers, HostStays, Replies
  <1>6. OrderIdle'
    BY <1>5 DEF OrderIdle
  <1>7. OrderRead'
    BY <1>4, <1>5 DEF Order, OrderRead
  <1>8. OrderTx'
    BY <1>2, <1>4, <1>5 DEF Order, OrderTx
  <1>9. OrderRunning'
    BY <1>5 DEF OrderRunning
  <1>10. at # "step" /\ ~c.old => Len(tx) = 0 /\ c.name = Head(todo).name
         /\ c.arg = Head(todo).arg
    BY <1>2, <1>5 DEF Order, OrderRunning
  <1>11. at # "step" /\ ~c.old => Answered'
    <2>1. SUFFICES ASSUME at # "step", ~c.old PROVE Answered'
      OBVIOUS
    <2>2. PICK h : h = Head(todo)
      OBVIOUS
    <2>3. h.name = c.name /\ h.arg = c.arg /\ Head(todo') = h
      BY <1>5, <1>10, <2>1, <2>2
    <2>4. c.name = "TgInitAsTarget" => chip'.power = "on"
      BY <1>1, <1>2 DEF Answers, Waiting
    <2>5. c.name = "WriteRegister" => c.arg \subseteq chip'.regs
      BY <1>1, <1>2 DEF Answers
    <2>6. c.name = "PowerDown" => chip'.power = "lowvbat"
      BY <1>1, <1>2 DEF Answers
    <2>7. c.name = "RFConfiguration" /\ c.arg = {"off"} => ~chip'.field
      BY <1>1, <1>2 DEF Answers
    <2>8. QED BY <1>5, <2>3, <2>4, <2>5, <2>6, <2>7 DEF Answered
  <1>12. at # "step" => \A j \in 1 .. Len(rx) : rx[j].t = "reply" => rx[j].old
    BY <1>2, <1>5 DEF Order, OrderRx, Answered
  <1>13. OrderRx'
    BY <1>4, <1>5, <1>10, <1>11, <1>12 DEF Order, OrderRx
  <1>14. QED BY <1>6, <1>7, <1>8, <1>9, <1>13 DEF Order

\* The chip's steps leave the script where it is.
LEMMA TrackedStays ==
    ASSUME HostStays, NEW m, NEW n, NEW x
    PROVE  (Tracked(m, n, x)' <=> Tracked(m, n, x)) /\ (Strict(m, n)' <=> Strict(m, n))
  BY DEF HostStays, Tracked, Strict, Icily

\* Discipline survives each step of the chip.
LEMMA DisciplineTakes ==
    ASSUME Types, HostStays, NEW m, NEW n, Discipline(m, n)
    PROVE  TakesWake \/ TakesAck \/ Drops => Discipline(m, n)'
  <1>1. SUFFICES ASSUME TakesWake \/ TakesAck \/ Drops PROVE Discipline(m, n)'
    OBVIOUS
  <1>2. /\ Len(tx) \in Nat /\ Len(tx) >= 1 /\ Len(tx') = Len(tx) - 1
        /\ \A i \in 1 .. Len(tx') : tx'[i] = tx[i + 1] /\ i + 1 \in 1 .. Len(tx)
    BY <1>1, PullLine DEF TakesWake, TakesAck, Drops
  <1>3. rx' = rx /\ at' = at /\ (chip'.running = chip.running \/ ~chip'.running.old)
    BY <1>1 DEF TakesWake, TakesAck, Drops, HostStays
  <1>4. \A x : Tracked(m, n, x)' <=> Tracked(m, n, x)
    BY TrackedStays
  <1>5. DisciplineStep(m, n)'
    BY <1>2, <1>3, <1>4 DEF Discipline, DisciplineStep
  <1>6. DisciplineTx(m, n)'
    BY <1>2, <1>3, <1>4 DEF Discipline, DisciplineTx
  <1>7. DisciplineAck(m, n)'
    BY <1>2, <1>3, <1>4 DEF Discipline, DisciplineAck
  <1>8. DisciplineReply(m, n)'
    <2>1. Strict(m, n)' <=> Strict(m, n)
      BY TrackedStays
    <2>2. QED BY <1>2, <1>3, <1>4, <2>1 DEF Discipline, DisciplineReply
  <1>9. QED BY <1>5, <1>6, <1>7, <1>8 DEF Discipline

LEMMA DisciplineTakesCmd ==
    ASSUME Types, HostStays, NEW m, NEW n, Discipline(m, n)
    PROVE  TakesCmd => Discipline(m, n)'
  <1>1. SUFFICES ASSUME TakesCmd PROVE Discipline(m, n)'
    OBVIOUS
  <1>2. /\ Len(tx) \in Nat /\ Len(tx) >= 1 /\ Len(tx') = Len(tx) - 1 /\ Head(tx) = tx[1]
        /\ \A i \in 1 .. Len(tx') : tx'[i] = tx[i + 1] /\ i + 1 \in 1 .. Len(tx)
    BY <1>1, PullLine DEF TakesCmd
  <1>3. PICK f : f = tx[1]
    OBVIOUS
  <1>4. PICK g : Pushes(g) /\ Acknowledges(f, g)
    BY <1>1, <1>2, <1>3 DEF TakesCmd
  <1>5. /\ Len(rx) \in Nat /\ Len(rx') = Len(rx) + 1
        /\ \A i \in 1 .. Len(rx') : (i \in 1 .. Len(rx) /\ rx'[i] = rx[i])
           \/ (i = Len(rx) + 1 /\ rx'[i] = g)
    BY <1>4, PushLine
  <1>6. /\ f.t = "cmd" /\ chip'.running = f /\ at' = at /\ g.old = f.old /\ g.name = f.name
    BY <1>1, <1>2, <1>3, <1>4 DEF TakesCmd, HostStays, Acknowledges
  <1>7. \A x : Tracked(m, n, x)' <=> Tracked(m, n, x)
    BY TrackedStays
  <1>8. at # "step" /\ f.old => ~Tracked(m, n, f.name)
    BY <1>2, <1>3, <1>6 DEF Discipline, DisciplineTx
  <1>9. DisciplineStep(m, n)'
    BY <1>2, <1>6, <1>7 DEF Discipline, DisciplineStep
  <1>10. DisciplineTx(m, n)'
    BY <1>2, <1>6, <1>7 DEF Discipline, DisciplineTx
  <1>11. DisciplineAck(m, n)'
    <2>1. at = "ack" /\ f.old => ~Tracked(m, n, f.name)
      BY <1>8
    <2>2. at = "ack" => \A i \in 1 .. Len(rx') : rx'[i].old /\ Tracked(m, n, rx'[i].name)
          => rx'[1].t = "reply"
      <3>1. SUFFICES ASSUME at = "ack", NEW i \in 1 .. Len(rx'), rx'[i].old,
                            Tracked(m, n, rx'[i].name) PROVE rx'[1].t = "reply"
        OBVIOUS
      <3>2. i \in 1 .. Len(rx) /\ rx'[i] = rx[i]
        BY <1>5, <1>6, <2>1, <3>1
      <3>3. rx[1].t = "reply"
        BY <3>1, <3>2 DEF Discipline, DisciplineAck
      <3>4. rx'[1] = rx[1]
        BY <1>5, <3>2
      <3>5. QED BY <3>3, <3>4
    <2>3. QED BY <1>6, <1>7, <2>1, <2>2 DEF DisciplineAck
  <1>12. DisciplineReply(m, n)'
    <2>1. Strict(m, n)' <=> Strict(m, n)
      BY TrackedStays
    <2>2. QED BY <1>2, <1>5, <1>6, <1>7, <1>8, <2>1 DEF Discipline, DisciplineReply
  <1>13. QED BY <1>9, <1>10, <1>11, <1>12 DEF Discipline

LEMMA DisciplineAnswers ==
    ASSUME Types, HostStays, NEW m, NEW n, Discipline(m, n)
    PROVE  Answers => Discipline(m, n)'
  <1>1. SUFFICES ASSUME Answers PROVE Discipline(m, n)'
    OBVIOUS
  <1>2. PICK c : c = chip.running
    OBVIOUS
  <1>3. PICK g : Pushes(g) /\ Replies(c, g)
    BY <1>1, <1>2 DEF Answers
  <1>4. /\ Len(rx) \in Nat /\ Len(rx') = Len(rx) + 1
        /\ \A i \in 1 .. Len(rx') : (i \in 1 .. Len(rx) /\ rx'[i] = rx[i])
           \/ (i = Len(rx) + 1 /\ rx'[i] = g)
    BY <1>3, PushLine
  <1>5. /\ tx' = tx /\ ~chip'.running.old /\ at' = at /\ g.t = "reply" /\ g.name = c.name
           /\ g.old = c.old
    BY <1>1, <1>2, <1>3 DEF Answers, HostStays, Replies
  <1>6. \A x : Tracked(m, n, x)' <=> Tracked(m, n, x)
    BY TrackedStays
  <1>7. DisciplineStep(m, n)'
    BY <1>5, <1>6 DEF Discipline, DisciplineStep
  <1>8. DisciplineTx(m, n)'
    BY <1>5, <1>6 DEF Discipline, DisciplineTx
  <1>9. DisciplineAck(m, n)'
    <2>1. at = "ack" => \A i \in 1 .. Len(rx') : rx'[i].old /\ Tracked(m, n, rx'[i].name)
          => rx'[1].t = "reply"
      <3>1. SUFFICES ASSUME at = "ack", NEW i \in 1 .. Len(rx'), rx'[i].old,
                            Tracked(m, n, rx'[i].name) PROVE rx'[1].t = "reply"
        OBVIOUS
      <3>2. CASE i \in 1 .. Len(rx) /\ rx'[i] = rx[i]
        <4>1. rx[1].t = "reply"
          BY <3>1, <3>2 DEF Discipline, DisciplineAck
        <4>2. rx'[1] = rx[1]
          BY <1>4, <3>2
        <4>3. QED BY <4>1, <4>2
      <3>3. CASE rx'[i] = g /\ i = Len(rx) + 1
        <4>1. Len(rx) = 0
          BY <1>2, <1>5, <3>1, <3>3 DEF Discipline, DisciplineAck
        <4>2. QED BY <1>4, <1>5, <3>3, <4>1
      <3>4. QED BY <1>4, <3>2, <3>3
    <2>2. QED BY <1>5, <1>6, <2>1 DEF DisciplineAck
  <1>10. DisciplineReply(m, n)'
    <2>1. Strict(m, n)' <=> Strict(m, n)
      BY TrackedStays
    <2>2. QED BY <1>2, <1>4, <1>5, <1>6, <2>1 DEF Discipline, DisciplineReply
  <1>11. QED BY <1>7, <1>8, <1>9, <1>10 DEF Discipline

\* Both survive every step of the chip.
LEMMA OrderDisciplineChip ==
    ASSUME Types, HostStays, TakesWake \/ TakesAck \/ TakesCmd \/ Drops
           \/ Answers, NEW m, NEW n, Discipline(m, n), Order
    PROVE  Discipline(m, n)' /\ Order'
  BY OrderTakesWake, OrderTakesAck, OrderTakesCmd, OrderAnswers, DisciplineTakes,
     DisciplineTakesCmd, DisciplineAnswers

-----------------------------------------------------------------------------
\* What is settled, served, asleep, set and awake at a place.

\* Nothing is under way but what belongs to the command of the script.
WakingUp(m, n) == m = "open" /\ n = 5 /\ Len(todo) = 7
Settled(m, n) ==
    \/ m = "open" /\ n <= 5 /\ ~WakingUp(m, n)
    \/ m = "failed_open" /\ n \in 4 .. 6
    \/ m \in {"initiator_init", "exchange"} /\ result = "ok"
    \/ m = "poll" /\ (n = LastPoll \/ (n = 0 /\ result = "ok"))
    \/ m = "target_init" /\ (n >= 5 \/ (n <= 1 /\ result = "ok"))
    \/ m = "timed_out" /\ n \in {3, 4}
    \/ m \in {"receive", "send"} /\ result = "ok" /\ ~draining
    \/ m = "close" /\ n \in {3, 4}
    \/ m = "close_target" /\ n = 3

\* Nothing on the line is of the past.
Fresh ==
    /\ ~chip.running.old
    /\ \A i \in 1 .. Len(tx) : tx[i].t = "cmd" => ~tx[i].old
    /\ \A i \in 1 .. Len(rx) : ~rx[i].old

\* What is settled has an empty line before a command, and a fresh one behind it.
Clean(m, n) == Settled(m, n) => (at = "step" => Serene) /\ (at # "step" => Fresh)

\* A target that is activated has its commands only on the line, and is awake.
Served(m, n) == m \in {"receive", "send"} =>
    /\ chip.power = "on" /\ chip.running.name \in {"TgGetData", "TgSetData", Idling}
    /\ \A i \in 1 .. Len(tx) : tx[i].t = "cmd" => tx[i].name \in {"TgGetData", "TgSetData"}

\* The device is idle.
Asleep == at = "step" /\ pnd.power = "LOWVBAT" /\ chip.power = "lowvbat" /\ ~chip.field
    /\ Serene

\* Where the device is known to be asleep, or its field known to be off.
Idle(m, n) ==
    /\ pnd.oper = "IDLE" => Asleep
    /\ m \in {"close", "close_target", "timed_out"} /\ n = 3 => Asleep
    /\ m = "failed_open" /\ n = 4 => Asleep
    /\ (m = "close" /\ n = 4) \/ (m = "failed_open" /\ n = 5) => ~chip.field

\* A command that leaves the field off; a target's never turn it on.
Fieldless(f) == f.t = "cmd" => ~(f.name = "InJumpForDEP")
    /\ (f.name = "RFConfiguration" => ~("on" \in f.arg))
Target == role = "target" =>
    /\ ~chip.field /\ Fieldless(chip.running) /\ \A i \in 1 .. Len(tx) : Fieldless(tx[i])

\* The chip's steps leave it where it is.
LEMMA SettledStays ==
    ASSUME HostStays, NEW m, NEW n
    PROVE  (Settled(m, n)' <=> Settled(m, n)) /\ (WakingUp(m, n)' <=> WakingUp(m, n))
  BY DEF HostStays, Settled, WakingUp

\* The chip's steps do not disturb what is settled.
LEMMA CleanTakes ==
    ASSUME Types, HostStays, NEW m, NEW n, Clean(m, n)
    PROVE  TakesWake \/ TakesAck \/ TakesCmd \/ Drops => Clean(m, n)'
  <1>1. SUFFICES ASSUME TakesWake \/ TakesAck \/ TakesCmd \/ Drops, Settled(m, n)
        PROVE  (at' = "step" => Serene') /\ (at' # "step" => Fresh')
    BY SettledStays DEF Clean
  <1>2. /\ Len(tx) \in Nat /\ Len(tx) >= 1 /\ Len(tx') = Len(tx) - 1 /\ Head(tx) = tx[1]
        /\ \A i \in 1 .. Len(tx') : tx'[i] = tx[i + 1] /\ i + 1 \in 1 .. Len(tx)
    BY <1>1, PullLine DEF TakesWake, TakesAck, TakesCmd, Drops
  <1>3. at # "step"
    BY <1>1, <1>2 DEF Clean, Serene
  <1>4. Fresh /\ at' # "step"
    BY <1>1, <1>3 DEF Clean, HostStays
  <1>5. CASE TakesCmd
    <2>1. PICK f : f = tx[1]
      OBVIOUS
    <2>2. PICK g : Pushes(g) /\ Acknowledges(f, g)
      BY <1>2, <1>5, <2>1 DEF TakesCmd
    <2>3. \A i \in 1 .. Len(rx') : (i \in 1 .. Len(rx) /\ rx'[i] = rx[i])
          \/ (i = Len(rx) + 1 /\ rx'[i] = g)
      BY <2>2, PushLine
    <2>4. f.t = "cmd" /\ chip'.running = f /\ g.old = f.old
      BY <1>2, <1>5, <2>1, <2>2 DEF TakesCmd, Acknowledges
    <2>5. ~f.old
      BY <1>2, <1>4, <2>1, <2>4 DEF Fresh
    <2>6. Fresh'
      BY <1>2, <1>4, <2>3, <2>4, <2>5 DEF Fresh
    <2>7. QED BY <1>4, <2>6
  <1>6. CASE TakesWake \/ TakesAck \/ Drops
    <2>1. rx' = rx /\ (chip'.running = chip.running \/ ~chip'.running.old)
      BY <1>6 DEF TakesWake, TakesAck, Drops
    <2>2. Fresh'
      BY <1>2, <1>4, <2>1 DEF Fresh
    <2>3. QED BY <1>4, <2>2
  <1>7. QED BY <1>1, <1>5, <1>6

\* Nor do its answers.
LEMMA CleanAnswers ==
    ASSUME Types, HostStays, NEW m, NEW n, Clean(m, n)
    PROVE  Answers => Clean(m, n)'
  <1>1. SUFFICES ASSUME Answers, Settled(m, n)
        PROVE  (at' = "step" => Serene') /\ (at' # "step" => Fresh')
    BY SettledStays DEF Clean
  <1>2. at # "step"
    BY <1>1 DEF Clean, Serene, Answers
  <1>3. Fresh /\ at' # "step"
    BY <1>1, <1>2 DEF Clean, HostStays
  <1>4. PICK g : Pushes(g) /\ Replies(chip.running, g)
    BY <1>1 DEF Answers
  <1>5. \A i \in 1 .. Len(rx') : (i \in 1 .. Len(rx) /\ rx'[i] = rx[i])
        \/ (i = Len(rx) + 1 /\ rx'[i] = g)
    BY <1>4, PushLine
  <1>6. tx' = tx /\ ~chip'.running.old /\ ~g.old
    BY <1>1, <1>3, <1>4 DEF Answers, Replies, Fresh
  <1>7. Fresh'
    BY <1>3, <1>5, <1>6 DEF Fresh
  <1>8. QED BY <1>3, <1>7

\* The chip serves the target.
LEMMA ServedChip ==
    ASSUME Types, HostStays, TakesWake \/ TakesAck \/ TakesCmd \/ Drops
           \/ Answers, NEW m, NEW n, Served(m, n)
    PROVE  Served(m, n)'
  <1>1. SUFFICES ASSUME m \in {"receive", "send"}
        PROVE  /\ chip'.power = "on"
                  /\ chip'.running.name \in {"TgGetData", "TgSetData", Idling}
               /\ \A i \in 1 .. Len(tx') : tx'[i].t = "cmd"
                  => tx'[i].name \in {"TgGetData", "TgSetData"}
    BY DEF Served
  <1>2. /\ chip.power = "on" /\ chip.running.name \in {"TgGetData", "TgSetData", Idling}
        /\ \A i \in 1 .. Len(tx) : tx[i].t = "cmd" => tx[i].name \in {"TgGetData", "TgSetData"}
    BY <1>1 DEF Served
  <1>3. CASE Answers
    <2>1. chip.running.name \in Waiting
      BY <1>2, <1>3 DEF Answers, Waiting
    <2>2. QED BY <1>2, <1>3, <2>1 DEF Answers
  <1>4. CASE TakesWake \/ TakesAck \/ TakesCmd \/ Drops
    <2>1. /\ Len(tx) \in Nat /\ Len(tx) >= 1 /\ Len(tx') = Len(tx) - 1 /\ Head(tx) = tx[1]
          /\ \A i \in 1 .. Len(tx') : tx'[i] = tx[i + 1] /\ i + 1 \in 1 .. Len(tx)
      BY <1>4, PullLine DEF TakesWake, TakesAck, TakesCmd, Drops
    <2>2. \A i \in 1 .. Len(tx') : tx'[i].t = "cmd"
          => tx'[i].name \in {"TgGetData", "TgSetData"}
      BY <1>2, <2>1
    <2>3. chip'.power = "on" /\ chip'.running.name \in {"TgGetData", "TgSetData", Idling}
      <3>1. CASE TakesCmd
        <4>1. tx[1].t = "cmd" /\ tx[1].name \in {"TgGetData", "TgSetData"}
          BY <1>2, <2>1, <3>1 DEF TakesCmd
        <4>2. QED BY <2>1, <3>1, <4>1 DEF TakesCmd
      <3>2. CASE TakesWake
        BY <1>2, <3>2 DEF TakesWake
      <3>3. CASE TakesAck
        BY <1>2, <3>3 DEF TakesAck
      <3>4. CASE Drops
        BY <1>2, <3>4 DEF Drops
      <3>5. QED BY <1>4, <3>1, <3>2, <3>3, <3>4
    <2>4. QED BY <2>2, <2>3
  <1>5. QED BY <1>3, <1>4

\* A target has no field.
LEMMA TargetChip ==
    ASSUME Types, HostStays, TakesWake \/ TakesAck \/ TakesCmd \/ Drops \/ Answers, Target
    PROVE  Target'
  <1>1. SUFFICES ASSUME role = "target"
        PROVE  ~chip'.field /\ Fieldless(chip'.running)
               /\ \A i \in 1 .. Len(tx') : Fieldless(tx'[i])
    BY DEF Target, HostStays, Fieldless
  <1>2. ~chip.field /\ Fieldless(chip.running) /\ \A i \in 1 .. Len(tx) : Fieldless(tx[i])
    BY <1>1 DEF Target
  <1>3. CASE Answers
    <2>1. chip.running.t = "cmd"
      BY DEF Types, ChipTypes, RunningFrame
    <2>2. ~chip'.field
      BY <1>2, <1>3, <2>1 DEF Answers, Fieldless
    <2>3. QED BY <1>2, <1>3, <2>2 DEF Answers, Fieldless, Idling
  <1>4. CASE TakesWake \/ TakesAck \/ TakesCmd \/ Drops
    <2>1. /\ Len(tx) \in Nat /\ Len(tx) >= 1 /\ Len(tx') = Len(tx) - 1 /\ Head(tx) = tx[1]
          /\ \A i \in 1 .. Len(tx') : tx'[i] = tx[i + 1] /\ i + 1 \in 1 .. Len(tx)
      BY <1>4, PullLine DEF TakesWake, TakesAck, TakesCmd, Drops
    <2>2. \A i \in 1 .. Len(tx') : Fieldless(tx'[i])
      BY <1>2, <2>1
    <2>3. ~chip'.field /\ Fieldless(chip'.running)
      <3>1. CASE TakesCmd
        <4>1. tx[1].t = "cmd" /\ Fieldless(tx[1])
          BY <1>2, <2>1, <3>1 DEF TakesCmd
        <4>2. QED BY <1>2, <2>1, <3>1, <4>1 DEF TakesCmd, Fieldless
      <3>2. CASE TakesWake
        BY <1>2, <3>2 DEF TakesWake
      <3>3. CASE TakesAck
        BY <1>2, <3>3 DEF TakesAck, Fieldless, Idling
      <3>4. CASE Drops
        BY <1>2, <3>4 DEF Drops
      <3>5. QED BY <1>4, <3>1, <3>2, <3>3, <3>4
    <2>4. QED BY <2>2, <2>3
  <1>5. QED BY <1>3, <1>4

\* The chip stays asleep.
LEMMA IdleChip ==
    ASSUME Types, HostStays, TakesWake \/ TakesAck \/ TakesCmd \/ Drops \/ Answers,
           NEW m, NEW n, Placed(m, n), Clean(m, n), Order, Idle(m, n)
    PROVE  Idle(m, n)'
  <1>1. ~Serene
    <2>1. Pulls => Len(tx) >= 1
      BY PullLine
    <2>2. QED BY <2>1 DEF Serene, TakesWake, TakesAck, TakesCmd, Drops, Answers
  <1>2. ~Asleep
    BY <1>1 DEF Asleep
  <1>3. ~(pnd.oper = "IDLE" \/ (m \in {"close", "close_target", "timed_out"} /\ n = 3)
        \/ (m = "failed_open" /\ n = 4))
    BY <1>2 DEF Idle
  <1>4. SUFFICES ASSUME (m = "close" /\ n = 4) \/ (m = "failed_open" /\ n = 5)
                        PROVE ~chip'.field
    BY <1>3 DEF Idle, HostStays
  <1>5. ~chip.field /\ Settled(m, n)
    BY <1>4 DEF Idle, Settled
  <1>6. Fresh /\ at # "step" /\ HostTypes /\ todo # <<>>
    BY <1>1, <1>5 DEF Clean, Types, HostTypes
  <1>7. Head(todo).name = "PowerDown"
    <2>1. Where(m, n) /\ Head(todo).op \in {"cmd", "frame"}
      BY <1>6 DEF Placed, Control
    <2>2. PICK l, h : l \in Nat /\ l = Len(todo) /\ h = Head(todo) /\ Issues(m, n, l, h)
      BY <1>6, <2>1, Commanding, WhereParts
    <2>3. QED BY <1>4, <2>2 DEF Issues
  <1>8. CASE TakesCmd
    <2>1. /\ Len(tx) \in Nat /\ Len(tx) >= 1 /\ Head(tx) = tx[1]
      BY <1>8, PullLine DEF TakesCmd
    <2>2. tx[1].t = "cmd" /\ ~tx[1].old
      BY <1>6, <1>8, <2>1 DEF TakesCmd, Fresh
    <2>3. tx[1].name = "PowerDown"
      BY <1>6, <1>7, <2>1, <2>2 DEF Order, OrderTx
    <2>4. QED BY <1>5, <1>8, <2>1, <2>3 DEF TakesCmd
  <1>9. CASE Answers
    <2>1. chip.running.name = "PowerDown"
      BY <1>6, <1>7, <1>9 DEF Answers, Order, OrderRunning, Fresh
    <2>2. QED BY <1>5, <1>9, <2>1 DEF Answers
  <1>10. CASE TakesWake \/ TakesAck \/ Drops
    BY <1>5, <1>10 DEF TakesWake, TakesAck, Drops
  <1>11. QED BY <1>8, <1>9, <1>10

\* The settings the chip has or is about to be given.
Reset == {"txbits", "crypto", "parity"} \cup Crc

\* The settings of the framing.
Framing == {"noerror", "multiple"}

\* A field is being written, or the registers are read or written next.
Writing(x) == todo # <<>> /\ Head(todo).op = "cmd" /\ Head(todo).name = "WriteRegister"
    /\ x \in Head(todo).arg
Asking == todo # <<>>
    /\ (Head(todo).op = "write" \/ (Head(todo).op = "cmd" /\ Head(todo).name = "ReadRegister"))

\* Fields that the chip has or is about to be given, and fields that it has.
Holds(F) == \A x \in F : x \in chip.regs \/ x \in pnd.pending \/ Writing(x)
Has(F) == F \subseteq chip.regs

\* Which fields are set at (m, n).
Settings(m, n) == m \in {"open", "initiator_init", "poll", "target_init"} /\ result = "ok" =>
    /\ pnd.crc => Holds(Crc)
    /\ pnd.par => Holds({"parity"})
    /\ ~(pnd.pending = {}) => pnd.trigged \/ Asking \/ (m = "target_init" /\ n = 4)
       \/ (m = "poll" /\ ~(n = LastPoll))
    /\ m = "initiator_init" /\ n <= 3 => Holds(Iso14443a) /\ Holds(Framing)
    /\ m = "initiator_init" /\ n <= 2 => Holds(Reset)
    /\ m = "initiator_init" /\ n <= 1 => Holds({"initiator"})
    /\ m = "poll" /\ n = LastPoll => Holds(Iso14443a) /\ Holds(Framing) /\ Holds(Reset)
       /\ Holds({"initiator"})
    /\ m = "poll" /\ ~(n = LastPoll) => Has(Iso14443a) /\ Has(Framing) /\ Has(Reset)
       /\ Has({"initiator"})
    /\ m = "target_init" /\ n <= 12 => Holds(Framing)
    /\ m = "target_init" /\ n <= 11 => Holds(Reset)
    /\ m = "target_init" /\ n <= 9 => Has(Framing) /\ Has(Reset)
    /\ m = "target_init" /\ n <= 3 => Holds({"rfon"})

\* A command that needs settings has them.
Sent(f) == f.t = "cmd" /\ ~f.old =>
    /\ f.name = "InJumpForDEP" => Needed("InJumpForDEP") \subseteq chip.regs
    /\ f.name = "TgInitAsTarget" => Needed("TgInitAsTarget") \subseteq chip.regs
AllSent == Sent(chip.running) /\ \A i \in 1 .. Len(tx) : Sent(tx[i])

\* Registers are not unset.
LEMMA RegsGrow ==
    ASSUME Types, TakesWake \/ TakesAck \/ TakesCmd \/ Drops \/ Answers
    PROVE  chip.regs \subseteq chip'.regs
  BY DEF TakesWake, TakesAck, TakesCmd, Drops, Answers

\* The chip's steps keep the settings.
LEMMA SettingsChip ==
    ASSUME Types, HostStays, TakesWake \/ TakesAck \/ TakesCmd \/ Drops
           \/ Answers, NEW m, NEW n, Settings(m, n)
    PROVE  Settings(m, n)'
  <1>1. chip.regs \subseteq chip'.regs
    BY RegsGrow
  <1>2. \A F : Holds(F) => Holds(F)'
    BY <1>1 DEF Holds, Writing, HostStays
  <1>3. \A F : Has(F) => Has(F)'
    BY <1>1 DEF Has
  <1>4. QED BY <1>2, <1>3 DEF Settings, Asking, HostStays

\* And the commands that need them.
LEMMA AllSentChip ==
    ASSUME Types, TakesWake \/ TakesAck \/ TakesCmd \/ Drops \/ Answers, AllSent
    PROVE  AllSent'
  <1>1. chip.regs \subseteq chip'.regs
    BY RegsGrow
  <1>2. \A f : Sent(f) => Sent(f)'
    BY <1>1 DEF Sent
  <1>3. CASE Answers
    <2>1. Sent(chip'.running)
      BY <1>3 DEF Answers, Sent, Idling
    <2>2. QED BY <1>2, <1>3, <2>1 DEF AllSent, Answers
  <1>4. CASE TakesWake \/ TakesAck \/ TakesCmd \/ Drops
    <2>1. /\ Len(tx) \in Nat /\ Len(tx) >= 1 /\ Len(tx') = Len(tx) - 1 /\ Head(tx) = tx[1]
          /\ \A i \in 1 .. Len(tx') : tx'[i] = tx[i + 1] /\ i + 1 \in 1 .. Len(tx)
      BY <1>4, PullLine DEF TakesWake, TakesAck, TakesCmd, Drops
    <2>2. \A i \in 1 .. Len(tx') : Sent(tx'[i])
      BY <2>1 DEF AllSent
    <2>3. chip'.running = chip.running \/ chip'.running = tx[1] \/ chip'.running.name = Idling
      BY <1>4, <2>1 DEF TakesWake, TakesAck, TakesCmd, Drops
    <2>4. Sent(tx[1]) /\ Sent(chip.running)
      BY <2>1 DEF AllSent
    <2>5. Sent(chip'.running)
      BY <2>3, <2>4 DEF Sent, Idling
    <2>6. QED BY <1>2, <2>2, <2>5 DEF AllSent
  <1>5. QED BY <1>3, <1>4

\* What the chip has to be for the command of the script to reach it.
Awake(m, n) ==
    \/ m \in {"initiator_init", "poll", "deselect", "target_init"} /\ result = "ok"
    \/ m = "exchange"
    \/ m = "open" /\ n <= 5 /\ ~WakingUp(m, n)
    \/ m = "failed_open" /\ n >= 5
    \/ m = "timed_out" /\ n >= 4

\* A chip that is put to sleep is the host's doing,
PowerDownMine == chip.running.name = "PowerDown" => at # "step" /\ ~chip.running.old
    /\ Head(todo).name = "PowerDown"

\* it is awake before a command,
PowerStep == at = "step"
    => chip.power = "on" \/ (chip.power = "down" /\ pnd.power = "POWERDOWN")

\* while one is on its way or taken,
PowerAck(m) == at = "ack" =>
    /\ InTx => chip.power = "on" \/ (chip.power = "down" /\ Woken /\ m # "failed_open")
    /\ ~InTx => \/ chip.power = "on"
                \/ chip.power = "down" /\ Head(todo).name = "TgInitAsTarget"
                \/ Head(todo).name = "PowerDown"

\* and while it is answered.
PowerReply == at = "reply" =>
    \/ chip.power = "on"
    \/ chip.power = "down" /\ pnd.power = "POWERDOWN"
    \/ Head(todo).name = "PowerDown"

\* The chip is awake where it has to be.
Power(m, n) == Awake(m, n) => Acked /\ PowerDownMine /\ PowerStep /\ PowerAck(m) /\ PowerReply

\* The wake-up is before SAMConfiguration on the line, or has woken the chip.
WakingStep == at = "step" => (Len(tx) = 0 /\ chip.power \in {"halfway", "on"})
    \/ (Len(tx) = 1 /\ tx[1].t = "wake")

\* SAMConfiguration finds the chip halfway awake at least.
WakingAck == at = "ack" =>
    /\ ~(Len(rx) = 0) => chip.power = "on"
    /\ MineInTx => (Len(tx) = 1 /\ chip.power \in {"halfway", "on"})
       \/ (Len(tx) = 2 /\ tx[1].t = "wake")

\* open, up to its first command.
Waking(m, n) ==
    /\ m = "open" /\ n = 6 => Len(tx) = 0 /\ ~(chip.running.name \in Prompt)
    /\ WakingUp(m, n) =>
        /\ ~(chip.running.name \in Prompt \ {"SAMConfiguration"})
        /\ chip.running.name = "SAMConfiguration" => ~chip.running.old /\ at # "step"
        /\ Acked /\ WakingStep /\ WakingAck
        /\ at = "reply" => chip.power = "on"

\* Where the chip is awake, every command counts, but for the SAMConfiguration that failed.
LEMMA AwakeTracked ==
    ASSUME HostTypes, NEW m, NEW n, Placed(m, n), Awake(m, n), NEW x, ~Tracked(m, n, x)
    PROVE  m = "failed_open" /\ x = "SAMConfiguration"
  <1>1. n \in Nat
    BY WhereParts DEF Placed
  <1>2. n >= 4 => result = "ok"
    <2>1. n >= 4 => Len(todo) > 0
      BY <1>1, WhereParts DEF Placed
    <2>2. QED BY <2>1 DEF Placed, Control
  <1>3. QED BY <1>1, <1>2 DEF Placed, Control, Awake, Tracked, Icily

\* The script is strict there.
LEMMA AwakeStrict ==
    ASSUME HostTypes, NEW m, NEW n, Placed(m, n), Awake(m, n), m # "failed_open"
    PROVE  Strict(m, n)
  <1>1. n \in Nat
    BY WhereParts DEF Placed
  <1>2. n >= 4 => result = "ok"
    <2>1. n >= 4 => Len(todo) > 0
      BY <1>1, WhereParts DEF Placed
    <2>2. QED BY <2>1 DEF Placed, Control
  <1>3. QED BY <1>1, <1>2 DEF Placed, Control, Awake, Strict, Icily

\* Commands are to come there.
LEMMA AwakeSending ==
    ASSUME HostTypes, NEW m, NEW n, Placed(m, n), Awake(m, n)
    PROVE  Sending(m, n)
  <1>1. n \in Nat
    BY WhereParts DEF Placed
  <1>2. QED BY <1>1 DEF Placed, Control, Awake, Sending

\* The chip's steps leave the script there.
LEMMA AwakeStays ==
    ASSUME HostStays, NEW m, NEW n
    PROVE  Awake(m, n)' <=> Awake(m, n)
  <1>1. WakingUp(m, n)' <=> WakingUp(m, n)
    BY SettledStays
  <1>2. QED BY <1>1 DEF HostStays, Awake

\* Power survives each step of the chip.
LEMMA PowerTakes ==
    ASSUME Types, HostStays, NEW m, NEW n, Placed(m, n), Discipline(m, n), Order, Power(m, n),
           Awake(m, n)
    PROVE  TakesWake \/ TakesAck =>
             Acked' /\ PowerDownMine' /\ PowerStep' /\ PowerAck(m)' /\ PowerReply'
  <1>1. SUFFICES ASSUME TakesWake \/ TakesAck
        PROVE  Acked' /\ PowerDownMine' /\ PowerStep' /\ PowerAck(m)' /\ PowerReply'
    OBVIOUS
  <1>2. /\ Len(tx) \in Nat /\ Len(tx) >= 1 /\ Len(tx') = Len(tx) - 1 /\ Head(tx) = tx[1]
        /\ \A i \in 1 .. Len(tx') : tx'[i] = tx[i + 1] /\ i + 1 \in 1 .. Len(tx)
    BY <1>1, PullLine DEF TakesWake, TakesAck
  <1>3. /\ ~(tx[1].t = "cmd") /\ rx' = rx
           /\ (chip'.running = chip.running \/ chip'.running.name = Idling)
        /\ (tx[1].t = "wake" \/ chip'.power = chip.power)
           /\ (chip.power = "on" => chip'.power = "on")
        /\ (tx[1].t = "wake" /\ chip.power = "down" => chip'.power = "on")
        /\ chip.power \in {"lowvbat", "halfway", "down", "on"}
        /\ UNCHANGED <<at, todo, pnd>>
    BY <1>1, <1>2 DEF TakesWake, TakesAck, HostStays, Types, ChipTypes
  <1>4. Acked /\ PowerDownMine /\ PowerStep /\ PowerAck(m) /\ PowerReply
    BY DEF Power
  <1>5. \A i \in 2 .. Len(tx) : i - 1 \in 1 .. Len(tx') /\ tx'[i - 1] = tx[i]
    BY <1>2
  <1>6. (MineInTx => MineInTx') /\ (MyAck => MyAck') /\ (InTx <=> InTx')
    <2>1. MineInTx => MineInTx'
      BY <1>2, <1>3, <1>5 DEF MineInTx
    <2>2. MyAck => MyAck'
      BY <1>3 DEF MyAck
    <2>3. InTx => InTx'
      BY <1>2, <1>3, <1>5 DEF InTx
    <2>4. InTx' => InTx
      BY <1>2 DEF InTx
    <2>5. QED BY <2>1, <2>2, <2>3, <2>4
  <1>7. Woken => Woken' \/ tx[1].t = "wake"
    BY <1>2, <1>5 DEF Woken
  <1>8. Acked'
    BY <1>3, <1>4, <1>6 DEF Acked
  <1>9. PowerDownMine'
    BY <1>3, <1>4 DEF PowerDownMine, Idling
  <1>10. PowerStep'
    BY <1>3, <1>4 DEF PowerStep
  <1>11. PowerAck(m)'
    BY <1>3, <1>4, <1>6, <1>7 DEF PowerAck
  <1>12. PowerReply'
    BY <1>3, <1>4 DEF PowerReply
  <1>13. QED BY <1>8, <1>9, <1>10, <1>11, <1>12

LEMMA PowerDrops ==
    ASSUME Types, HostStays, NEW m, NEW n, Placed(m, n), Discipline(m, n), Order, Power(m, n),
           Awake(m, n)
    PROVE  Drops => Acked' /\ PowerDownMine' /\ PowerStep' /\ PowerAck(m)' /\ PowerReply'
  <1>1. SUFFICES ASSUME Drops
        PROVE  Acked' /\ PowerDownMine' /\ PowerStep' /\ PowerAck(m)' /\ PowerReply'
    OBVIOUS
  <1>2. /\ Len(tx) \in Nat /\ Len(tx) >= 1 /\ Head(tx) = tx[1]
    BY <1>1, PullLine DEF Drops
  <1>3. /\ tx[1].t = "cmd" /\ UNCHANGED <<at, todo, pnd>> /\ chip'.running = chip.running
           /\ chip'.power = chip.power
        /\ ~(chip.power = "on")
    BY <1>1, <1>2 DEF Drops, HostStays, Hears
  <1>4. Acked /\ PowerDownMine /\ PowerStep /\ PowerAck(m) /\ PowerReply
    BY DEF Power
  <1>5. ~(at = "ack")
    <2>1. SUFFICES ASSUME at = "ack" PROVE FALSE
      OBVIOUS
    <2>2. InTx
      BY <1>2, <1>3 DEF InTx
    <2>3. Woken /\ m # "failed_open"
      BY <1>3, <1>4, <2>1, <2>2 DEF PowerAck
    <2>4. ~tx[1].old
      BY <1>2, <1>3, <2>1, <2>3, AwakeTracked DEF Types, Discipline, DisciplineTx
    <2>5. Len(tx) = 1
      <3>1. 1 \in 1 .. Len(tx) /\ at # "step"
        BY <1>2, <2>1
      <3>2. QED BY <1>3, <2>4, <3>1 DEF Order, OrderTx
    <2>6. QED BY <1>3, <2>3, <2>5 DEF Woken
  <1>6. Acked' /\ PowerAck(m)'
    BY <1>3, <1>5 DEF Acked, PowerAck
  <1>7. PowerDownMine' /\ PowerStep' /\ PowerReply'
    BY <1>3, <1>4 DEF PowerDownMine, PowerStep, PowerReply
  <1>8. QED BY <1>6, <1>7

LEMMA PowerTakesCmd ==
    ASSUME Types, HostStays, NEW m, NEW n, Placed(m, n), Discipline(m, n), Order, Power(m, n),
           Awake(m, n)
    PROVE  TakesCmd => Acked' /\ PowerDownMine' /\ PowerStep' /\ PowerAck(m)' /\ PowerReply'
  <1>1. SUFFICES ASSUME TakesCmd
        PROVE  Acked' /\ PowerDownMine' /\ PowerStep' /\ PowerAck(m)' /\ PowerReply'
    OBVIOUS
  <1>2. /\ Len(tx) \in Nat /\ Len(tx) >= 1 /\ Len(tx') = Len(tx) - 1 /\ Head(tx) = tx[1]
        /\ \A i \in 1 .. Len(tx') : tx'[i] = tx[i + 1] /\ i + 1 \in 1 .. Len(tx)
    BY <1>1, PullLine DEF TakesCmd
  <1>3. PICK f : f = tx[1]
    OBVIOUS
  <1>4. PICK g : Pushes(g) /\ Acknowledges(f, g)
    BY <1>1, <1>2, <1>3 DEF TakesCmd
  <1>5. /\ Len(rx) \in Nat /\ Len(rx') = Len(rx) + 1 /\ rx'[Len(rx) + 1] = g
        /\ \A i \in 1 .. Len(rx) : rx'[i] = rx[i]
    BY <1>4, PushLine
  <1>6. /\ f.t = "cmd" /\ chip'.running = f /\ UNCHANGED <<at, todo, pnd>> /\ g.old = f.old
           /\ g.t = "ack"
        /\ (f.name = "TgInitAsTarget" => chip'.power = "down")
           /\ (~(f.name = "TgInitAsTarget") => chip'.power = "on")
    BY <1>1, <1>2, <1>3, <1>4 DEF TakesCmd, HostStays, Acknowledges
  <1>7. Acked /\ PowerDownMine /\ PowerStep /\ PowerAck(m) /\ PowerReply
    BY DEF Power
  <1>8. at # "step" /\ f.old => m = "failed_open" /\ f.name = "SAMConfiguration"
    BY <1>2, <1>3, <1>6, AwakeTracked DEF Types, Discipline, DisciplineTx
  <1>9. at = "step" => m = "failed_open" /\ f.name = "SAMConfiguration"
    <2>1. Sending(m, n)
      BY AwakeSending DEF Types
    <2>2. QED BY <1>2, <1>3, <1>6, <2>1, AwakeTracked DEF Types, Discipline, DisciplineStep
  <1>10. at # "step" /\ ~f.old => Len(tx) = 1 /\ f.name = Head(todo).name
    BY <1>2, <1>3, <1>6 DEF Order, OrderTx
  <1>11. Acked'
    <2>1. SUFFICES ASSUME at = "ack" PROVE MineInTx' \/ MyAck'
      BY <1>6 DEF Acked
    <2>2. CASE ~f.old
      BY <1>5, <1>6, <2>2 DEF MyAck
    <2>3. CASE f.old /\ MyAck
      BY <1>5, <2>3 DEF MyAck
    <2>4. CASE f.old /\ MineInTx
      <3>1. PICK i \in 1 .. Len(tx) : tx[i].t = "cmd" /\ ~tx[i].old
        BY <2>4 DEF MineInTx
      <3>2. ~(i = 1)
        BY <1>3, <2>4, <3>1
      <3>3. i - 1 \in 1 .. Len(tx') /\ tx'[i - 1] = tx[i]
        BY <1>2, <3>1, <3>2
      <3>4. QED BY <3>1, <3>3 DEF MineInTx
    <2>5. QED BY <1>7, <2>1, <2>2, <2>3, <2>4 DEF Acked
  <1>12. PowerDownMine'
    BY <1>6, <1>8, <1>9, <1>10 DEF PowerDownMine
  <1>13. PowerStep'
    BY <1>6, <1>9 DEF PowerStep
  <1>14. PowerAck(m)'
    <2>1. SUFFICES ASSUME at = "ack", f.name = "TgInitAsTarget" PROVE ~InTx'
                          /\ Head(todo).name = "TgInitAsTarget"
      BY <1>6 DEF PowerAck
    <2>2. Len(tx) = 1 /\ Head(todo).name = "TgInitAsTarget"
      BY <1>8, <1>10, <2>1
    <2>3. QED BY <1>2, <2>2 DEF InTx
  <1>15. PowerReply'
    <2>1. SUFFICES ASSUME at = "reply", f.name = "TgInitAsTarget" PROVE FALSE
      BY <1>6 DEF PowerReply
    <2>2. Head(todo).name = "TgInitAsTarget"
      BY <1>8, <1>10, <2>1
    <2>3. ~Strict(m, n)
      BY <1>2, <1>3, <1>6, <2>1 DEF Discipline, DisciplineReply
    <2>4. m = "failed_open"
      BY <2>3, AwakeStrict DEF Types
    <2>5. Where(m, n) /\ HostTypes /\ todo # <<>> /\ Head(todo).op \in {"cmd", "frame"}
      BY <2>1 DEF Types, HostTypes, Placed, Control
    <2>6. PICK l, h : l \in Nat /\ l = Len(todo) /\ h = Head(todo) /\ Issues(m, n, l, h)
      BY <2>5, Commanding, WhereParts
    <2>7. QED BY <2>2, <2>4, <2>6 DEF Issues
  <1>16. QED BY <1>11, <1>12, <1>13, <1>14, <1>15

LEMMA PowerAnswers ==
    ASSUME Types, HostStays, NEW m, NEW n, Placed(m, n), Discipline(m, n), Order, Power(m, n),
           Awake(m, n)
    PROVE  Answers => Acked' /\ PowerDownMine' /\ PowerStep' /\ PowerAck(m)' /\ PowerReply'
  <1>1. SUFFICES ASSUME Answers
        PROVE  Acked' /\ PowerDownMine' /\ PowerStep' /\ PowerAck(m)' /\ PowerReply'
    OBVIOUS
  <1>2. PICK c : c = chip.running
    OBVIOUS
  <1>3. PICK g : Pushes(g) /\ Replies(c, g)
    BY <1>1, <1>2 DEF Answers
  <1>4. /\ Len(rx) \in Nat /\ Len(rx') = Len(rx) + 1 /\ \A i \in 1 .. Len(rx) : rx'[i] = rx[i]
    BY <1>3, PushLine
  <1>5. tx' = tx /\ chip'.running.name = Idling /\ UNCHANGED <<at, todo, pnd>>
        /\ (c.name = "PowerDown" \/ chip'.power = chip.power \/ chip'.power = "on")
           /\ ~(c.name = Idling)
    BY <1>1, <1>2 DEF Answers, HostStays, Commands
  <1>6. Acked /\ PowerDownMine /\ PowerStep /\ PowerAck(m) /\ PowerReply
    BY DEF Power
  <1>7. Acked'
    BY <1>4, <1>5, <1>6 DEF Acked, MineInTx, MyAck
  <1>8. PowerDownMine'
    BY <1>5 DEF PowerDownMine, Idling
  <1>9. PowerStep'
    BY <1>2, <1>5, <1>6 DEF PowerStep, PowerDownMine
  <1>10. PowerAck(m)'
    <2>1. (InTx' <=> InTx) /\ (Woken' <=> Woken)
      BY <1>5 DEF InTx, Woken
    <2>2. at = "ack" /\ c.name = "PowerDown" => ~InTx /\ Head(todo).name = "PowerDown"
      BY <1>2, <1>5, <1>6 DEF PowerDownMine, Order, OrderRunning, InTx
    <2>3. QED BY <1>5, <1>6, <2>1, <2>2 DEF PowerAck
  <1>11. PowerReply'
    BY <1>2, <1>5, <1>6 DEF PowerReply, PowerDownMine
  <1>12. QED BY <1>7, <1>8, <1>9, <1>10, <1>11

\* And all of them.
LEMMA PowerChip ==
    ASSUME Types, HostStays, TakesWake \/ TakesAck \/ TakesCmd \/ Drops \/ Answers,
           NEW m, NEW n, Placed(m, n), Discipline(m, n), Order, Power(m, n)
    PROVE  Power(m, n)'
  <1>1. SUFFICES ASSUME Awake(m, n)
        PROVE  Acked' /\ PowerDownMine' /\ PowerStep' /\ PowerAck(m)' /\ PowerReply'
    BY AwakeStays DEF Power
  <1>2. QED BY <1>1, PowerTakes, PowerDrops, PowerTakesCmd, PowerAnswers

\* SAMConfiguration is waking the chip up.
Rising ==
    /\ ~(chip.running.name \in Prompt \ {"SAMConfiguration"})
    /\ chip.running.name = "SAMConfiguration" => ~chip.running.old /\ at # "step"
    /\ Acked /\ WakingStep /\ WakingAck
    /\ at = "reply" => chip.power = "on"

\* The script is strict while the chip wakes up.
LEMMA WakingStrict ==
    ASSUME NEW m, NEW n, Placed(m, n), WakingUp(m, n)
    PROVE  /\ Strict(m, n) /\ Sending(m, n) /\ \A x : Tracked(m, n, x)
           /\ HostTypes /\ at # "step" => Head(todo).name = "SAMConfiguration"
  <1>1. m = "open" /\ n = 5 /\ ~draining /\ result = "ok"
    BY DEF Placed, Control, WakingUp
  <1>2. Strict(m, n) /\ Sending(m, n) /\ \A x : Tracked(m, n, x)
    BY <1>1 DEF Strict, Sending, Tracked, Icily
  <1>3. HostTypes /\ at # "step" => Head(todo).name = "SAMConfiguration"
    <2>1. SUFFICES ASSUME HostTypes, at # "step" PROVE Head(todo).name = "SAMConfiguration"
      OBVIOUS
    <2>2. todo # <<>> /\ Where(m, n) /\ Head(todo).op \in {"cmd", "frame"}
      BY <2>1 DEF HostTypes, Placed, Control
    <2>3. PICK l, h : l \in Nat /\ l = Len(todo) /\ h = Head(todo) /\ Issues(m, n, l, h)
      BY <2>1, <2>2, Commanding, WhereParts
    <2>4. l = 7
      BY <2>3 DEF WakingUp
    <2>5. QED BY <1>1, <2>3, <2>4 DEF Issues
  <1>4. QED BY <1>2, <1>3

\* Waking up survives each step of the chip.
LEMMA RisingTakesCmd ==
    ASSUME Types, HostStays, NEW m, NEW n, Placed(m, n), Discipline(m, n), Order,
           WakingUp(m, n), Rising
    PROVE  TakesCmd => Rising'
  <1>1. SUFFICES ASSUME TakesCmd PROVE Rising'
    OBVIOUS
  <1>2. /\ Len(tx) \in Nat /\ Len(tx) >= 1 /\ Len(tx') = Len(tx) - 1 /\ Head(tx) = tx[1]
        /\ \A i \in 1 .. Len(tx') : tx'[i] = tx[i + 1] /\ i + 1 \in 1 .. Len(tx)
    BY <1>1, PullLine DEF TakesCmd
  <1>3. PICK f : f = tx[1]
    OBVIOUS
  <1>4. PICK g : Pushes(g) /\ Acknowledges(f, g)
    BY <1>1, <1>2, <1>3 DEF TakesCmd
  <1>5. /\ Len(rx) \in Nat /\ Len(rx') = Len(rx) + 1 /\ rx'[Len(rx) + 1] = g
    BY <1>4, PushLine
  <1>6. /\ f.t = "cmd" /\ chip'.running = f /\ UNCHANGED <<at, todo>> /\ g.old = f.old
           /\ g.t = "ack"
        /\ (~(f.name = "TgInitAsTarget") => chip'.power = "on")
    BY <1>1, <1>2, <1>3, <1>4 DEF TakesCmd, HostStays, Acknowledges
  <1>7. Strict(m, n) /\ Sending(m, n) /\ \A x : Tracked(m, n, x)
    BY WakingStrict
  <1>8. at # "step" => Head(todo).name = "SAMConfiguration"
    BY WakingStrict DEF Types
  <1>9. at = "ack"
    <2>1. at # "step"
      BY <1>2, <1>3, <1>6, <1>7 DEF Discipline, DisciplineStep
    <2>2. ~(at = "reply")
      BY <1>2, <1>3, <1>6, <1>7 DEF Discipline, DisciplineReply
    <2>3. QED BY <2>1, <2>2 DEF Types, HostTypes
  <1>10. ~f.old
    BY <1>2, <1>3, <1>6, <1>7, <1>9 DEF Discipline, DisciplineTx
  <1>11. Len(tx) = 1 /\ f.name = "SAMConfiguration"
    <2>1. 1 \in 1 .. Len(tx) /\ at # "step"
      BY <1>2, <1>9
    <2>2. QED BY <1>3, <1>6, <1>8, <1>10, <2>1 DEF Order, OrderTx
  <1>12. ~MineInTx'
    BY <1>2, <1>11 DEF MineInTx
  <1>13. MyAck'
    BY <1>5, <1>6, <1>10 DEF MyAck
  <1>14. chip'.power = "on"
    BY <1>6, <1>11
  <1>15. QED BY <1>6, <1>9, <1>10, <1>11, <1>12, <1>13, <1>14
            DEF Rising, Acked, WakingStep, WakingAck

LEMMA RisingTakes ==
    ASSUME Types, HostStays, NEW m, NEW n, Placed(m, n), Discipline(m, n), Order,
           WakingUp(m, n), Rising
    PROVE  TakesWake \/ TakesAck \/ Drops => Rising'
  <1>1. SUFFICES ASSUME TakesWake \/ TakesAck \/ Drops PROVE Rising'
    OBVIOUS
  <1>2. /\ Len(tx) \in Nat /\ Len(tx) >= 1 /\ Len(tx') = Len(tx) - 1 /\ Head(tx) = tx[1]
        /\ \A i \in 1 .. Len(tx') : tx'[i] = tx[i + 1] /\ i + 1 \in 1 .. Len(tx)
    BY <1>1, PullLine DEF TakesWake, TakesAck, Drops
  <1>3. /\ rx' = rx /\ (chip'.running = chip.running \/ chip'.running.name = Idling)
           /\ UNCHANGED <<at, todo>>
        /\ (chip.power = "on" => chip'.power = "on")
        /\ (chip.power = "halfway" => chip'.power \in {"halfway", "on"})
        /\ (tx[1].t = "wake" => chip'.power \in {"halfway", "on"})
        /\ (tx[1].t = "cmd" => ~Hears(tx[1].name))
    BY <1>1, <1>2 DEF TakesWake, TakesAck, Drops, HostStays, Types, ChipTypes
  <1>4. Acked /\ WakingStep /\ WakingAck
    BY DEF Rising
  <1>5. Strict(m, n) /\ Sending(m, n) /\ \A x : Tracked(m, n, x)
    BY WakingStrict
  <1>6. WakingStep'
    BY <1>2, <1>3, <1>4 DEF WakingStep
  <1>7. MyAck <=> MyAck'
    BY <1>3 DEF MyAck
  <1>8. at = "ack" /\ MineInTx => tx[1].t = "wake" /\ Len(tx) = 2
    <2>1. SUFFICES ASSUME at = "ack", MineInTx PROVE tx[1].t = "wake" /\ Len(tx) = 2
      OBVIOUS
    <2>2. PICK i \in 1 .. Len(tx) : tx[i].t = "cmd" /\ ~tx[i].old
      BY <2>1 DEF MineInTx
    <2>3. i = Len(tx) /\ tx[i].name = Head(todo).name
      BY <2>1, <2>2 DEF Order, OrderTx
    <2>4. Head(todo).name = "SAMConfiguration"
      BY <2>1, WakingStrict DEF Types
    <2>5. ~(Len(tx) = 1)
      <3>1. SUFFICES ASSUME Len(tx) = 1 PROVE FALSE
        OBVIOUS
      <3>2. chip.power \in {"halfway", "on"}
        BY <1>4, <2>1, <3>1 DEF WakingAck
      <3>3. Hears("SAMConfiguration")
        BY <3>2 DEF Hears
      <3>4. QED BY <1>3, <2>2, <2>3, <2>4, <3>1, <3>3
    <2>6. QED BY <1>4, <2>1, <2>5 DEF WakingAck
  <1>9. at = "ack" /\ MineInTx => MineInTx' /\ Len(tx') = 1 /\ chip'.power \in {"halfway", "on"}
    <2>1. SUFFICES ASSUME at = "ack", MineInTx PROVE MineInTx' /\ Len(tx') = 1
                          /\ chip'.power \in {"halfway", "on"}
      OBVIOUS
    <2>2. PICK i \in 1 .. Len(tx) : tx[i].t = "cmd" /\ ~tx[i].old
      BY <2>1 DEF MineInTx
    <2>3. tx[1].t = "wake" /\ Len(tx) = 2
      BY <1>8, <2>1
    <2>4. i = 2 /\ 1 \in 1 .. Len(tx') /\ tx'[1] = tx[2]
      BY <1>2, <2>2, <2>3
    <2>5. QED BY <1>2, <1>3, <2>2, <2>3, <2>4 DEF MineInTx
  <1>10. MineInTx' => MineInTx
    BY <1>2 DEF MineInTx
  <1>11. Acked' /\ WakingAck'
    BY <1>3, <1>4, <1>7, <1>9, <1>10 DEF Acked, WakingAck
  <1>12. QED BY <1>3, <1>6, <1>11 DEF Rising, Idling, Prompt

LEMMA RisingAnswers ==
    ASSUME Types, HostStays, NEW m, NEW n, Placed(m, n), Discipline(m, n), Order,
           WakingUp(m, n), Rising
    PROVE  Answers => Rising'
  <1>1. SUFFICES ASSUME Answers PROVE Rising'
    OBVIOUS
  <1>2. PICK c : c = chip.running
    OBVIOUS
  <1>3. PICK g : Pushes(g) /\ Replies(c, g)
    BY <1>1, <1>2 DEF Answers
  <1>4. /\ Len(rx) \in Nat /\ Len(rx') = Len(rx) + 1 /\ \A i \in 1 .. Len(rx) : rx'[i] = rx[i]
    BY <1>3, PushLine
  <1>5. tx' = tx /\ chip'.running.name = Idling /\ UNCHANGED <<at, todo>>
        /\ (c.name = "PowerDown" \/ chip'.power = chip.power \/ chip'.power = "on")
           /\ ~(c.name = Idling)
        /\ (c.name \in Waiting => chip'.power = "on") /\ c.name \in Commands
    BY <1>1, <1>2 DEF Answers, HostStays, Commands
  <1>6. Acked /\ WakingStep /\ WakingAck /\ ~(c.name = "PowerDown")
        /\ (c.name \in Waiting \/ c.name = "SAMConfiguration")
    BY <1>2, <1>5 DEF Rising, Commands, Prompt
  <1>7. Acked' /\ (MineInTx' <=> MineInTx)
    BY <1>4, <1>5, <1>6 DEF Acked, MineInTx, MyAck
  <1>8. at = "ack" => chip'.power = "on"
    <2>1. SUFFICES ASSUME at = "ack", c.name = "SAMConfiguration" PROVE chip'.power = "on"
      BY <1>5, <1>6
    <2>2. ~chip.running.old
      BY <1>2, <2>1 DEF Rising
    <2>3. Len(tx) = 0
      BY <1>2, <1>5, <2>1, <2>2 DEF Order, OrderRunning
    <2>4. MyAck
      BY <1>6, <2>1, <2>3 DEF Acked, MineInTx
    <2>5. Len(rx) >= 1
      BY <1>4, <2>4 DEF MyAck
    <2>6. chip.power = "on"
      BY <1>6, <2>1, <2>5 DEF WakingAck
    <2>7. QED BY <1>5, <2>6, <1>6
  <1>9. WakingAck'
    <2>1. at = "ack" /\ MineInTx => (Len(tx) = 1 /\ chip.power \in {"halfway", "on"})
          \/ (Len(tx) = 2 /\ tx[1].t = "wake")
      BY <1>6 DEF WakingAck
    <2>2. QED BY <1>5, <1>7, <1>8, <2>1 DEF WakingAck
  <1>10. at = "step" => c.name \in Waiting
    BY <1>2, <1>6 DEF Rising
  <1>11. WakingStep'
    BY <1>5, <1>6, <1>10 DEF WakingStep
  <1>12. at = "reply" => chip'.power = "on"
    BY <1>5, <1>6 DEF Rising
  <1>13. QED BY <1>5, <1>7, <1>9, <1>11, <1>12 DEF Rising, Idling, Prompt

\* And all of them.
LEMMA WakingChip ==
    ASSUME Types, HostStays, TakesWake \/ TakesAck \/ TakesCmd \/ Drops \/ Answers,
           NEW m, NEW n, Placed(m, n), Discipline(m, n), Order, Waking(m, n)
    PROVE  Waking(m, n)'
  <1>1. m = "open" /\ n = 6 => Len(tx') = 0 /\ ~(chip'.running.name \in Prompt)
    <2>1. SUFFICES ASSUME m = "open" /\ n = 6 PROVE Len(tx') = 0
                          /\ ~(chip'.running.name \in Prompt)
      OBVIOUS
    <2>2. Len(tx) = 0
      BY <2>1 DEF Waking
    <2>3. ~Pulls
      BY <2>2, PullLine
    <2>4. Answers
      BY <2>3 DEF TakesWake, TakesAck, TakesCmd, Drops
    <2>5. QED BY <2>2, <2>4 DEF Answers, Idling, Prompt
  <1>2. WakingUp(m, n) => Rising'
    <2>1. SUFFICES ASSUME WakingUp(m, n) PROVE Rising'
      OBVIOUS
    <2>2. Rising
      BY <2>1 DEF Waking, Rising
    <2>3. QED BY <2>1, <2>2, RisingTakes, RisingTakesCmd, RisingAnswers
  <1>3. WakingUp(m, n)' <=> WakingUp(m, n)
    BY SettledStays
  <1>4. QED BY <1>1, <1>2, <1>3 DEF Waking, Rising

-----------------------------------------------------------------------------
\* The steps of the host that send nothing and take nothing.

\* The steps of the host that leave the chip and the line alone.
Own(m, n) ==
    \/ m = "open" /\ n \in {1, 2, 5}
    \/ m = "failed_open" /\ n \in 2 .. 4
    \/ m = "initiator_init" /\ n \in 1 .. 5
    \/ m = "poll" /\ n \in 2 .. LastPoll - 1
    \/ m = "deselect" /\ n = 2
    \/ m = "target_init" /\ n \in 1 .. 13 /\ ~(n = 2) /\ ~(n = 10)
    \/ m \in {"timed_out", "close", "close_target"} /\ n \in 1 .. 3

\* How these steps move the script.
Goes(m, n, m2, n2) ==
    \/ m2 = m /\ n2 = n - 1 /\ Own(m, n) /\ Len(todo) = n /\ UNCHANGED <<result, draining>>
    \/ Raised(m, n, m2, n2) /\ result' # "ok" /\ draining' = draining
    \/ m2 = m /\ n2 = n /\ m \in Caching /\ n >= 1 /\ UNCHANGED <<result, draining>>
    \/ m2 = "none"
    \/ n = 0 /\ result' = "ok" /\ draining' = draining /\ Follows(m, m2, n2)
    \/ n = 0 /\ result' = "ok" /\ draining' /\ Drains(m, m2, n2)
    \/ m = "none" /\ m2 = "open" /\ n2 = 7

\* Nothing is sent and nothing is taken.
Still == at' = "step" /\ UNCHANGED <<chip, tx, rx, role>>

\* What counted still counts, and no more.
LEMMA TrackedGoes ==
    ASSUME HostTypes, NEW m, NEW n, Placed(m, n), NEW m2, NEW n2, Goes(m, n, m2, n2), NEW x
    PROVE  Sending(m2, n2)' => Sending(m, n) /\ (Tracked(m2, n2, x)' => Tracked(m, n, x))
  <1>1. n \in Nat
    BY WhereParts DEF Placed
  <1>2. draining => m \in {"receive", "send", "close", "close_target"}
    BY DEF Placed, Control
  <1>3. CASE m2 = m /\ n2 = n - 1 /\ Own(m, n) /\ UNCHANGED <<result, draining>>
    BY <1>1, <1>3 DEF Own, Sending, Tracked, Icily
  <1>4. CASE Raised(m, n, m2, n2) /\ result' # "ok" /\ draining' = draining
    BY <1>1, <1>4 DEF Raised, Sending, Tracked, Icily
  <1>5. CASE m2 = m /\ n2 = n /\ UNCHANGED <<result, draining>>
    BY <1>1, <1>5 DEF Sending, Tracked, Icily
  <1>6. CASE m2 = "none" \/ (m2 = "open" /\ n2 = 7)
    BY <1>6 DEF Sending
  <1>7. CASE n = 0 /\ result' = "ok" /\ draining' = draining /\ Follows(m, m2, n2)
    BY <1>1, <1>2, <1>7 DEF Follows, Begins, Sending, Tracked, Icily
  <1>8. CASE n = 0 /\ result' = "ok" /\ draining' /\ Drains(m, m2, n2)
    BY <1>1, <1>2, <1>8 DEF Drains, Sending, Tracked, Icily
  <1>9. QED BY <1>3, <1>4, <1>5, <1>6, <1>7, <1>8 DEF Goes

\* What is settled was settled.
LEMMA SettledGoes ==
    ASSUME HostTypes, NEW m, NEW n, Placed(m, n), NEW m2, NEW n2, Goes(m, n, m2, n2)
    PROVE  Settled(m2, n2)' => Settled(m, n) \/ (m2 = "close" /\ n2 = 3 /\ pnd.oper = "IDLE")
  <1>1. n \in Nat /\ LastPoll \in Nat /\ LastPoll >= 2
    BY WhereParts, BoundAssumption DEF Placed, LastPoll
  <1>2. CASE m2 = m /\ n2 = n - 1 /\ Own(m, n) /\ Len(todo) = n
             /\ UNCHANGED <<result, draining>>
    BY <1>1, <1>2 DEF Own, Settled, WakingUp
  <1>3. CASE Raised(m, n, m2, n2) /\ result' # "ok" /\ draining' = draining
    BY <1>1, <1>3 DEF Raised, Settled, WakingUp
  <1>4. CASE m2 = m /\ n2 = n /\ m \in Caching /\ UNCHANGED <<result, draining>>
    BY <1>1, <1>4 DEF Settled, WakingUp, Caching
  <1>5. CASE m2 = "none" \/ (m2 = "open" /\ n2 = 7)
    BY <1>5 DEF Settled
  <1>6. CASE n = 0 /\ result' = "ok" /\ draining' = draining /\ Follows(m, m2, n2)
    BY <1>1, <1>6 DEF Follows, Begins, Settled, WakingUp, Placed, Control
  <1>7. CASE n = 0 /\ result' = "ok" /\ draining' /\ Drains(m, m2, n2)
    BY <1>1, <1>7 DEF Drains, Settled
  <1>8. QED BY <1>2, <1>3, <1>4, <1>5, <1>6, <1>7 DEF Goes

\* Who is awake was awake.
LEMMA AwakeGoes ==
    ASSUME HostTypes, NEW m, NEW n, Placed(m, n), NEW m2, NEW n2, Goes(m, n, m2, n2)
    PROVE  Awake(m2, n2)' => Awake(m, n)
  <1>1. n \in Nat
    BY WhereParts DEF Placed
  <1>2. CASE m2 = m /\ n2 = n - 1 /\ Own(m, n) /\ Len(todo) = n
             /\ UNCHANGED <<result, draining>>
    BY <1>1, <1>2 DEF Own, Awake, WakingUp
  <1>3. CASE Raised(m, n, m2, n2) /\ result' # "ok" /\ draining' = draining
    BY <1>1, <1>3 DEF Raised, Awake, WakingUp
  <1>4. CASE m2 = m /\ n2 = n /\ m \in Caching /\ UNCHANGED <<result, draining>>
    BY <1>1, <1>4 DEF Awake, WakingUp, Caching
  <1>5. CASE m2 = "none" \/ (m2 = "open" /\ n2 = 7)
    BY <1>5 DEF Awake
  <1>6. CASE n = 0 /\ result' = "ok" /\ draining' = draining /\ Follows(m, m2, n2)
    BY <1>1, <1>6 DEF Follows, Begins, Awake, WakingUp, Placed, Control
  <1>7. CASE n = 0 /\ result' = "ok" /\ draining' /\ Drains(m, m2, n2)
    BY <1>1, <1>7 DEF Drains, Awake
  <1>8. QED BY <1>2, <1>3, <1>4, <1>5, <1>6, <1>7 DEF Goes

\* Where the other parts of the invariant come from.
LEMMA OtherGoes ==
    ASSUME HostTypes, NEW m, NEW n, Placed(m, n), NEW m2, NEW n2, Goes(m, n, m2, n2)
    PROVE  /\ m2 \in {"receive", "send"} =>
                m \in {"receive", "send"} \/ (m = "target_init" /\ n = 0 /\ result = "ok")
           /\ m2 \in {"close", "close_target", "timed_out"} /\ n2 = 3
              => m2 = "close" /\ pnd.oper = "IDLE"
           /\ ~(m2 = "failed_open" /\ n2 \in {4, 5}) /\ ~(m2 = "close" /\ n2 = 4)
              /\ ~(m2 = "open" /\ n2 = 6)
  <1>1. n \in Nat
    BY WhereParts DEF Placed
  <1>2. CASE m2 = m /\ n2 = n - 1 /\ Own(m, n) /\ Len(todo) = n
             /\ UNCHANGED <<result, draining>>
    BY <1>1, <1>2 DEF Own
  <1>3. CASE Raised(m, n, m2, n2) /\ result' # "ok" /\ draining' = draining
    BY <1>1, <1>3 DEF Raised
  <1>4. CASE m2 = m /\ n2 = n /\ m \in Caching /\ UNCHANGED <<result, draining>>
    BY <1>1, <1>4 DEF Caching
  <1>5. CASE m2 = "none" \/ (m2 = "open" /\ n2 = 7)
    BY <1>5
  <1>6. CASE n = 0 /\ result' = "ok" /\ draining' = draining /\ Follows(m, m2, n2)
    BY <1>1, <1>6 DEF Follows, Begins
  <1>7. CASE n = 0 /\ result' = "ok" /\ draining' /\ Drains(m, m2, n2)
    BY <1>1, <1>7 DEF Drains
  <1>8. QED BY <1>2, <1>3, <1>4, <1>5, <1>6, <1>7 DEF Goes

\* None of these steps is the wake-up.
LEMMA WakingUpGoes ==
    ASSUME HostTypes, NEW m, NEW n, Placed(m, n), NEW m2, NEW n2, Goes(m, n, m2, n2)
    PROVE  ~WakingUp(m2, n2)'
  <1>1. n \in Nat
    BY WhereParts DEF Placed
  <1>2. ~(m2 = "open" /\ n2 = 5)
    BY <1>1 DEF Goes, Own, Raised, Follows, Begins, Drains, Caching
  <1>3. QED BY <1>2 DEF WakingUp

\* Each part of the invariant survives these steps.
LEMMA DisciplineStill ==
    ASSUME HostTypes, NEW m, NEW n, Placed(m, n), NEW m2, NEW n2, Goes(m, n, m2, n2), Still,
           at = "step" \/ m2 = "none", Discipline(m, n), Order
    PROVE  Discipline(m2, n2)' /\ Order'
  <1>1. Sending(m2, n2)' => \A i \in 1 .. Len(tx) : tx[i].t = "cmd"
        => ~(Tracked(m2, n2, tx[i].name)')
    <2>1. SUFFICES ASSUME Sending(m2, n2)', NEW i \in 1 .. Len(tx),
                          tx[i].t = "cmd" PROVE ~(Tracked(m2, n2, tx[i].name)')
      OBVIOUS
    <2>2. PICK x : x = tx[i].name
      OBVIOUS
    <2>3. Sending(m, n) /\ (Tracked(m2, n2, x)' => Tracked(m, n, x))
      BY <2>1, TrackedGoes
    <2>4. at = "step"
      BY <2>1 DEF Sending
    <2>5. ~Tracked(m, n, x)
      BY <2>1, <2>2, <2>3, <2>4 DEF Discipline, DisciplineStep
    <2>6. tx' = tx
      BY DEF Still
    <2>7. QED BY <2>2, <2>3, <2>5, <2>6 DEF Tracked, Icily
  <1>2. DisciplineStep(m2, n2)'
    BY <1>1 DEF DisciplineStep, Still, Tracked, Icily
  <1>3. DisciplineTx(m2, n2)' /\ DisciplineAck(m2, n2)' /\ DisciplineReply(m2, n2)'
    BY DEF DisciplineTx, DisciplineAck, DisciplineReply, Still
  <1>4. Order'
    BY DEF Still, Order, OrderIdle, OrderRead, OrderTx, OrderRunning, OrderRx
  <1>5. QED BY <1>2, <1>3, <1>4 DEF Discipline

\* What the host knows of the chip's power stays true.
Knows(m, n, m2, n2) ==
    /\ \/ pnd'.power = pnd.power
       \/ m2 = "none"
       \/ m2 \in {"failed_open", "close", "close_target"} /\ n2 <= 1
    /\ pnd'.oper = "IDLE" =>
         /\ pnd'.power = pnd.power
         /\ \/ pnd.oper = "IDLE"
            \/ m \in {"timed_out", "close", "close_target"} /\ n = 3
            \/ m = "failed_open" /\ n = 4

LEMMA CleanStill ==
    ASSUME HostTypes, NEW m, NEW n, Placed(m, n), NEW m2, NEW n2, Goes(m, n, m2, n2), Still,
           at = "step" \/ m2 = "none", Clean(m, n), Idle(m, n)
    PROVE  Clean(m2, n2)'
  <1>1. SUFFICES ASSUME Settled(m2, n2)' PROVE Serene'
    BY DEF Clean, Still
  <1>2. at = "step"
    BY <1>1 DEF Settled
  <1>3. Serene
    BY <1>1, <1>2, SettledGoes DEF Clean, Idle, Asleep
  <1>4. QED BY <1>3 DEF Serene, Still

LEMMA PowerStill ==
    ASSUME HostTypes, NEW m, NEW n, Placed(m, n), NEW m2, NEW n2 \in Nat, Goes(m, n, m2, n2),
           Still, Knows(m, n, m2, n2),
           at = "step" \/ m2 = "none", Power(m, n)
    PROVE  Power(m2, n2)' /\ Waking(m2, n2)'
  <1>1. SUFFICES ASSUME Awake(m2, n2)' PROVE Power(m2, n2)'
    <2>1. Waking(m2, n2)'
      BY OtherGoes, WakingUpGoes DEF Waking
    <2>2. QED BY <2>1, <1>1 DEF Power
  <1>2. Awake(m, n) /\ at = "step"
    BY <1>1, AwakeGoes DEF Awake
  <1>3. pnd'.power = pnd.power
    BY <1>1 DEF Knows, Awake
  <1>4. PowerDownMine /\ PowerStep
    BY <1>2 DEF Power
  <1>5. Acked' /\ PowerAck(m2)' /\ PowerReply'
    BY DEF Still, Acked, PowerAck, PowerReply
  <1>6. PowerDownMine' /\ PowerStep'
    BY <1>2, <1>3, <1>4 DEF Still, PowerDownMine, PowerStep
  <1>7. QED BY <1>5, <1>6 DEF Power

LEMMA ServedStill ==
    ASSUME HostTypes, NEW m, NEW n, Placed(m, n), NEW m2, NEW n2, Goes(m, n, m2, n2), Still,
           at = "step" \/ m2 = "none", Clean(m, n), Power(m, n), Served(m, n)
    PROVE  Served(m2, n2)'
  <1>1. SUFFICES ASSUME m2 \in {"receive", "send"}
        PROVE  /\ chip.power = "on" /\ chip.running.name \in {"TgGetData", "TgSetData", Idling}
               /\ \A i \in 1 .. Len(tx) : tx[i].t = "cmd"
                  => tx[i].name \in {"TgGetData", "TgSetData"}
    BY DEF Served, Still
  <1>2. CASE m \in {"receive", "send"}
    BY <1>2 DEF Served
  <1>3. CASE m = "target_init" /\ n = 0 /\ result = "ok"
    <2>1. Serene
      BY <1>1, <1>3 DEF Clean, Settled
    <2>2. PowerStep
      BY <1>3 DEF Power, Awake
    <2>3. pnd.power # "POWERDOWN"
      BY <1>1, <1>3 DEF Placed, PowerMode
    <2>4. chip.power = "on"
      BY <1>1, <2>2, <2>3 DEF PowerStep
    <2>5. QED BY <2>1, <2>4 DEF Serene
  <1>4. QED BY <1>1, <1>2, <1>3, OtherGoes

LEMMA IdleStill ==
    ASSUME HostTypes, NEW m, NEW n, Placed(m, n), NEW m2, NEW n2, Goes(m, n, m2, n2), Still,
           Knows(m, n, m2, n2),
           at = "step" \/ m2 = "none", Idle(m, n)
    PROVE  Idle(m2, n2)'
  <1>1. Asleep /\ pnd'.power = pnd.power => Asleep'
    BY DEF Still, Asleep, Serene
  <1>2. pnd'.oper = "IDLE" => Asleep'
    BY <1>1 DEF Knows, Idle
  <1>3. m2 = "close" /\ n2 = 3 /\ pnd.oper = "IDLE" => Asleep'
    BY <1>1 DEF Knows, Idle
  <1>4. QED BY <1>2, <1>3, OtherGoes DEF Idle

LEMMA SentStill ==
    ASSUME Still, Target, AllSent
    PROVE  Target' /\ AllSent'
  BY DEF Still, Target, AllSent, Sent

\* uart_flush_input, and the wake-up before the first command.
LEMMA AfterFlush ==
    ASSUME Types, NEW m, NEW n, Placed(m, n), FlushInput, Order, Target, AllSent,
           Discipline(m, n)
    PROVE  /\ Discipline("open", 6)' /\ Order' /\ Clean("open", 6)' /\ Power("open", 6)'
              /\ Waking("open", 6)'
           /\ Served("open", 6)' /\ Idle("open", 6)' /\ Target' /\ AllSent'
  <1>1. /\ at = "step" /\ at' = "step" /\ rx' = <<>> /\ tx = <<>>
           /\ ~(chip.running.name \in Prompt)
        /\ UNCHANGED <<role, chip, tx, pnd>>
    BY DEF FlushInput, Ready, Quiet, Keep
  <1>2. Len(tx) = 0 /\ Len(tx') = 0 /\ Len(rx') = 0
    BY <1>1
  <1>3. Discipline("open", 6)' /\ Order'
    BY <1>1, <1>2 DEF Discipline, DisciplineStep, DisciplineTx, DisciplineAck, DisciplineReply,
       Order, OrderIdle,
       OrderRead, OrderTx, OrderRunning, OrderRx
  <1>4. ~(pnd.oper = "IDLE")
    <2>1. m = "open"
      BY PlacedFlushInput
    <2>2. QED BY <2>1 DEF Placed, OperMode
  <1>5. QED BY <1>1, <1>2, <1>3, <1>4 DEF Clean, Settled, WakingUp, Power, Awake, Waking,
           Served, Idle, Target, AllSent, Sent

\* The wake-up, before the first command.
LEMMA AfterWake ==
    ASSUME Types, NEW m, NEW n, Placed(m, n), Discipline(m, n), Order, Waking(m, n), Target,
           AllSent
    PROVE  (/\ m = "open" /\ n = 6 /\ Len(todo') = 7 /\ at = "step" /\ at' = "step"
            /\ tx' = tx \o Wake /\ rx' = <<>> /\ chip' = chip /\ role' = role
               /\ pnd'.oper = pnd.oper) =>
           /\ Discipline("open", 5)' /\ Order' /\ Clean("open", 5)' /\ Power("open", 5)'
              /\ Waking("open", 5)'
           /\ Served("open", 5)' /\ Idle("open", 5)' /\ Target' /\ AllSent'
  <1>1. SUFFICES ASSUME m = "open", n = 6, Len(todo') = 7, at = "step", at' = "step",
                        tx' = tx \o Wake, rx' = <<>>, chip' = chip, role' = role,
                            pnd'.oper = pnd.oper
        PROVE  /\ Discipline("open", 5)' /\ Order' /\ Clean("open", 5)' /\ Power("open", 5)'
                  /\ Waking("open", 5)'
               /\ Served("open", 5)' /\ Idle("open", 5)' /\ Target' /\ AllSent'
    OBVIOUS
  <1>2. Len(tx) = 0 /\ tx \in Seq(Outgoing) /\ ~(chip.running.name \in Prompt) /\ Len(rx') = 0
    BY <1>1 DEF Waking, Types, ChipTypes
  <1>3. Len(tx') = 1 /\ tx'[1] = Frame("wake", Idling, {}) /\ tx'[1].t = "wake"
    <2>1. tx = <<>>
      BY <1>2
    <2>2. tx' = Wake
      BY <1>1, <2>1 DEF Wake
    <2>3. QED BY <2>2 DEF Wake, Frame
  <1>4. ~(chip.running.name = "SAMConfiguration")
    BY <1>2 DEF Prompt
  <1>5. Discipline("open", 5)' /\ Order'
    BY <1>1, <1>2, <1>3 DEF Discipline, DisciplineStep, DisciplineTx, DisciplineAck,
       DisciplineReply, Order, OrderIdle,
       OrderRead, OrderTx, OrderRunning, OrderRx
  <1>6. WakingUp("open", 5)'
    BY <1>1 DEF WakingUp
  <1>7. ~(pnd.oper = "IDLE")
    BY <1>1 DEF Placed, OperMode
  <1>8. Waking("open", 5)'
    BY <1>1, <1>2, <1>3, <1>4 DEF Waking, Acked, WakingStep, WakingAck
  <1>9. Target' /\ AllSent'
    BY <1>1, <1>3 DEF Target, AllSent, Sent, Fieldless
  <1>10. QED BY <1>1, <1>5, <1>6, <1>7, <1>8, <1>9 DEF Clean, Settled, Power, Awake, Served,
            Idle

\* Steps that leave the settings alone.
Plain(m, n) ==
    \/ m = "open" /\ n \in {1, 5}
    \/ m = "initiator_init" /\ n \in {1, 5}
    \/ m = "poll" /\ n \in 2 .. LastPoll - 1
    \/ m = "target_init" /\ n \in {1, 3, 5, 6, 7, 8, 11}
    \/ m \in {"failed_open", "deselect", "timed_out", "close", "close_target"}

\* The settings survive the plain steps.
LEMMA SettingsPlain ==
    ASSUME HostTypes, NEW m, NEW n, Placed(m, n), Settings(m, n), Plain(m, n), todo # <<>>,
           Head(todo).op \in {"try", "catch", "do"}, result' = result, chip' = chip,
           m \in {"open", "initiator_init", "poll", "target_init"} =>
              UNCHANGED <<pnd.pending, pnd.trigged, pnd.crc, pnd.par>>
    PROVE  Settings(m, n - 1)'
  <1>1. SUFFICES ASSUME m \in {"open", "initiator_init", "poll", "target_init"},
                        result = "ok" PROVE Settings(m, n - 1)'
    BY DEF Settings
  <1>2. n \in Nat /\ LastPoll \in Nat
    BY WhereParts, BoundAssumption DEF Placed, LastPoll
  <1>3. UNCHANGED <<pnd.pending, pnd.trigged, pnd.crc, pnd.par>> /\ ~Asking
    BY <1>1 DEF Asking
  <1>4. \A F : Holds(F) => Holds(F)'
    BY <1>3 DEF Holds, Writing
  <1>5. \A F : Has(F) => Has(F)'
    BY DEF Has
  <1>6. QED BY <1>1, <1>2, <1>3, <1>4, <1>5 DEF Settings, Plain

\* The settings that the next call needs are those of the last.
LEMMA SettingsFollow ==
    ASSUME HostTypes, NEW m, Placed(m, 0), Settings(m, 0), NEW m2, NEW n2, Follows(m, m2, n2)
           \/ Drains(m, m2, n2),
           todo = <<>>, pnd' = pnd, chip' = chip
    PROVE  Settings(m2, n2)'
  <1>1. SUFFICES ASSUME m2 \in {"open", "initiator_init", "poll", "target_init"}
                        PROVE Settings(m2, n2)'
    BY DEF Settings
  <1>2. /\ result = "ok"
        /\ \/ m = "open" /\ m2 = "initiator_init" /\ n2 = 8
           \/ m = "open" /\ m2 = "target_init" /\ n2 = 13
           \/ m = "initiator_init" /\ m2 = "poll" /\ n2 = LastPoll
    BY <1>1 DEF Follows, Drains, Begins
  <1>3. ~Asking /\ \A F : Holds(F) => Holds(F)'
    BY DEF Holds, Writing, Asking
  <1>4. QED BY <1>2, <1>3 DEF Settings

\* The cache is about to be written.
LEMMA SettingsWriteBack ==
    ASSUME HostTypes, NEW m, NEW n, Placed(m, n), Settings(m, n), todo # <<>>,
           Head(todo).op = "cmd",
           pnd.trigged, todo' \in Seq(StepType), Len(todo') > n, todo'[1] = Write
               \/ todo'[1] = ReadRegister,
           pnd' = [pnd EXCEPT !.trigged = FALSE], result' = result, chip' = chip
    PROVE  Settings(m, n)'
  <1>1. n \in Nat /\ UNCHANGED <<pnd.pending, pnd.crc, pnd.par>>
    BY WhereParts DEF Placed, HostTypes, DeviceType
  <1>2. todo' # <<>> /\ Head(todo') = todo'[1]
    BY <1>1, HeadTyped
  <1>3. Asking'
    BY <1>2, Parts, ZenonT(20) DEF Asking, Is
  <1>4. ~(Head(todo).name = "WriteRegister")
    <2>1. SUFFICES ASSUME Head(todo).name = "WriteRegister" PROVE FALSE
      OBVIOUS
    <2>2. PICK l, h : l \in Nat /\ l = Len(todo) /\ h = Head(todo) /\ Issues(m, n, l, h)
      BY Commanding, WhereParts DEF Placed
    <2>3. l > n
      BY <2>1, <2>2 DEF Issues
    <2>4. todo[1] = Garbage
      BY <1>1, <2>2, <2>3 DEF Placed, Control
    <2>5. Head(todo).name = "SetParameters"
      BY <2>4, HeadTyped, Parts DEF HostTypes, Is
    <2>6. QED BY <2>1, <2>5
  <1>5. \A F : Holds(F) => Holds(F)'
    BY <1>1, <1>4 DEF Holds, Writing
  <1>6. \A F : Has(F) => Has(F)'
    BY DEF Has
  <1>7. QED BY <1>1, <1>3, <1>5, <1>6 DEF Settings

\* What was pending is being written.
LEMMA SettingsWriteRegisters ==
    ASSUME HostTypes, NEW m, NEW n, Placed(m, n), Settings(m, n), todo # <<>>,
           Head(todo).op = "write",
           pnd' = [pnd EXCEPT !.pending = {}], result' = result, chip' = chip,
           pnd.pending = {}
               \/ (todo' \in Seq(StepType) /\ todo' # <<>>
               /\ todo'[1] = With("WriteRegister", pnd.pending))
    PROVE  Settings(m, n)'
  <1>1. UNCHANGED <<pnd.trigged, pnd.crc, pnd.par>> /\ pnd'.pending = {}
    BY DEF HostTypes, DeviceType
  <1>2. \A x \in pnd.pending : Writing(x)'
    <2>1. SUFFICES ASSUME NEW x \in pnd.pending PROVE Writing(x)'
      OBVIOUS
    <2>2. todo' # <<>> /\ Head(todo') = With("WriteRegister", pnd.pending)
      BY HeadTyped
    <2>3. QED BY <2>2 DEF Writing, With, Step
  <1>3. \A F : Holds(F) => Holds(F)'
    BY <1>2 DEF Holds, Writing
  <1>4. \A F : Has(F) => Has(F)'
    BY DEF Has
  <1>5. QED BY <1>1, <1>3, <1>4 DEF Settings

\* Fields are added to the cache.
LEMMA SettingsSet ==
    ASSUME HostTypes, NEW m, NEW n, Placed(m, n), Settings(m, n), SetFields,
           SetAt(m, n, m, n - 1)
    PROVE  Settings(m, n - 1)'
  <1>1. SUFFICES ASSUME m \in {"open", "initiator_init", "target_init"},
                        result = "ok" PROVE Settings(m, n - 1)'
    <2>1. result' = result
      BY DEF SetFields
    <2>2. QED BY <1>1, <2>1 DEF Settings, SetAt
  <1>2. n \in Nat
    BY WhereParts DEF Placed
  <1>3. PICK asked : asked = Head(todo).arg
    OBVIOUS
  <1>4. /\ todo # <<>> /\ Head(todo).op = "set" /\ result' = result /\ chip' = chip
        /\ pnd' = [pnd EXCEPT !.pending = @ \cup (asked \ ((IF pnd.crc THEN Crc ELSE {}) \cup (IF pnd.par THEN {"parity"} ELSE {}))),
                    !.trigged = TRUE, !.crc = @ \/ Crc \subseteq asked, !.par = @
                        \/ "parity" \in asked]
    BY <1>3 DEF SetFields, Ready
  <1>5. /\ pnd'.pending = pnd.pending \cup (asked \ ((IF pnd.crc THEN Crc ELSE {}) \cup (IF pnd.par THEN {"parity"} ELSE {})))
        /\ pnd'.trigged = TRUE
        /\ pnd'.crc => pnd.crc \/ Crc \subseteq asked
        /\ pnd'.par => pnd.par \/ "parity" \in asked
    BY <1>4 DEF HostTypes, DeviceType
  <1>6. \A x : x \in pnd.pending => x \in pnd'.pending
    BY <1>5
  <1>7. \A F : Holds(F) => Holds(F)'
    BY <1>4, <1>6 DEF Holds, Writing
  <1>8. \A x \in asked : x \in pnd'.pending \/ (pnd.crc /\ x \in Crc)
        \/ (pnd.par /\ x = "parity")
    BY <1>5
  <1>9. (pnd.crc => Holds(Crc)) /\ (pnd.par => Holds({"parity"}))
    BY <1>1 DEF Settings
  <1>10. \A x \in asked : x \in chip.regs \/ x \in pnd'.pending
    <2>1. SUFFICES ASSUME NEW x \in asked, ~(x \in pnd'.pending) PROVE x \in chip.regs
      OBVIOUS
    <2>2. (pnd.crc /\ x \in Crc) \/ (pnd.par /\ x = "parity")
      BY <1>8, <2>1
    <2>3. PICK F : Holds(F) /\ x \in F
      BY <1>9, <2>2
    <2>4. QED BY <1>4, <1>6, <2>1, <2>3 DEF Holds, Writing
  <1>11. \A F : F \subseteq asked => Holds(F)'
    BY <1>4, <1>10 DEF Holds
  <1>12. \A F : Has(F) => Has(F)'
    BY <1>4 DEF Has
  <1>13. (pnd'.crc => Holds(Crc)') /\ (pnd'.par => Holds({"parity"})')
    BY <1>5, <1>7, <1>9, <1>11
  <1>14. CASE m = "open"
    BY <1>5, <1>13, <1>14 DEF Settings
  <1>15. CASE m = "initiator_init"
    <2>1. CASE n = 2 /\ asked = {"initiator"}
      BY <1>1, <1>4, <1>5, <1>7, <1>11, <1>13, <1>15, <2>1 DEF Settings
    <2>2. CASE n = 3 /\ asked = Reset
      BY <1>1, <1>4, <1>5, <1>7, <1>11, <1>13, <1>15, <2>2 DEF Settings
    <2>3. CASE n = 4 /\ asked = Iso14443a \cup Framing
      <3>1. Holds(Iso14443a)' /\ Holds(Framing)'
        BY <1>11, <2>3
      <3>2. QED BY <1>1, <1>4, <1>5, <1>7, <1>13, <1>15, <2>3, <3>1 DEF Settings
    <2>4. QED BY <1>3, <1>15, <2>1, <2>2, <2>3 DEF SetAt, Reset, Framing
  <1>16. CASE m = "target_init"
    <2>1. CASE n = 4 /\ asked = {"rfon"}
      BY <1>1, <1>4, <1>5, <1>7, <1>11, <1>12, <1>13, <1>16, <2>1 DEF Settings
    <2>2. CASE n \in {9, 12} /\ asked = Reset
      BY <1>1, <1>4, <1>5, <1>7, <1>11, <1>12, <1>13, <1>16, <2>2 DEF Settings
    <2>3. CASE n = 13 /\ asked = Framing
      BY <1>1, <1>4, <1>5, <1>7, <1>11, <1>12, <1>13, <1>16, <2>3 DEF Settings
    <2>4. QED BY <1>3, <1>16, <2>1, <2>2, <2>3 DEF SetAt, Reset, Framing
  <1>17. QED BY <1>1, <1>14, <1>15, <1>16

\* What holds at (m, n) as long as nothing was lost.
Deep(m, n) ==
    /\ Discipline(m, n) /\ Order /\ Clean(m, n) /\ Power(m, n) /\ Waking(m, n) /\ Served(m, n)
    /\ Idle(m, n) /\ Target /\ Settings(m, n) /\ AllSent

\* A step that goes on in silence keeps it.
LEMMA DeepStill ==
    ASSUME HostTypes, NEW m, NEW n, Placed(m, n), Deep(m, n), NEW m2, NEW n2 \in Nat,
           Goes(m, n, m2, n2), Still,
           Knows(m, n, m2, n2), at = "step" \/ m2 = "none"
    PROVE  Settings(m2, n2)' => Deep(m2, n2)'
  <1>1. Discipline(m2, n2)' /\ Order'
    BY DisciplineStill DEF Deep
  <1>2. Clean(m2, n2)' /\ Power(m2, n2)' /\ Waking(m2, n2)' /\ Served(m2, n2)' /\ Idle(m2, n2)'
    BY CleanStill, PowerStill, ServedStill, IdleStill DEF Deep
  <1>3. Target' /\ AllSent'
    BY SentStill DEF Deep
  <1>4. QED BY <1>1, <1>2, <1>3 DEF Deep

\* The steps of the host that send nothing and take nothing.
LEMMA DeepRaiseError ==
    ASSUME Types, NEW m, NEW n, Placed(m, n), Deep(m, n), RaiseError
    PROVE  \E m2, n2 : Placed(m2, n2)' /\ Deep(m2, n2)'
  <1>1. PICK m2, n2 : Placed(m2, n2)' /\ Raised(m, n, m2, n2) /\ Len(todo) = n /\ result' # "ok"
    BY PlacedRaiseError
  <1>2. HostTypes /\ at = "step" /\ Still /\ pnd' = pnd /\ draining' = draining
    BY DEF Types, RaiseError, Ready, Fail, Keep, Still, line
  <1>3. Goes(m, n, m2, n2) /\ Knows(m, n, m2, n2) /\ n2 \in Nat
    BY <1>1, <1>2 DEF Goes, Knows, Raised
  <1>4. Settings(m2, n2)'
    BY <1>1 DEF Settings
  <1>5. QED BY <1>1, <1>2, <1>3, <1>4, DeepStill

LEMMA DeepPassMark ==
    ASSUME Types, NEW m, NEW n, Placed(m, n), Deep(m, n), PassMark
    PROVE  \E m2, n2 : Placed(m2, n2)' /\ Deep(m2, n2)'
  <1>1. PICK m2, n2 : Placed(m2, n2)' /\ Passed(m, n, m2, n2) /\ Len(todo) = n
    BY PlacedPassMark
  <1>2. HostTypes /\ at = "step" /\ Still /\ pnd' = pnd /\ draining' = draining
        /\ result' = result
        /\ todo # <<>> /\ Head(todo).op \in {"try", "catch"}
    BY DEF Types, PassMark, Ready, Keep, Still, line
  <1>3. m2 = m /\ n2 = n - 1 /\ Own(m, n) /\ Plain(m, n)
    BY <1>1 DEF Passed, Own, Plain
  <1>4. n \in Nat /\ n >= 1
    BY <1>2, <1>3, WhereParts DEF Placed, Own
  <1>5. Goes(m, n, m2, n2) /\ Knows(m, n, m2, n2) /\ n2 \in Nat
    BY <1>1, <1>2, <1>3, <1>4 DEF Goes, Knows
  <1>6. Settings(m2, n2)'
    BY <1>2, <1>3, SettingsPlain DEF Deep, Still
  <1>7. QED BY <1>1, <1>2, <1>5, <1>6, DeepStill

LEMMA DeepSetFields ==
    ASSUME Types, NEW m, NEW n, Placed(m, n), Deep(m, n), SetFields
    PROVE  \E m2, n2 : Placed(m2, n2)' /\ Deep(m2, n2)'
  <1>1. PICK m2, n2 : Placed(m2, n2)' /\ SetAt(m, n, m2, n2) /\ Len(todo) = n
    BY PlacedSetFields
  <1>2. HostTypes /\ at = "step" /\ Still /\ draining' = draining /\ result' = result
    BY DEF Types, SetFields, Ready, Keep, Still, line
  <1>3. m2 = m /\ n2 = n - 1 /\ Own(m, n) /\ SetAt(m, n, m, n - 1)
    BY <1>1 DEF SetAt, Own
  <1>4. n \in Nat /\ n >= 1
    BY <1>2, <1>3, WhereParts DEF Placed, Own
  <1>5. UNCHANGED <<pnd.power, pnd.oper>>
    BY <1>2 DEF SetFields, HostTypes, DeviceType
  <1>6. ~(pnd.oper = "IDLE")
    BY <1>1, <1>4 DEF Placed, OperMode, SetAt
  <1>7. Goes(m, n, m2, n2) /\ Knows(m, n, m2, n2) /\ n2 \in Nat
    BY <1>1, <1>2, <1>3, <1>4, <1>5, <1>6 DEF Goes, Knows
  <1>8. Settings(m2, n2)'
    BY <1>2, <1>3, SettingsSet DEF Deep
  <1>9. QED BY <1>1, <1>2, <1>7, <1>8, DeepStill

LEMMA DeepSetParameters ==
    ASSUME Types, NEW m, NEW n, Placed(m, n), Deep(m, n), set_parameters
    PROVE  \E m2, n2 : Placed(m2, n2)' /\ Deep(m2, n2)'
  <1>1. ParametersAt(m, n) /\ Len(todo) = n /\ Placed(m, n - 1)'
    BY PlacedSetParameters
  <1>2. HostTypes /\ at = "step" /\ Still /\ pnd' = pnd /\ draining' = draining
        /\ result' = result
        /\ todo # <<>> /\ Head(todo).op = "do"
    BY DEF Types, set_parameters, Ready, Keep, Still, line
  <1>3. Own(m, n) /\ Plain(m, n)
    BY <1>1 DEF ParametersAt, Own, Plain
  <1>4. n \in Nat /\ n >= 1
    BY <1>2, <1>3, WhereParts DEF Placed, Own
  <1>5. Goes(m, n, m, n - 1) /\ Knows(m, n, m, n - 1) /\ n - 1 \in Nat
    BY <1>1, <1>2, <1>3, <1>4 DEF Goes, Knows
  <1>6. Settings(m, n - 1)'
    BY <1>2, <1>3, SettingsPlain DEF Deep, Still
  <1>7. QED BY <1>1, <1>2, <1>5, <1>6, DeepStill

LEMMA DeepRemember ==
    ASSUME Types, NEW m, NEW n, Placed(m, n), Deep(m, n), Remember
    PROVE  \E m2, n2 : Placed(m2, n2)' /\ Deep(m2, n2)'
  <1>1. PICK what : what = Head(todo).name
    OBVIOUS
  <1>2. Did(m, n, what) /\ Remembered(what) /\ Len(todo) = n /\ Placed(m, n - 1)'
    BY <1>1, PlacedRemember
  <1>3. HostTypes /\ at = "step" /\ Still /\ draining' = draining /\ result' = result
        /\ todo # <<>> /\ Head(todo).op = "do"
    BY DEF Types, Remember, Ready, Keep, Still, line
  <1>4. Own(m, n) /\ Plain(m, n)
    BY <1>2 DEF Did, Own, Plain
  <1>5. n \in Nat /\ n >= 1
    BY <1>3, <1>4, WhereParts DEF Placed, Own
  <1>6. Knows(m, n, m, n - 1)
    BY <1>2, <1>5 DEF Did, Remembered, Knows
  <1>7. Goes(m, n, m, n - 1) /\ n - 1 \in Nat
    BY <1>2, <1>3, <1>4, <1>5 DEF Goes
  <1>8. m \in {"open", "initiator_init", "poll", "target_init"} =>
              UNCHANGED <<pnd.pending, pnd.trigged, pnd.crc, pnd.par>>
    BY <1>2 DEF Did, Remembered
  <1>9. Settings(m, n - 1)'
    BY <1>3, <1>4, <1>8, SettingsPlain DEF Deep, Still
  <1>10. QED BY <1>2, <1>3, <1>6, <1>7, <1>9, DeepStill

LEMMA DeepWriteRegisters ==
    ASSUME Types, NEW m, NEW n, Placed(m, n), Deep(m, n), WriteRegisters
    PROVE  Placed(m, n)' /\ Deep(m, n)'
  <1>1. /\ Placed(m, n)' /\ m \in Caching /\ Len(todo) > n /\ n >= 1
           /\ pnd' = [pnd EXCEPT !.pending = {}]
        /\ pnd.pending = {} \/ todo'[1] = With("WriteRegister", pnd.pending)
    BY PlacedWriteRegisters
  <1>2. HostTypes /\ at = "step" /\ Still /\ draining' = draining /\ result' = result
        /\ todo # <<>> /\ Head(todo).op = "write"
        /\ todo' = (IF pnd.pending = {} THEN <<>> ELSE <<With("WriteRegister", pnd.pending)>>)
           \o Tail(todo)
    BY DEF Types, WriteRegisters, Ready, Keep, Still, line
  <1>3. UNCHANGED <<pnd.power, pnd.oper>>
    BY <1>1, <1>2 DEF HostTypes, DeviceType
  <1>4. n \in Nat
    BY <1>2, WhereParts DEF Placed
  <1>5. Goes(m, n, m, n) /\ Knows(m, n, m, n)
    BY <1>1, <1>2, <1>3, <1>4 DEF Goes, Knows
  <1>6. ~(pnd.pending = {}) => todo' \in Seq(StepType) /\ todo' # <<>>
    <2>1. SUFFICES ASSUME ~(pnd.pending = {}) PROVE todo' \in Seq(StepType) /\ todo' # <<>>
      OBVIOUS
    <2>2. todo' = <<With("WriteRegister", pnd.pending)>> \o Tail(todo)
      BY <1>2, <2>1
    <2>3. With("WriteRegister", pnd.pending) \in StepType
      BY <1>2, StepsTyped DEF HostTypes, DeviceType
    <2>4. <<With("WriteRegister", pnd.pending)>> \in Seq(StepType)
          /\ Tail(todo) \in Seq(StepType)
      BY <1>2, <2>3, HeadTyped DEF HostTypes
    <2>5. todo' \in Seq(StepType) /\ Len(todo') = 1 + Len(Tail(todo)) /\ Len(Tail(todo)) \in Nat
      BY <2>2, <2>4, Prefix
    <2>6. QED BY <2>5
  <1>7. Settings(m, n)'
    BY <1>1, <1>2, <1>6, SettingsWriteRegisters DEF Deep, Still
  <1>8. QED BY <1>1, <1>2, <1>4, <1>5, <1>7, DeepStill

LEMMA DeepWriteBack ==
    ASSUME Types, NEW m, NEW n, Placed(m, n), Deep(m, n), SendCommand
    PROVE  pnd.trigged => Placed(m, n)' /\ Deep(m, n)'
  <1>1. SUFFICES ASSUME pnd.trigged PROVE Placed(m, n)' /\ Deep(m, n)'
    OBVIOUS
  <1>2. /\ Placed(m, n)' /\ m \in Caching /\ (todo'[1] = Write \/ todo'[1] = ReadRegister)
        /\ pnd' = [pnd EXCEPT !.trigged = FALSE] /\ UNCHANGED <<at, result, chip, line>>
           /\ at = "step"
    BY <1>1, PlacedWriteBack
  <1>3. HostTypes /\ Still /\ draining' = draining /\ result' = result
        /\ todo # <<>> /\ Head(todo).op = "cmd"
    BY <1>2 DEF Types, SendCommand, Ready, Keep, Still, line
  <1>4. todo' = (<<>> \o <<Write>>) \o todo \/ todo' = (<<ReadRegister>> \o <<Write>>) \o todo
    BY <1>1 DEF SendCommand, WriteBack
  <1>5. UNCHANGED <<pnd.power, pnd.oper>>
    BY <1>2, <1>3 DEF HostTypes, DeviceType
  <1>6. n \in Nat /\ Len(todo) \in Nat /\ Len(todo) >= n
    BY <1>3, WhereParts DEF Placed
  <1>7. PICK h \in 1 .. 2 : Len(todo') = Len(todo) + h
    BY <1>3, <1>4, PutFirst DEF HostTypes
  <1>8. n >= 1
    <2>1. PICK l, s : l \in Nat /\ l = Len(todo) /\ s = Head(todo) /\ Issues(m, n, l, s)
      BY <1>3, Commanding, WhereParts DEF Placed
    <2>2. LastPoll \in Nat /\ LastPoll >= 2
      BY BoundAssumption DEF LastPoll
    <2>3. QED BY <1>6, <2>1, <2>2 DEF Issues
  <1>9. Goes(m, n, m, n) /\ Knows(m, n, m, n)
    BY <1>2, <1>3, <1>5, <1>8 DEF Goes, Knows
  <1>10. todo' \in Seq(StepType) /\ Len(todo') > n
    BY <1>6, <1>7, TypesSends DEF Types, HostTypes
  <1>11. Settings(m, n)'
    BY <1>1, <1>2, <1>3, <1>10, SettingsWriteBack DEF Deep, Still
  <1>12. QED BY <1>2, <1>3, <1>6, <1>9, <1>11, DeepStill

\* The steps that begin and end.
LEMMA DeepFlushInput ==
    ASSUME Types, NEW m, NEW n, Placed(m, n), Deep(m, n), FlushInput
    PROVE  Placed("open", 6)' /\ Deep("open", 6)'
  <1>1. m = "open" /\ n = 7 /\ Len(todo) = n /\ Placed("open", 6)'
    BY PlacedFlushInput
  <1>2. pnd' = pnd /\ pnd = NewDevice
    BY <1>1 DEF FlushInput, Placed, Control
  <1>3. pnd.pending = {} /\ ~pnd.crc /\ ~pnd.par
    BY <1>2, Zenon DEF NewDevice
  <1>4. Settings("open", 6)'
    BY <1>2, <1>3 DEF Settings
  <1>5. QED BY <1>1, <1>4, AfterFlush DEF Deep

LEMMA DeepWakes ==
    ASSUME Types, NEW m, NEW n, Placed(m, n), Deep(m, n), SendCommand
    PROVE  ~pnd.trigged /\ pnd.power = "LOWVBAT" => Placed("open", 5)' /\ Deep("open", 5)'
  <1>1. SUFFICES ASSUME ~pnd.trigged, pnd.power = "LOWVBAT" PROVE Placed("open", 5)'
                        /\ Deep("open", 5)'
    OBVIOUS
  <1>2. /\ m = "open" /\ n = 6 /\ Len(todo) = 6 /\ Placed("open", 5)' /\ Len(todo') = 7
        /\ tx' = tx \o Wake /\ rx' = <<>> /\ at = "step" /\ UNCHANGED <<at, chip, result>>
        /\ pnd' = [pnd EXCEPT !.power = "NORMAL"]
    BY <1>1, PlacedWake
  <1>3. UNCHANGED <<pnd.oper, pnd.pending, pnd.crc, pnd.par>> /\ role' = role
    BY <1>2 DEF Types, HostTypes, DeviceType, SendCommand, Keep
  <1>4. pnd.pending = {} /\ ~pnd.crc /\ ~pnd.par
    BY <1>2 DEF Placed, Control
  <1>5. Settings("open", 5)'
    BY <1>3, <1>4 DEF Settings
  <1>6. QED BY <1>2, <1>3, <1>5, AfterWake DEF Deep

LEMMA DeepGone ==
    ASSUME Types, NEW m, NEW n, Placed(m, n), Deep(m, n), Gone, UNCHANGED <<role, chip, line>>
    PROVE  Placed("none", 0)' /\ Deep("none", 0)'
  <1>1. HostTypes /\ Still /\ pnd' = NewDevice
    BY DEF Types, Gone, Still, line
  <1>2. ~(pnd'.oper = "IDLE")
    BY <1>1 DEF NewDevice
  <1>3. Goes(m, n, "none", 0) /\ Knows(m, n, "none", 0)
    BY <1>2 DEF Goes, Knows
  <1>4. Settings("none", 0)'
    BY DEF Settings
  <1>5. QED BY <1>1, <1>3, <1>4, PlacedEnd, DeepStill

LEMMA DeepReturn ==
    ASSUME Types, NEW m, NEW n, Placed(m, n), Deep(m, n), Return
    PROVE  \E m2, n2 : Placed(m2, n2)' /\ Deep(m2, n2)'
  <1>1. PICK m2, n2 : Placed(m2, n2)' /\ Returns(m, n, m2, n2) /\ Len(todo') = n2
    BY PlacedReturn
  <1>2. HostTypes /\ todo = <<>> /\ UNCHANGED <<role, chip, line>>
    BY DEF Types, Return
  <1>3. CASE Gone /\ m2 = "none" /\ n2 = 0
    BY <1>2, <1>3, DeepGone
  <1>4. CASE /\ n = 0 /\ result' = "ok" /\ at' = "step" /\ pnd' = pnd
             /\ \/ draining' = draining /\ Follows(m, m2, n2)
                \/ draining' /\ Drains(m, m2, n2)
    <2>1. Still /\ at = "step"
      BY <1>2, <1>4 DEF Still, line, HostTypes
    <2>2. n2 \in Nat
      <3>1. Len(todo') \in Nat
        BY TypesProgram DEF Types, HostTypes
      <3>2. QED BY <1>1, <3>1
    <2>3. ~(m2 \in {"timed_out", "close", "close_target"} /\ n2 = 3) \/ pnd.oper = "IDLE"
      BY <1>4 DEF Follows, Drains, Begins
    <2>4. Goes(m, n, m2, n2) /\ Knows(m, n, m2, n2)
      BY <1>4, <2>3 DEF Goes, Knows
    <2>5. Settings(m2, n2)'
      BY <1>2, <1>4, <2>1, SettingsFollow DEF Deep, Still
    <2>6. QED BY <1>1, <1>2, <2>1, <2>2, <2>4, <2>5, DeepStill
  <1>5. QED BY <1>1, <1>3, <1>4 DEF Returns

LEMMA DeepStart ==
    ASSUME Types, NEW m, NEW n, Placed(m, n), Deep(m, n), Start
    PROVE  Placed("open", 7)' /\ Deep("open", 7)'
  <1>1. m = "none" /\ Placed("open", 7)' /\ Len(todo') = 7 /\ at' = "step"
        /\ UNCHANGED <<pnd, chip, line, role>>
    BY PlacedStart
  <1>2. HostTypes /\ Still /\ pnd' = NewDevice
    BY <1>1 DEF Types, Still, line, Placed, Control
  <1>3. pnd'.pending = {} /\ ~pnd'.crc /\ ~pnd'.par /\ ~(pnd'.oper = "IDLE")
    BY <1>2, Zenon DEF NewDevice
  <1>4. at = "step"
    <2>1. n = 0
      BY <1>1, <1>2, WhereParts, Lengths DEF Placed
    <2>2. Where(m, n) /\ HostTypes
      BY <1>2 DEF Placed
    <2>3. call = "none"
      BY DEF Start
    <2>4. at # "step" => Head(todo).op \in {"cmd", "frame"} /\ todo # <<>>
      BY <2>2 DEF Placed, Control, HostTypes
    <2>5. SUFFICES ASSUME at # "step" PROVE FALSE
      OBVIOUS
    <2>6. Issues(m, n, Len(todo), Head(todo))
      BY <2>2, <2>4, <2>5, Commanding
    <2>7. QED BY <1>1, <2>6 DEF Issues
  <1>5. Goes(m, n, "open", 7) /\ Knows(m, n, "open", 7)
    BY <1>1, <1>3 DEF Goes, Knows
  <1>6. Settings("open", 7)'
    BY <1>3 DEF Settings
  <1>7. QED BY <1>1, <1>2, <1>4, <1>5, <1>6, DeepStill

LEMMA DeepCancel ==
    ASSUME Types, NEW m, NEW n, Placed(m, n), Deep(m, n), Cancel
    PROVE  Placed("receive", 1)' /\ Deep("receive", 1)'
  <1>1. /\ m = "receive" /\ n = 1 /\ Placed("receive", 1)' /\ Len(todo') = 1 /\ at' = "step"
           /\ draining'
        /\ UNCHANGED <<pnd, chip, tx, rx, role>>
    BY PlacedCancel DEF line
  <1>2. Served(m, n) /\ Order /\ Target /\ AllSent
    BY DEF Deep
  <1>3. \A i \in 1 .. Len(tx) : tx[i].t = "cmd" => tx[i].name \in {"TgGetData", "TgSetData"}
    BY <1>1, <1>2 DEF Served
  <1>4. Discipline("receive", 1)'
    <2>1. DisciplineStep("receive", 1)'
      BY <1>1, <1>3 DEF DisciplineStep, Tracked, Icily
    <2>2. QED BY <1>1, <2>1 DEF Discipline, DisciplineTx, DisciplineAck, DisciplineReply
  <1>5. Order' /\ Target' /\ AllSent'
    BY <1>1, <1>2 DEF Order, OrderIdle, OrderRead, OrderTx, OrderRunning, OrderRx, Target,
       AllSent, Sent
  <1>6. ~(pnd.oper = "IDLE")
    BY <1>1 DEF Placed, OperMode
  <1>7. Clean("receive", 1)' /\ Power("receive", 1)' /\ Waking("receive", 1)'
        /\ Idle("receive", 1)' /\ Settings("receive", 1)'
    BY <1>1, <1>6 DEF Clean, Settled, Power, Awake, Waking, WakingUp, Idle, Settings
  <1>8. Served("receive", 1)'
    BY <1>1, <1>2 DEF Served
  <1>9. QED BY <1>1, <1>4, <1>5, <1>7, <1>8 DEF Deep

-----------------------------------------------------------------------------
\* A command goes out.

\* A command goes out, behind b wake-ups.
Issued(b) ==
    /\ b \in {0, 1} /\ Len(tx) \in Nat /\ Len(tx') = Len(tx) + b + 1 /\ Len(rx') = 0
    /\ \A i \in 1 .. Len(tx) : /\ tx'[i].t = tx[i].t /\ tx'[i].name = tx[i].name
                                  /\ tx'[i].arg = tx[i].arg
                               /\ tx'[i].old
    /\ b = 1 => tx'[Len(tx) + 1].t = "wake"
    /\ tx'[Len(tx')].t = "cmd" /\ ~tx'[Len(tx')].old
    /\ tx'[Len(tx')].name = Head(todo).name /\ tx'[Len(tx')].arg = Head(todo).arg
    /\ chip'.running.name = chip.running.name /\ chip'.running.arg = chip.running.arg
    /\ chip'.running.t = chip.running.t /\ (chip'.running.old <=> ~(chip.running.name = Idling))
    /\ UNCHANGED <<chip.power, chip.regs, chip.field>>

\* Transmit issues a command.
LEMMA TransmitIssues ==
    ASSUME Types, todo # <<>>, Head(todo).op \in {"cmd", "frame"}, NEW before, NEW b,
           NEW flushed, Len(flushed) = 0,
           flushed \in Seq(Incoming), (b = 0 /\ before = <<>>) \/ (b = 1 /\ before = Wake)
    PROVE  Transmit(before, flushed) => Issued(b)
  <1>1. SUFFICES ASSUME Transmit(before, flushed) PROVE Issued(b)
    OBVIOUS
  <1>2. PICK f : f = Frame("cmd", Head(todo).name, Head(todo).arg)
    OBVIOUS
  <1>3. /\ tx' = Aged(tx) \o before \o <<f>> /\ rx' = Aged(flushed)
        /\ chip' = [chip EXCEPT !.running.old = chip.running.name # Idling]
    BY <1>1, <1>2 DEF Transmit
  <1>4. /\ f \in Outgoing /\ f.t = "cmd" /\ f.name = Head(todo).name /\ f.arg = Head(todo).arg
           /\ f.old = FALSE
    <2>1. Head(todo) \in StepType
      BY HeadTyped DEF Types, HostTypes
    <2>2. f \in Outgoing
      BY <1>2, <2>1, FrameTyped
    <2>3. QED BY <1>2, <2>2 DEF Frame
  <1>5. tx \in Seq(Outgoing) /\ Outgoing \in {Outgoing, Incoming}
        /\ Incoming \in {Outgoing, Incoming}
    BY DEF Types, ChipTypes
  <1>6. Aged(tx) \in Seq(Outgoing) /\ Len(Aged(tx)) = Len(tx) /\ Len(tx) \in Nat
        /\ \A i \in 1 .. Len(tx) : Aged(tx)[i] = [tx[i] EXCEPT !.old = TRUE]
    BY <1>5, AgedTyped
  <1>7. Len(rx') = 0
    BY <1>3, <1>5, AgedTyped
  <1>8. before \in Seq(Outgoing) /\ Len(before) = b /\ (b = 1 => before[1].t = "wake")
    <2>1. Frame("wake", Idling, {}) \in Outgoing /\ Frame("wake", Idling, {}).t = "wake"
      BY FrameTyped DEF Frame
    <2>2. PICK w : w = Frame("wake", Idling, {})
      OBVIOUS
    <2>3. Wake = <<w>> /\ w \in Outgoing /\ w.t = "wake"
      BY <2>1, <2>2 DEF Wake
    <2>4. CASE b = 0 /\ before = <<>>
      BY <2>4
    <2>5. CASE b = 1 /\ before = <<w>>
      BY <2>3, <2>5
    <2>6. QED BY <2>3, <2>4, <2>5
  <1>9. PICK u : u = Aged(tx) \o before
    OBVIOUS
  <1>10. u \in Seq(Outgoing) /\ Len(u) = Len(tx) + b
         /\ (\A i \in 1 .. Len(tx) : u[i] = Aged(tx)[i])
         /\ (b = 1 => u[Len(tx) + 1].t = "wake")
    BY <1>6, <1>8, <1>9, Prefix
  <1>11. <<f>> \in Seq(Outgoing) /\ Len(<<f>>) = 1 /\ <<f>>[1] = f
    BY <1>4
  <1>12. tx' = u \o <<f>>
    BY <1>3, <1>9
  <1>13. Len(tx') = Len(tx) + b + 1 /\ tx'[Len(tx')] = f
         /\ \A i \in 1 .. Len(tx) + b : tx'[i] = u[i]
    <2>1. Len(tx') = Len(u) + 1 /\ tx'[Len(u) + 1] = f /\ \A i \in 1 .. Len(u) : tx'[i] = u[i]
      BY <1>10, <1>11, <1>12, Prefix
    <2>2. QED BY <1>6, <1>8, <1>10, <2>1
  <1>14. \A i \in 1 .. Len(tx) : /\ tx'[i].t = tx[i].t /\ tx'[i].name = tx[i].name
                                    /\ tx'[i].arg = tx[i].arg
                                 /\ tx'[i].old
    <2>1. SUFFICES ASSUME NEW i \in 1 .. Len(tx)
          PROVE  tx'[i].t = tx[i].t /\ tx'[i].name = tx[i].name /\ tx'[i].arg = tx[i].arg
                 /\ tx'[i].old
      OBVIOUS
    <2>2. tx'[i] = [tx[i] EXCEPT !.old = TRUE]
      BY <1>6, <1>10, <1>13, <2>1
    <2>3. tx[i] \in FrameType
      BY <1>5, <2>1 DEF Outgoing
    <2>4. QED BY <2>2, <2>3 DEF FrameType
  <1>15. b = 1 => tx'[Len(tx) + 1].t = "wake"
    BY <1>6, <1>10, <1>13
  <1>16. /\ chip'.running.name = chip.running.name /\ chip'.running.arg = chip.running.arg
         /\ chip'.running.t = chip.running.t
            /\ (chip'.running.old <=> ~(chip.running.name = Idling))
         /\ UNCHANGED <<chip.power, chip.regs, chip.field>>
    <2>1. chip.running \in FrameType
          /\ chip \in [power : {"lowvbat", "halfway", "down", "on"}, running : RunningFrame,
                 regs : SUBSET Field, default : BOOLEAN, field : BOOLEAN]
      BY DEF Types, ChipTypes, RunningFrame
    <2>2. QED BY <1>3, <2>1 DEF FrameType
  <1>17. QED BY <1>4, <1>6, <1>7, <1>13, <1>14, <1>15, <1>16 DEF Issued

\* What goes out, and from where.
GoesOut(m, n, b) ==
    /\ Issued(b) /\ at = "step" /\ at' = "ack" /\ result = "ok" /\ pnd'.power = "NORMAL"
    /\ ~pnd.trigged /\ todo # <<>> /\ Head(todo).op \in {"cmd", "frame"}
    /\ UNCHANGED <<todo, result, draining, role, pnd.oper, pnd.crc, pnd.par, pnd.pending,
       pnd.trigged>>
    /\ pnd.power \in {"NORMAL", "POWERDOWN"} /\ (pnd.power = "POWERDOWN" => b = 1)
       /\ (b = 1 => pnd.power = "POWERDOWN")
    /\ ~(m = "open" /\ n >= 6)

\* A command or a frame is issued from its place.
LEMMA SendIssues ==
    ASSUME Types, NEW m, NEW n, Placed(m, n), Deep(m, n), SendCommand \/ SendFrame
    PROVE  SendFrame \/ (~pnd.trigged /\ pnd.power # "LOWVBAT") =>
             Placed(m, n)' /\ Issues(m, n, Len(todo), Head(todo))
                 /\ \E b \in {0, 1} : GoesOut(m, n, b)
  <1>1. SUFFICES ASSUME SendFrame \/ (~pnd.trigged /\ pnd.power # "LOWVBAT")
        PROVE  Placed(m, n)' /\ Issues(m, n, Len(todo), Head(todo))
               /\ \E b \in {0, 1} : GoesOut(m, n, b)
    OBVIOUS
  <1>2. /\ Placed(m, n)' /\ ~pnd.trigged /\ at = "step" /\ at' = "ack" /\ todo' = todo
           /\ todo # <<>>
        /\ Head(todo).op \in {"cmd", "frame"} /\ result = "ok" /\ result' = result
           /\ draining' = draining
        /\ pnd'.power = "NORMAL" /\ pnd.power \in {"NORMAL", "POWERDOWN"}
        /\ UNCHANGED <<pnd.oper, pnd.crc, pnd.par, pnd.pending, pnd.trigged, role, spent, abort,
           call>>
        /\ Issues(m, n, Len(todo), Head(todo))
        /\ ~(m = "open" /\ n >= 6)
        /\ \/ Head(todo).op = "cmd" /\ pnd.power = "NORMAL" /\ Transmit(<<>>, <<>>)
           \/ Head(todo).op = "cmd" /\ pnd.power = "POWERDOWN" /\ Transmit(Wake, <<>>)
           \/ Head(todo).op = "frame" /\ m = "open" /\ n = 5 /\ Len(todo) = 6
              /\ Transmit(<<>>, rx)
    BY <1>1, PlacedTransmit
  <1>3. m = "open" /\ n = 5 => pnd.power = "NORMAL"
    BY <1>2 DEF Placed, PowerMode
  <1> PICK none : none = <<>>
    OBVIOUS
  <1>4. none \in Seq(Incoming) /\ Len(none) = 0
    OBVIOUS
  <1>5. CASE Head(todo).op = "cmd" /\ pnd.power = "NORMAL" /\ Transmit(<<>>, <<>>)
    <2>1. Issued(0)
      BY <1>2, <1>5, <1>4, TransmitIssues
    <2>2. QED BY <1>2, <1>5, <2>1 DEF GoesOut
  <1>6. CASE Head(todo).op = "cmd" /\ pnd.power = "POWERDOWN" /\ Transmit(Wake, <<>>)
    <2>1. Issued(1)
      BY <1>2, <1>6, <1>4, TransmitIssues
    <2>2. QED BY <1>2, <1>6, <2>1 DEF GoesOut
  <1>7. CASE Head(todo).op = "frame" /\ m = "open" /\ n = 5 /\ Len(todo) = 6
             /\ Transmit(<<>>, rx)
    <2>1. Len(rx) = 0 /\ rx \in Seq(Incoming)
      BY <1>2, <1>7 DEF Deep, Clean, Settled, WakingUp, Serene, Types, ChipTypes
    <2>2. Issued(0)
      BY <1>2, <1>7, <2>1, TransmitIssues
    <2>3. QED BY <1>2, <1>3, <1>7, <2>2 DEF GoesOut
  <1>8. QED BY <1>2, <1>5, <1>6, <1>7

\* Where a command is issued, commands are still to come.
LEMMA IssuesSending ==
    ASSUME NEW m, NEW n \in Nat, NEW l, NEW h, Issues(m, n, l, h)
    PROVE  Sending(m, n) /\ ~(m \in {"close", "close_target", "timed_out"} /\ n <= 3)
           /\ ~(m = "failed_open" /\ n <= 4)
           /\ ~(m = "none")
  BY DEF Issues, Sending

\* The frames on the line behind the command.
LEMMA IssuedLine ==
    ASSUME NEW b, Issued(b)
    PROVE  \A i \in 1 .. Len(tx') : i = Len(tx') \/ i \in 1 .. Len(tx)
           \/ (b = 1 /\ i = Len(tx) + 1)
  <1>1. b \in {0, 1} /\ Len(tx) \in Nat /\ Len(tx') = Len(tx) + b + 1
    BY DEF Issued
  <1>2. QED BY <1>1

\* Each part of the invariant survives a command that goes out.
LEMMA OrderIssued ==
    ASSUME Types, NEW m, NEW n \in Nat, NEW b \in {0, 1}, GoesOut(m, n, b),
           Issues(m, n, Len(todo), Head(todo)),
           Discipline(m, n), Order
    PROVE  Discipline(m, n)' /\ Order'
  <1>1. Issued(b) /\ at = "step" /\ at' = "ack" /\ UNCHANGED <<todo, result, draining>>
    BY DEF GoesOut
  <1>2. \A x : Tracked(m, n, x)' <=> Tracked(m, n, x)
    BY <1>1 DEF Tracked, Icily
  <1>3. Len(tx) \in Nat /\ Len(rx') = 0
        /\ \A i \in 1 .. Len(tx') : tx'[i].t = "cmd" /\ tx'[i].old =>
              i \in 1 .. Len(tx) /\ tx[i].t = "cmd" /\ tx'[i].name = tx[i].name
    BY <1>1, IssuedLine DEF Issued
  <1>4. \A i \in 1 .. Len(tx') : tx'[i].t = "cmd" /\ ~tx'[i].old => i = Len(tx')
    BY <1>1, IssuedLine, ZenonT(20) DEF Issued
  <1>5. Sending(m, n)
    BY IssuesSending
  <1>6. DisciplineTx(m, n)'
    BY <1>1, <1>2, <1>3, <1>5 DEF DisciplineTx, Discipline, DisciplineStep
  <1>7. DisciplineAck(m, n)'
    BY <1>3 DEF DisciplineAck
  <1>8. DisciplineStep(m, n)' /\ DisciplineReply(m, n)'
    BY <1>1 DEF DisciplineStep, DisciplineReply
  <1>9. OrderTx'
    BY <1>1, <1>3, <1>4 DEF OrderTx, Issued
  <1>10. OrderIdle' /\ OrderRead' /\ OrderRx'
    BY <1>1, <1>3 DEF OrderIdle, OrderRead, OrderRx, Issued
  <1>11. OrderRunning'
    BY <1>1 DEF OrderRunning, Issued
  <1>12. QED BY <1>6, <1>7, <1>8, <1>9, <1>10, <1>11 DEF Discipline, Order

LEMMA CleanIssued ==
    ASSUME Types, NEW m, NEW n \in Nat, NEW b \in {0, 1}, GoesOut(m, n, b), Clean(m, n)
    PROVE  Clean(m, n)'
  <1>1. Issued(b) /\ at = "step" /\ at' = "ack" /\ UNCHANGED <<todo, result, draining>>
    BY DEF GoesOut
  <1>2. SUFFICES ASSUME Settled(m, n) PROVE Fresh'
    <2>1. Settled(m, n)' <=> Settled(m, n)
      BY <1>1 DEF Settled, WakingUp
    <2>2. QED BY <1>1, <1>2, <2>1 DEF Clean
  <1>3. Len(tx) = 0 /\ chip.running.name = Idling
    BY <1>1, <1>2 DEF Clean, Serene
  <1>4. QED BY <1>1, <1>3 DEF Issued, Fresh

LEMMA PowerIssued ==
    ASSUME Types, NEW m, NEW n \in Nat, NEW b \in {0, 1}, GoesOut(m, n, b), Placed(m, n),
           Power(m, n), Waking(m, n)
    PROVE  Power(m, n)' /\ Waking(m, n)'
  <1>1. /\ Issued(b) /\ at = "step" /\ at' = "ack" /\ UNCHANGED <<todo, result, draining>>
        /\ ~(m = "open" /\ n >= 6) /\ (pnd.power = "POWERDOWN" => b = 1)
           /\ (b = 1 => pnd.power = "POWERDOWN")
    BY DEF GoesOut
  <1>2. (Awake(m, n)' <=> Awake(m, n)) /\ (WakingUp(m, n)' <=> WakingUp(m, n))
    BY <1>1 DEF Awake, WakingUp
  <1>3. /\ Len(tx) \in Nat /\ Len(tx') = Len(tx) + b + 1 /\ Len(tx') \in 1 .. Len(tx')
           /\ Len(rx') = 0
        /\ tx'[Len(tx')].t = "cmd" /\ ~tx'[Len(tx')].old
        /\ (b = 1 => Len(tx) + 1 \in 1 .. Len(tx') /\ tx'[Len(tx) + 1].t = "wake")
        /\ chip'.running.name = chip.running.name /\ chip'.power = chip.power
        /\ \A i \in 1 .. Len(tx) : tx'[i].t = tx[i].t
    BY <1>1 DEF Issued
  <1>4. MineInTx' /\ InTx' /\ (b = 1 => Woken')
    BY <1>3 DEF MineInTx, InTx, Woken
  <1>5. Acked'
    BY <1>4 DEF Acked
  <1>6. Power(m, n)'
    <2>1. SUFFICES ASSUME Awake(m, n) PROVE PowerDownMine' /\ PowerStep' /\ PowerAck(m)'
                          /\ PowerReply'
      BY <1>2, <1>5 DEF Power
    <2>2. PowerDownMine /\ PowerStep
      BY <2>1 DEF Power
    <2>3. PowerStep' /\ PowerReply' /\ PowerDownMine'
      BY <1>1, <1>3, <2>2 DEF PowerDownMine, PowerStep, PowerReply
    <2>4. pnd.power = "POWERDOWN" => m # "failed_open"
      BY DEF Placed, PowerMode
    <2>5. PowerAck(m)'
      BY <1>1, <1>3, <1>4, <2>2, <2>4 DEF PowerStep, PowerAck
    <2>6. QED BY <2>3, <2>5
  <1>7. Waking(m, n)'
    <2>1. SUFFICES ASSUME WakingUp(m, n)
          PROVE  /\ ~(chip'.running.name \in Prompt \ {"SAMConfiguration"})
                 /\ chip'.running.name = "SAMConfiguration"
                    => ~chip'.running.old /\ at' # "step"
                 /\ WakingStep' /\ WakingAck'
      BY <1>1, <1>2, <1>5 DEF Waking
    <2>2. /\ ~(chip.running.name \in Prompt \ {"SAMConfiguration"})
             /\ ~(chip.running.name = "SAMConfiguration")
          /\ (Len(tx) = 0 /\ chip.power \in {"halfway", "on"})
             \/ (Len(tx) = 1 /\ tx[1].t = "wake")
      BY <1>1, <2>1 DEF Waking, WakingStep
    <2>3. b = 0
      BY <1>1, <2>1 DEF WakingUp, Placed, PowerMode
    <2>4. WakingAck'
      BY <1>3, <2>2, <2>3 DEF WakingAck
    <2>5. QED BY <1>1, <1>3, <2>2, <2>4 DEF WakingStep
  <1>8. QED BY <1>6, <1>7

LEMMA RestIssued ==
    ASSUME Types, NEW m, NEW n \in Nat, NEW b \in {0, 1}, GoesOut(m, n, b), Placed(m, n),
           Issues(m, n, Len(todo), Head(todo)), Served(m, n), Idle(m, n), Target
    PROVE  Served(m, n)' /\ Idle(m, n)' /\ Target'
  <1>1. /\ Issued(b) /\ at = "step" /\ at' = "ack"
           /\ UNCHANGED <<todo, result, draining, role, pnd.oper>>
        /\ pnd.power \in {"NORMAL", "POWERDOWN"}
    BY DEF GoesOut
  <1>2. /\ Len(tx) \in Nat /\ Len(tx') = Len(tx) + b + 1
        /\ tx'[Len(tx')].name = Head(todo).name /\ tx'[Len(tx')].arg = Head(todo).arg
        /\ chip'.running.name = chip.running.name /\ UNCHANGED <<chip.power, chip.field>>
        /\ chip'.running.t = chip.running.t /\ chip'.running.arg = chip.running.arg
        /\ \A i \in 1 .. Len(tx') : \/ i = Len(tx')
                                    \/ tx'[i].t = "wake"
                                    \/ i \in 1 .. Len(tx) /\ tx'[i].t = tx[i].t
                                       /\ tx'[i].name = tx[i].name /\ tx'[i].arg = tx[i].arg
    BY <1>1, IssuedLine, ZenonT(20) DEF Issued
  <1>3. Served(m, n)'
    <2>1. SUFFICES ASSUME m \in {"receive", "send"} PROVE Served(m, n)'
      BY DEF Served
    <2>2. Head(todo).name \in {"TgGetData", "TgSetData"}
      BY <2>1 DEF Issues
    <2>3. \A i \in 1 .. Len(tx') : tx'[i].t = "cmd"
          => tx'[i].name \in {"TgGetData", "TgSetData"}
      BY <1>2, <2>1, <2>2 DEF Served
    <2>4. QED BY <1>2, <2>1, <2>3 DEF Served
  <1>4. ~(pnd.oper = "IDLE")
    BY <1>1 DEF Idle, Asleep
  <1>5. Idle(m, n)'
    <2>1. ~(m \in {"close", "close_target", "timed_out"} /\ n <= 3)
          /\ ~(m = "failed_open" /\ n <= 4)
      BY IssuesSending
    <2>2. (m = "close" /\ n = 4) \/ (m = "failed_open" /\ n = 5) => ~chip'.field
      BY <1>2 DEF Idle
    <2>3. QED BY <1>1, <1>4, <2>1, <2>2 DEF Idle
  <1>6. Target'
    <2>1. SUFFICES ASSUME role = "target" PROVE Target'
      BY <1>1 DEF Target
    <2>2. ~(m = "poll") /\ ~(m = "initiator_init")
      BY <2>1 DEF Placed, OperMode
    <2>3. ~(Head(todo).name = "InJumpForDEP")
          /\ (Head(todo).name = "RFConfiguration" => ~("on" \in Head(todo).arg))
      BY <2>2 DEF Issues
    <2>4. \A i \in 1 .. Len(tx') : Fieldless(tx'[i])
      BY <1>2, <2>1, <2>3 DEF Target, Fieldless
    <2>5. QED BY <1>1, <1>2, <2>1, <2>4 DEF Target, Fieldless
  <1>7. QED BY <1>3, <1>5, <1>6

LEMMA SentIssued ==
    ASSUME Types, NEW m, NEW n \in Nat, NEW b \in {0, 1}, GoesOut(m, n, b), Placed(m, n),
           Issues(m, n, Len(todo), Head(todo)), Settings(m, n), AllSent
    PROVE  Settings(m, n)' /\ AllSent'
  <1>1. /\ Issued(b) /\ result = "ok" /\ ~pnd.trigged /\ todo # <<>>
           /\ Head(todo).op \in {"cmd", "frame"}
        /\ UNCHANGED <<todo, result, pnd.crc, pnd.par, pnd.pending, pnd.trigged>>
    BY DEF GoesOut
  <1>2. chip'.regs = chip.regs
    BY <1>1 DEF Issued
  <1>3. Settings(m, n)'
    BY <1>1, <1>2 DEF Settings, Holds, Has, Asking, Writing
  <1>4. LastPoll \in Nat
    BY BoundAssumption DEF LastPoll
  <1>5. Head(todo).name = "InJumpForDEP" => Needed("InJumpForDEP") \subseteq chip.regs
    <2>1. SUFFICES ASSUME Head(todo).name = "InJumpForDEP"
                          PROVE Needed("InJumpForDEP") \subseteq chip.regs
      OBVIOUS
    <2>2. m = "poll" /\ ~(n = LastPoll)
      BY <1>4, <2>1 DEF Issues
    <2>3. Has(Iso14443a) /\ Has(Framing) /\ Has(Reset) /\ Has({"initiator"})
      BY <1>1, <2>2 DEF Settings
    <2>4. QED BY <2>3 DEF Needed, Has, Framing, Reset
  <1>6. Head(todo).name = "TgInitAsTarget" => Needed("TgInitAsTarget") \subseteq chip.regs
    <2>1. SUFFICES ASSUME Head(todo).name = "TgInitAsTarget"
                          PROVE Needed("TgInitAsTarget") \subseteq chip.regs
      OBVIOUS
    <2>2. m = "target_init" /\ n = 2
      BY <2>1 DEF Issues
    <2>3. Has(Framing) /\ Has(Reset) /\ Holds({"rfon"})
      BY <1>1, <2>2 DEF Settings
    <2>4. pnd.pending = {}
      <3>1. ~Asking
        BY <1>1, <2>1 DEF Asking
      <3>2. QED BY <1>1, <2>2, <3>1 DEF Settings
    <2>5. "rfon" \in chip.regs
      BY <2>1, <2>3, <2>4 DEF Holds, Writing
    <2>6. QED BY <2>3, <2>5 DEF Needed, Has, Framing, Reset
  <1>7. \A f : Sent(f) => Sent(f)'
    BY <1>2 DEF Sent
  <1>8. Sent(chip'.running)
    BY <1>1 DEF Issued, Sent, Idling
  <1>9. \A i \in 1 .. Len(tx') : Sent(tx'[i])
    <2>1. \A i \in 1 .. Len(tx') : i = Len(tx') \/ tx'[i].old \/ tx'[i].t = "wake"
      BY <1>1, IssuedLine DEF Issued
    <2>2. Sent(tx'[Len(tx')])
      BY <1>1, <1>5, <1>6 DEF Issued, Sent
    <2>3. QED BY <2>1, <2>2 DEF Sent
  <1>10. QED BY <1>3, <1>7, <1>8, <1>9 DEF AllSent

\* All of them do.
LEMMA DeepIssued ==
    ASSUME Types, NEW m, NEW n, Placed(m, n), Deep(m, n), SendCommand \/ SendFrame
    PROVE  SendFrame \/ (~pnd.trigged /\ pnd.power # "LOWVBAT") => Placed(m, n)' /\ Deep(m, n)'
  <1>1. SUFFICES ASSUME SendFrame \/ (~pnd.trigged /\ pnd.power # "LOWVBAT") PROVE Placed(m, n)'
                        /\ Deep(m, n)'
    OBVIOUS
  <1>2. n \in Nat
    BY WhereParts DEF Placed, Types
  <1>3. PICK b \in {0, 1} : GoesOut(m, n, b)
    BY <1>1, SendIssues
  <1>4. Placed(m, n)' /\ Issues(m, n, Len(todo), Head(todo))
    BY <1>1, SendIssues
  <1>5. QED BY <1>2, <1>3, <1>4, OrderIssued, CleanIssued, PowerIssued, RestIssued, SentIssued
           DEF Deep

-----------------------------------------------------------------------------
\* The ACK frame comes.

\* Where the script is strict, every command counts.
LEMMA StrictTracked ==
    ASSUME NEW m, NEW n, Strict(m, n), NEW x
    PROVE  Tracked(m, n, x)
  BY DEF Strict, Tracked

\* The ACK frame of the command has come.
Acknowledged ==
    /\ at = "ack" /\ at' = "reply" /\ rx # <<>> /\ Head(rx).t = "ack" /\ rx' = Tail(rx)
    /\ UNCHANGED <<todo, result, draining, role, chip, tx, pnd.oper, pnd.crc, pnd.par,
       pnd.pending, pnd.trigged>>
    /\ pnd'.power = IF Head(todo).name = "TgInitAsTarget" THEN "POWERDOWN" ELSE pnd.power

\* The line with one frame less.
LEMMA TakenLine ==
    ASSUME Types, rx # <<>>, rx' = Tail(rx)
    PROVE  /\ Len(rx) \in Nat /\ Len(rx) >= 1 /\ Len(rx') = Len(rx) - 1 /\ Head(rx) = rx[1]
              /\ rx[1] \in Incoming
           /\ \A i \in 1 .. Len(rx') : rx'[i] = rx[i + 1] /\ i + 1 \in 1 .. Len(rx)
  <1>1. rx \in Seq(Incoming)
    BY DEF Types, ChipTypes
  <1>2. QED BY <1>1, Pulled

\* Where the script is strict, the ACK frame says that the command was taken.
LEMMA AckMine ==
    ASSUME Types, NEW m, NEW n, Acknowledged, Discipline(m, n), Order
    PROVE  Strict(m, n) => Len(tx) = 0
  <1>1. SUFFICES ASSUME Strict(m, n) PROVE Len(tx) = 0
    OBVIOUS
  <1>2. 1 \in 1 .. Len(rx) /\ rx[1].t = "ack" /\ at = "ack"
    BY TakenLine DEF Acknowledged
  <1>3. Tracked(m, n, rx[1].name)
    BY <1>1, StrictTracked
  <1>4. ~rx[1].old
    BY <1>2, <1>3 DEF Discipline, DisciplineAck
  <1>5. QED BY <1>2, <1>4 DEF Order, OrderRx

\* Each part of the invariant survives the ACK frame.
LEMMA OrderAcknowledged ==
    ASSUME Types, NEW m, NEW n, Acknowledged, Discipline(m, n), Order
    PROVE  Discipline(m, n)' /\ Order'
  <1>1. at = "ack" /\ at' = "reply" /\ UNCHANGED <<todo, result, draining, chip, tx>>
    BY DEF Acknowledged
  <1>2. /\ Len(rx) \in Nat /\ Len(rx) >= 1 /\ Len(rx') = Len(rx) - 1 /\ rx[1].t = "ack"
        /\ \A i \in 1 .. Len(rx') : rx'[i] = rx[i + 1] /\ i + 1 \in 1 .. Len(rx)
    BY TakenLine DEF Acknowledged
  <1>3. (\A x : Tracked(m, n, x)' <=> Tracked(m, n, x)) /\ (Strict(m, n)' <=> Strict(m, n))
    BY <1>1 DEF Tracked, Strict, Icily
  <1>4. DisciplineTx(m, n)' /\ DisciplineStep(m, n)' /\ DisciplineAck(m, n)'
    BY <1>1, <1>3 DEF Discipline, DisciplineTx, DisciplineStep, DisciplineAck
  <1>5. DisciplineReply(m, n)'
    <2>1. chip.running.old => ~Tracked(m, n, chip.running.name)
      BY <1>1, <1>2 DEF Discipline, DisciplineAck
    <2>2. \A i \in 1 .. Len(rx) : rx[i].old => ~Tracked(m, n, rx[i].name)
      BY <1>1, <1>2 DEF Discipline, DisciplineAck
    <2>3. \A i \in 1 .. Len(rx') : rx'[i].old => ~Tracked(m, n, rx'[i].name)
      BY <1>2, <2>2
    <2>4. Strict(m, n) => Len(tx) = 0
      BY AckMine
    <2>5. QED BY <1>1, <1>3, <2>1, <2>3, <2>4 DEF DisciplineReply
  <1>6. OrderIdle' /\ OrderRead' /\ OrderTx' /\ OrderRunning'
    BY <1>1, <1>2 DEF Order, OrderIdle, OrderRead, OrderTx, OrderRunning
  <1>7. OrderRx'
    <2>1. SUFFICES ASSUME NEW j \in 1 .. Len(rx'), ~rx'[j].old
          PROVE  Len(tx') = 0
                 /\ (rx'[j].t = "reply" => j = Len(rx') /\ rx'[j].name = Head(todo').name
                 /\ Answered')
      BY DEF OrderRx
    <2>2. j + 1 \in 1 .. Len(rx) /\ rx'[j] = rx[j + 1]
      BY <1>2, <2>1
    <2>3. Len(tx) = 0
          /\ (rx[j + 1].t = "reply" => j + 1 = Len(rx) /\ rx[j + 1].name = Head(todo).name
          /\ Answered)
      BY <1>1, <2>1, <2>2 DEF Order, OrderRx
    <2>4. Answered => Answered'
      BY <1>1 DEF Answered
    <2>5. QED BY <1>1, <1>2, <2>2, <2>3, <2>4
  <1>8. QED BY <1>4, <1>5, <1>6, <1>7 DEF Discipline, Order

LEMMA CleanAcknowledged ==
    ASSUME Types, NEW m, NEW n, Acknowledged, Clean(m, n)
    PROVE  Clean(m, n)'
  <1>1. at = "ack" /\ at' = "reply" /\ UNCHANGED <<todo, result, draining, chip, tx>>
    BY DEF Acknowledged
  <1>2. \A i \in 1 .. Len(rx') : rx'[i] = rx[i + 1] /\ i + 1 \in 1 .. Len(rx)
    BY TakenLine DEF Acknowledged
  <1>3. Settled(m, n)' <=> Settled(m, n)
    BY <1>1 DEF Settled, WakingUp
  <1>4. Fresh => Fresh'
    BY <1>1, <1>2 DEF Fresh
  <1>5. QED BY <1>1, <1>3, <1>4 DEF Clean

LEMMA PowerAcknowledged ==
    ASSUME Types, NEW m, NEW n, Placed(m, n), Acknowledged, Discipline(m, n), Order,
           Power(m, n), Waking(m, n)
    PROVE  Power(m, n)' /\ Waking(m, n)'
  <1>1. at = "ack" /\ at' = "reply" /\ UNCHANGED <<todo, result, draining, chip, tx>>
    BY DEF Acknowledged
  <1>2. (Awake(m, n)' <=> Awake(m, n)) /\ (WakingUp(m, n)' <=> WakingUp(m, n))
    BY <1>1 DEF Awake, WakingUp
  <1>3. Acked' /\ PowerStep' /\ PowerAck(m)' /\ WakingStep' /\ WakingAck'
    BY <1>1 DEF Acked, PowerStep, PowerAck, WakingStep, WakingAck
  <1>4. Awake(m, n) => PowerDownMine' /\ PowerReply'
    <2>1. SUFFICES ASSUME Awake(m, n) PROVE PowerDownMine' /\ PowerReply'
      OBVIOUS
    <2>2. PowerDownMine /\ PowerAck(m)
      BY <2>1 DEF Power
    <2>3. m # "failed_open" => ~InTx
      <3>1. m # "failed_open" => Strict(m, n)
        BY <2>1, AwakeStrict DEF Types
      <3>2. m # "failed_open" => Len(tx) = 0
        BY <3>1, AckMine
      <3>3. QED BY <3>2 DEF InTx
    <2>4. \/ chip.power = "on"
          \/ chip.power = "down" /\ Head(todo).name = "TgInitAsTarget"
          \/ Head(todo).name = "PowerDown"
      BY <1>1, <2>2, <2>3 DEF PowerAck
    <2>5. Head(todo).name = "TgInitAsTarget" => pnd'.power = "POWERDOWN"
      BY DEF Acknowledged
    <2>6. PowerReply'
      BY <1>1, <2>4, <2>5 DEF PowerReply
    <2>7. QED BY <1>1, <2>2, <2>6 DEF PowerDownMine
  <1>5. Power(m, n)'
    BY <1>2, <1>3, <1>4 DEF Power
  <1>6. Waking(m, n)'
    <2>1. WakingUp(m, n) => chip.power = "on"
      BY <1>1, TakenLine DEF Waking, WakingAck, Acknowledged
    <2>2. QED BY <1>1, <1>2, <1>3, <2>1 DEF Waking
  <1>7. QED BY <1>5, <1>6

LEMMA RestAcknowledged ==
    ASSUME Types, NEW m, NEW n, Acknowledged, Served(m, n), Idle(m, n), Target, Settings(m, n),
           AllSent
    PROVE  Served(m, n)' /\ Idle(m, n)' /\ Target' /\ Settings(m, n)' /\ AllSent'
  <1>1. /\ at = "ack" /\ at' = "reply"
        /\ UNCHANGED <<todo, result, role, chip, tx, pnd.oper, pnd.crc, pnd.par, pnd.pending,
           pnd.trigged>>
    BY DEF Acknowledged
  <1>2. Served(m, n)' /\ Idle(m, n)'
    BY <1>1 DEF Served, Idle, Asleep
  <1>3. Target' /\ AllSent'
    BY <1>1 DEF Target, AllSent, Sent
  <1>4. Settings(m, n)'
    BY <1>1 DEF Settings, Holds, Has, Asking, Writing
  <1>5. QED BY <1>2, <1>3, <1>4

\* All of them do.
LEMMA DeepAcknowledged ==
    ASSUME Types, NEW m, NEW n, Placed(m, n), Deep(m, n)
    PROVE  Accepted => Placed(m, n)' /\ Deep(m, n)'
  <1>1. SUFFICES ASSUME Accepted PROVE Placed(m, n)' /\ Deep(m, n)'
    OBVIOUS
  <1>2. Placed(m, n)' /\ Acknowledged
    BY <1>1, PlacedAck DEF Acknowledged, Accepted
  <1>3. QED BY <1>2, OrderAcknowledged, CleanAcknowledged, PowerAcknowledged, RestAcknowledged
           DEF Deep

-----------------------------------------------------------------------------
\* The reply comes.

\* The reply to the command has come.
Replied(f) ==
    /\ at = "reply" /\ at' = "step" /\ rx # <<>> /\ f = Head(rx) /\ f.t = "reply"
       /\ f.name = Head(todo).name
    /\ rx' = Tail(rx) /\ UNCHANGED <<draining, role, chip, tx>> /\ result = "ok"
       /\ result' = "ok"
    /\ Got(f) /\ ~pnd.trigged /\ todo # <<>> /\ Head(todo).op \in {"cmd", "frame"}

\* A reply that counts leaves an empty line.
LEMMA ReplyMine ==
    ASSUME Types, NEW m, NEW n, NEW f, Replied(f), Discipline(m, n), Order,
           Tracked(m, n, f.name)
    PROVE  Serene' /\ Answered /\ Len(tx) = 0 /\ chip.running.name = Idling
  <1>1. 1 \in 1 .. Len(rx) /\ Len(rx') = Len(rx) - 1 /\ Len(rx) \in Nat /\ rx[1] = f
        /\ at = "reply"
    BY TakenLine DEF Replied
  <1>2. ~f.old
    BY <1>1 DEF Discipline, DisciplineReply
  <1>3. Len(tx) = 0 /\ Answered
    BY <1>1, <1>2 DEF Order, OrderRx, Replied
  <1>4. chip.running.name = Idling
    BY <1>3 DEF Answered
  <1>5. Len(rx') = 0
    <2>1. PICK k : k \in Nat /\ k = Len(rx) /\ 1 \in 1 .. k /\ Len(rx') = k - 1
      BY <1>1
    <2>2. k = 1
      BY <1>1, <1>2, <2>1 DEF Order, OrderRx, Replied
    <2>3. k - 1 = 0
      BY <2>2
    <2>4. QED BY <2>1, <2>3
  <1>6. Serene'
    BY <1>3, <1>4, <1>5 DEF Serene, Replied
  <1>7. QED BY <1>3, <1>4, <1>6

\* One that does not count was taken by a drain or a close, from itself.
LEMMA ReplyOther ==
    ASSUME NEW m, NEW n \in Nat, NEW m2, NEW n2, NEW f, Replied(f), Placed(m, n),
           Issues(m, n, Len(todo), Head(todo)), Moves(m, n, Len(todo), Head(todo).name, m2, n2),
           ~Tracked(m, n, f.name)
    PROVE  /\ m2 = m
              /\ (draining \/ (m = "close" /\ n = 6 /\ n2 = 5)
              \/ (m = "close_target" /\ n = 5 /\ n2 = 4))
           /\ m = "close" => n2 = 5
           /\ m = "close_target" => n2 = 4
           /\ \A x : Tracked(m2, n2, x)' => Tracked(m, n, x)
  <1>1. f.name = Head(todo).name /\ result = "ok" /\ draining' = draining /\ at = "reply"
    BY DEF Replied
  <1>2. PICK l, h : l = Len(todo) /\ h = Head(todo) /\ Issues(m, n, l, h)
    OBVIOUS
  <1>3. ~(m = "failed_open" /\ h.name = "SAMConfiguration")
    BY <1>2 DEF Issues
  <1>4. Icily(m, n) /\ ~(h.name \in {"RFConfiguration", "PowerDown"})
    BY <1>1, <1>2, <1>3 DEF Tracked
  <1>5. draining \/ m \in {"close", "close_target"}
    <2>1. ~(m = "timed_out" /\ n <= 2)
      BY <1>2 DEF Issues
    <2>2. QED BY <1>1, <1>4, <2>1 DEF Icily
  <1>6. draining => m \in {"receive", "send", "close", "close_target"}
    BY DEF Placed, Control
  <1>7. ~(h.name = "InJumpForDEP")
    BY <1>2, <1>5, <1>6 DEF Issues
  <1>8. m2 = m
    BY <1>2, <1>7 DEF Moves
  <1>9. (m = "close" => n = 6 /\ n2 = 5) /\ (m = "close_target" => n = 5 /\ n2 = 4)
    <2>1. m = "close" => n = 6 /\ l = 6
      BY <1>2, <1>4 DEF Issues
    <2>2. m = "close_target" => n = 5 /\ l = 5
      BY <1>2, <1>4 DEF Issues
    <2>3. n2 = IF l = n THEN n - 1 ELSE n
      BY <1>2, <1>7 DEF Moves
    <2>4. QED BY <2>1, <2>2, <2>3
  <1>10. \A x : Tracked(m2, n2, x)' => Tracked(m, n, x)
    BY <1>1, <1>4, <1>5, <1>6, <1>8 DEF Tracked, Icily
  <1>11. QED BY <1>5, <1>6, <1>8, <1>9, <1>10

\* Discipline and order survive the reply.
LEMMA OrderReplied ==
    ASSUME Types, NEW m, NEW n \in Nat, NEW m2, NEW n2, NEW f, Replied(f), Placed(m, n),
           Issues(m, n, Len(todo), Head(todo)), Moves(m, n, Len(todo), Head(todo).name, m2, n2),
           Discipline(m, n), Order
    PROVE  Discipline(m2, n2)' /\ Order'
  <1>1. at = "reply" /\ at' = "step" /\ UNCHANGED <<draining, chip, tx>>
        /\ f.name = Head(todo).name
    BY DEF Replied
  <1>2. Len(rx) \in Nat /\ \A i \in 1 .. Len(rx') : rx'[i] = rx[i + 1] /\ i + 1 \in 1 .. Len(rx)
    BY TakenLine DEF Replied
  <1>3. DisciplineStep(m2, n2)'
    <2>1. CASE Tracked(m, n, f.name)
      <3>1. Len(tx') = 0
        BY <1>1, <2>1, ReplyMine
      <3>2. QED BY <3>1 DEF DisciplineStep
    <2>2. CASE ~Tracked(m, n, f.name)
      <3>1. \A i \in 1 .. Len(tx) : tx[i].t = "cmd" => ~Tracked(m, n, tx[i].name)
        <4>1. SUFFICES ASSUME NEW i \in 1 .. Len(tx), tx[i].t = "cmd"
                              PROVE ~Tracked(m, n, tx[i].name)
          OBVIOUS
        <4>2. CASE tx[i].old
          BY <1>1, <4>1, <4>2 DEF Discipline, DisciplineTx
        <4>3. CASE ~tx[i].old
          <5>1. tx[i].name = f.name
            BY <1>1, <4>1, <4>3 DEF Order, OrderTx
          <5>2. QED BY <2>2, <5>1
        <4>4. QED BY <4>2, <4>3
      <3>2. \A x : Tracked(m2, n2, x)' => Tracked(m, n, x)
        BY <2>2, ReplyOther
      <3>3. QED BY <1>1, <3>1, <3>2 DEF DisciplineStep
    <2>3. QED BY <2>1, <2>2
  <1>4. DisciplineTx(m2, n2)' /\ DisciplineAck(m2, n2)' /\ DisciplineReply(m2, n2)'
    BY <1>1 DEF DisciplineTx, DisciplineAck, DisciplineReply
  <1>5. Order'
    BY <1>1, <1>2 DEF Order, OrderIdle, OrderRead, OrderTx, OrderRunning, OrderRx
  <1>6. QED BY <1>3, <1>4, <1>5 DEF Discipline

\* The line is empty where it has to be.
LEMMA CleanReplied ==
    ASSUME Types, NEW m, NEW n \in Nat, NEW m2, NEW n2, NEW f, Replied(f), Placed(m, n),
           Issues(m, n, Len(todo), Head(todo)), Moves(m, n, Len(todo), Head(todo).name, m2, n2),
           Discipline(m, n), Order
    PROVE  Clean(m2, n2)'
  <1>1. at' = "step" /\ draining' = draining
    BY DEF Replied
  <1>2. CASE Tracked(m, n, f.name)
    BY <1>1, <1>2, ReplyMine DEF Clean
  <1>3. CASE ~Tracked(m, n, f.name)
    <2>1. /\ m2 = m /\ (draining \/ m \in {"close", "close_target"})
          /\ draining => m \in {"receive", "send", "close", "close_target"}
          /\ (m = "close" => n2 = 5) /\ (m = "close_target" => n2 = 4)
      BY <1>3, ReplyOther DEF Placed, Control
    <2>2. ~(Settled(m2, n2)')
      BY <1>1, <2>1 DEF Settled
    <2>3. QED BY <2>2 DEF Clean
  <1>4. QED BY <1>2, <1>3

\* How a reply that is taken moves the script.
Onward(m, n, m2, n2) ==
    /\ n \in Nat /\ n2 \in Nat /\ Placed(m, n) /\ Placed(m2, n2)'
    /\ Issues(m, n, Len(todo), Head(todo)) /\ Moves(m, n, Len(todo), Head(todo).name, m2, n2)
    /\ Len(todo) \in Nat /\ Len(todo') \in Nat /\ (Len(todo') = 0 \/ Len(todo') = Len(todo) - 1)

\* The chip is awake for the next command if it was for the last.
LEMMA WakingReplied ==
    ASSUME NEW m, NEW n, NEW m2, NEW n2, NEW f, Replied(f), Onward(m, n, m2, n2)
    PROVE  /\ Waking(m2, n2)'
           /\ Awake(m2, n2)' => (Awake(m, n) \/ WakingUp(m, n))
              /\ ~(Head(todo).name = "PowerDown")
  <1>1. PICK l, h : l \in Nat /\ l = Len(todo) /\ h = Head(todo) /\ Issues(m, n, l, h)
             /\ Moves(m, n, l, h.name, m2, n2)
    BY DEF Onward
  <1>2. PICK k : k \in Nat /\ k = Len(todo') /\ (k = 0 \/ k = l - 1) /\ n \in Nat /\ n2 \in Nat
    BY <1>1 DEF Onward
  <1>3. at = "reply" /\ result' = result /\ ~(m = "open" /\ n >= 6)
    BY DEF Replied, Onward, Placed, Control
  <1>4. m2 = "open" => m = "open" /\ n2 <= 5 /\ n <= 5 /\ ~(n2 = 5 /\ k = 7)
    BY <1>1, <1>2, <1>3 DEF Issues, Moves
  <1>5. Waking(m2, n2)'
    BY <1>2, <1>4 DEF Waking, WakingUp
  <1>6. m2 = m \/ (m2 = "poll" /\ m = "poll")
    BY <1>1 DEF Moves, Issues
  <1>7. m \in {"failed_open", "timed_out"} => n2 <= n
    BY <1>1, <1>2 DEF Moves, Issues
  <1>8. Awake(m2, n2)' => Awake(m, n) \/ WakingUp(m, n)
    BY <1>2, <1>3, <1>4, <1>6, <1>7 DEF Awake, WakingUp
  <1>9. h.name = "PowerDown" => /\ m = "failed_open" \/ m = "close" \/ m = "close_target"
                                   \/ m = "timed_out"
                                /\ (m = "failed_open" => n = 5 /\ l = 5)
                                   /\ (m = "timed_out" => n = 4 /\ l = 4)
    BY <1>1, <1>2 DEF Issues
  <1>10. h.name = "PowerDown" => n2 = (IF l = n THEN n - 1 ELSE n)
    BY <1>1, <1>2 DEF Moves
  <1>11. h.name = "PowerDown" => ~(Awake(m2, n2)')
    BY <1>2, <1>6, <1>9, <1>10 DEF Awake
  <1>12. QED BY <1>1, <1>5, <1>8, <1>11

\* It is awake.
LEMMA PowerReplied ==
    ASSUME Types, NEW m, NEW n, NEW m2, NEW n2, NEW f, Replied(f), Onward(m, n, m2, n2),
           Discipline(m, n), Order, Power(m, n), Waking(m, n)
    PROVE  Power(m2, n2)'
  <1>1. SUFFICES ASSUME Awake(m2, n2)'
                 PROVE  Acked' /\ PowerDownMine' /\ PowerStep' /\ PowerAck(m2)' /\ PowerReply'
    BY DEF Power
  <1>2. at = "reply" /\ at' = "step" /\ UNCHANGED <<draining, chip>> /\ f.name = Head(todo).name
        /\ Got(f)
    BY DEF Replied
  <1>3. Tracked(m, n, f.name)
    <2>1. SUFFICES ASSUME ~Tracked(m, n, f.name) PROVE FALSE
      OBVIOUS
    <2>2. m2 = m /\ (draining \/ m \in {"close", "close_target"})
      BY <2>1, ReplyOther DEF Onward
    <2>3. m \in {"receive", "send", "close", "close_target"}
      BY <2>2 DEF Onward, Placed, Control
    <2>4. QED BY <1>1, <2>2, <2>3 DEF Awake
  <1>4. Serene' /\ Answered
    BY <1>3, ReplyMine
  <1>5. (Awake(m, n) \/ WakingUp(m, n)) /\ ~(Head(todo).name = "PowerDown")
    BY <1>1, WakingReplied
  <1>6. chip.power = "on" \/ (chip.power = "down" /\ pnd.power = "POWERDOWN")
    BY <1>2, <1>5 DEF Power, PowerReply, Waking
  <1>7. chip'.power = "on" \/ (chip'.power = "down" /\ pnd'.power = "POWERDOWN")
    <2>1. CASE Head(todo).name = "TgInitAsTarget"
      BY <1>2, <1>4, <2>1 DEF Answered
    <2>2. CASE ~(Head(todo).name = "TgInitAsTarget")
      BY <1>2, <1>5, <1>6, <2>2 DEF Got
    <2>3. QED BY <2>1, <2>2
  <1>8. ~(chip'.running.name = "PowerDown")
    BY <1>4 DEF Serene, Idling
  <1>9. QED
    BY <1>2, <1>7, <1>8 DEF Acked, PowerDownMine, PowerStep, PowerAck, PowerReply

\* A chip that was put to sleep sleeps.
LEMMA IdleReplied ==
    ASSUME Types, NEW m, NEW n, NEW m2, NEW n2, NEW f, Replied(f), Onward(m, n, m2, n2),
           Discipline(m, n), Order, Idle(m, n), Target
    PROVE  Idle(m2, n2)'
  <1>1. PICK l, h : l \in Nat /\ l = Len(todo) /\ h = Head(todo) /\ Issues(m, n, l, h)
             /\ Moves(m, n, l, h.name, m2, n2)
                    /\ n \in Nat /\ n2 \in Nat
    BY DEF Onward
  <1>2. at = "reply" /\ at' = "step" /\ UNCHANGED <<role, draining, chip>> /\ f.name = h.name
        /\ Got(f)
    BY <1>1 DEF Replied
  <1>3. ~(pnd'.oper = "IDLE")
    BY <1>2 DEF Got, Idle, Asleep
  <1>4. f.name \in {"PowerDown", "RFConfiguration"} => Answered /\ Serene'
    <2>1. f.name \in {"PowerDown", "RFConfiguration"} => Tracked(m, n, f.name)
      BY DEF Tracked
    <2>2. QED BY <2>1, ReplyMine
  <1>5. /\ m2 \in {"close", "close_target", "timed_out"} /\ n2 = 3
           => m2 = m /\ n = 4 /\ h.name = "PowerDown"
        /\ m2 = "failed_open" /\ n2 = 4 => m = "failed_open" /\ n = 5 /\ h.name = "PowerDown"
    BY <1>1 DEF Issues, Moves
  <1>6. (m2 = "close" /\ n2 = 4) \/ (m2 = "failed_open" /\ n2 = 5)
        => h.name = "RFConfiguration" /\ h.arg = {"off"}
    BY <1>1 DEF Issues, Moves
  <1>7. m \in {"close_target", "timed_out"} => role = "target"
    <2>1. role \in {"initiator", "target"}
      BY BoundAssumption DEF Types, SpentTypes
    <2>2. QED BY <2>1 DEF Onward, Placed, OperMode
  <1>8. h.name = "PowerDown" /\ m \in {"failed_open", "close", "close_target", "timed_out"}
          /\ (m = "failed_open" => n = 5) /\ (m = "close" => n = 4) => Asleep'
    <2>1. SUFFICES ASSUME h.name = "PowerDown",
                          m \in {"failed_open", "close", "close_target", "timed_out"},
                          m = "failed_open" => n = 5, m = "close" => n = 4
                   PROVE  Asleep'
      OBVIOUS
    <2>2. Serene' /\ chip'.power = "lowvbat" /\ pnd'.power = "LOWVBAT"
      BY <1>1, <1>2, <1>4, <2>1 DEF Answered, Got
    <2>3. ~chip.field
      BY <1>7, <2>1 DEF Idle, Target
    <2>4. QED BY <1>2, <2>2, <2>3 DEF Asleep
  <1>9. h.name = "RFConfiguration" /\ h.arg = {"off"} => ~chip'.field
    BY <1>1, <1>2, <1>4 DEF Answered
  <1>10. QED BY <1>3, <1>5, <1>6, <1>8, <1>9 DEF Idle

\* The calls that set registers.
Setting == {"open", "initiator_init", "poll", "target_init"}

\* A register that was being written, or has been read, has what was asked for.
LEMMA RegsReplied ==
    ASSUME Types, NEW m, NEW n, NEW f, Replied(f), Placed(m, n), Discipline(m, n), Order,
           m \in Setting
    PROVE  \A x : x \in chip.regs \/ x \in pnd.pending \/ Writing(x)
           => x \in chip'.regs \/ x \in pnd'.pending
  <1>1. SUFFICES ASSUME NEW x, x \in chip.regs \/ x \in pnd.pending \/ Writing(x)
                 PROVE  x \in chip'.regs \/ x \in pnd'.pending
    OBVIOUS
  <1>2. at = "reply" /\ chip' = chip /\ f.name = Head(todo).name /\ Got(f) /\ result = "ok"
        /\ f = Head(rx) /\ f.t = "reply"
    BY DEF Replied
  <1>3. CASE Writing(x)
    <2>1. ~draining
      BY DEF Placed, Control, Setting
    <2>2. Tracked(m, n, f.name)
      BY <1>2, <2>1 DEF Tracked, Icily, Setting
    <2>3. Answered
      BY <2>2, ReplyMine
    <2>4. QED BY <1>2, <1>3, <2>3 DEF Answered, Writing
  <1>4. CASE x \in pnd.pending /\ ~(f.name = "ReadRegister")
    BY <1>2, <1>4 DEF Got
  <1>5. CASE x \in pnd.pending /\ f.name = "ReadRegister"
    <2>1. pnd'.pending = pnd.pending \ (Partial(pnd.pending) \cap f.arg)
      BY <1>2, <1>5 DEF Got
    <2>2. 1 \in 1 .. Len(rx) /\ rx[1] = f
      BY <1>2, TakenLine DEF Replied
    <2>3. f.arg \subseteq chip.regs
      BY <1>2, <1>5, <2>2 DEF Order, OrderRead
    <2>4. QED BY <1>2, <1>5, <2>1, <2>3
  <1>6. CASE x \in chip.regs
    BY <1>2, <1>6
  <1>7. QED BY <1>1, <1>3, <1>4, <1>5, <1>6

\* Registers wait for a write only while the cache is asked for.
LEMMA PendingReplied ==
    ASSUME Types, NEW m, NEW n, NEW m2, NEW n2, NEW f, Replied(f), Onward(m, n, m2, n2),
           Settings(m, n),
           m \in Setting, Head(todo).name = "InJumpForDEP" \/ todo' = Tail(todo)
    PROVE  /\ ~(pnd'.pending = {}) => Asking' \/ (m2 = "target_init" /\ n2 = 4)
              \/ (m2 = "poll" /\ ~(n2 = LastPoll))
           /\ ~(Head(todo).name \in {"ReadRegister", "WriteRegister"})
              => pnd'.pending = pnd.pending
           /\ ~(Head(todo).name = "ReadRegister") => pnd.pending = {}
              \/ (m = "target_init" /\ n = 4) \/ (m = "poll" /\ ~(n = LastPoll))
  <1>1. PICK l, h : l \in Nat /\ l = Len(todo) /\ h = Head(todo) /\ Issues(m, n, l, h)
             /\ Moves(m, n, l, h.name, m2, n2)
                    /\ n \in Nat /\ n2 \in Nat
    BY DEF Onward
  <1>2. at = "reply" /\ chip' = chip /\ f.name = h.name /\ Got(f) /\ result = "ok"
        /\ ~pnd.trigged
    BY <1>1 DEF Replied
  <1>3. h.op \in {"cmd", "frame"} /\ todo # <<>>
    BY <1>1 DEF Replied
  <1>4. pnd.pending = {} \/ Asking \/ (m = "target_init" /\ n = 4)
        \/ (m = "poll" /\ ~(n = LastPoll))
    BY <1>2 DEF Settings, Setting
  <1>5. Asking => h.name = "ReadRegister"
    BY <1>1, <1>3 DEF Asking
  <1>6. pnd.pending = {} => pnd'.pending = {}
    BY <1>2 DEF Got
  <1>7. h.name = "ReadRegister" => Asking'
    <2>1. SUFFICES ASSUME h.name = "ReadRegister" PROVE Asking'
      OBVIOUS
    <2>2. l > n /\ n >= 1 /\ todo' = Tail(todo)
      BY <1>1, <2>1 DEF Issues
    <2>3. Is(todo[2], "write", "")
      <3>1. HostTypes /\ Where(m, n)
        BY DEF Types, Onward, Placed
      <3>2. \/ Len(todo) = n
            \/ Is(Head(todo), "frame", "Diagnose") \/ Is(Head(todo), "cmd", "SAMConfiguration")
            \/ Is(Head(todo), "cmd", "SetParameters") \/ Is(Head(todo), "write", "")
            \/ Is(todo[2], "write", "") \/ Is(Head(todo), "cmd", "WriteRegister")
        BY <1>3, <3>1, Heads
      <3>3. ~(Len(todo) = n)
        BY <1>1, <2>2
      <3>4. QED BY <1>1, <2>1, <3>2, <3>3 DEF Is
    <2>4. todo \in Seq(StepType)
      BY DEF Types, HostTypes
    <2>5. Tail(todo) \in Seq(StepType) /\ Len(Tail(todo)) = l - 1
          /\ \A i \in 1 .. l - 1 : Tail(todo)[i] = todo[i + 1]
      BY <1>1, <1>3, <2>4, HeadTyped
    <2>6. l - 1 >= 1 /\ 1 \in 1 .. l - 1
      BY <1>1, <2>2
    <2>7. Tail(todo)[1] = todo[2]
      BY <2>5, <2>6
    <2>8. Tail(todo) # <<>> /\ Head(Tail(todo)) = Tail(todo)[1]
      BY <2>5, <2>6
    <2>9. QED BY <2>2, <2>3, <2>7, <2>8 DEF Asking, Is
  <1>8. m = "target_init" /\ n = 4 => m2 = "target_init" /\ n2 = 4
    <2>1. m = "target_init" /\ n = 4 => l > n /\ ~(h.name = "InJumpForDEP")
      BY <1>1 DEF Issues
    <2>2. m = "target_init" /\ n = 4 => ~(l = n)
      <3>1. l \in Nat /\ n \in Nat
        BY <1>1
      <3>2. l > n => ~(l = n)
        BY <3>1
      <3>3. QED BY <2>1, <3>2
    <2>3. ~(h.name = "InJumpForDEP") => m2 = m /\ n2 = (IF l = n THEN n - 1 ELSE n)
      BY <1>1 DEF Moves
    <2>4. QED BY <2>1, <2>2, <2>3
  <1>9. ~(h.name = "ReadRegister") => pnd'.pending = pnd.pending
    BY <1>2 DEF Got
  <1>10. m = "poll" /\ ~(n = LastPoll) => m2 = "poll" /\ ~(n2 = LastPoll)
    <2>1. LastPoll \in Nat /\ LastPoll >= 2
      BY BoundAssumption DEF LastPoll
    <2>2. HostTypes /\ Where(m, n)
      BY DEF Types, Onward, Placed
    <2>3. n <= Length(m)
      BY <2>2, WhereParts
    <2>4. m = "poll" => n <= LastPoll
      BY <2>3, Lengths
    <2>5. QED BY <1>1, <2>1, <2>4 DEF Moves
  <1>11. QED BY <1>1, <1>4, <1>5, <1>6, <1>7, <1>8, <1>9, <1>10

\* The settings survive the reply.
LEMMA SettingsReplied ==
    ASSUME Types, NEW m, NEW n, NEW m2, NEW n2, NEW f, Replied(f), Onward(m, n, m2, n2),
           Discipline(m, n), Order,
           Settings(m, n), Head(todo).name = "InJumpForDEP" \/ todo' = Tail(todo)
    PROVE  Settings(m2, n2)'
  <1>1. PICK l, h : l \in Nat /\ l = Len(todo) /\ h = Head(todo) /\ Issues(m, n, l, h)
             /\ Moves(m, n, l, h.name, m2, n2)
                    /\ n \in Nat /\ n2 \in Nat
    BY DEF Onward
  <1>2. SUFFICES ASSUME m2 \in Setting PROVE Settings(m2, n2)'
    BY DEF Settings, Setting
  <1>3. (m2 = m \/ (m2 = "poll" /\ m = "poll" /\ n2 = 0)) /\ m \in Setting
    BY <1>1, <1>2 DEF Issues, Moves, Setting
  <1>4. Placed(m, n) /\ Got(f) /\ result = "ok" /\ chip' = chip /\ ~pnd.trigged
    BY DEF Onward, Replied
  <1>5. \A x : x \in chip.regs \/ x \in pnd.pending \/ Writing(x)
        => x \in chip'.regs \/ x \in pnd'.pending
    BY <1>3, <1>4, RegsReplied
  <1>6. \A F : Holds(F) => Holds(F)'
    BY <1>5 DEF Holds
  <1>7. \A F : Has(F) => Has(F)'
    BY <1>4 DEF Has
  <1>8. pnd'.pending = {} \/ Asking' \/ (m2 = "target_init" /\ n2 = 4)
        \/ (m2 = "poll" /\ ~(n2 = LastPoll))
    BY <1>3, PendingReplied
  <1>9. pnd'.crc = pnd.crc /\ pnd'.par = pnd.par
    BY <1>4 DEF Got
  <1>10. LastPoll \in Nat /\ LastPoll >= 2
    BY BoundAssumption DEF LastPoll
  <1>11. /\ m2 = "initiator_init" /\ n2 <= 3 => n = n2
         /\ m2 = "poll" /\ n2 = LastPoll => n = n2
         /\ m2 = "poll" /\ ~(n2 = LastPoll) => ~(n = LastPoll) \/ h.name = "RFConfiguration"
         /\ m2 = "target_init" /\ n2 <= 12 => n <= 12
         /\ m2 = "target_init" /\ n2 <= 11 => n <= 11
         /\ m2 = "target_init" /\ n2 <= 9 => n <= 9 \/ (n = 10 /\ h.name = "RFConfiguration")
         /\ m2 = "target_init" /\ n2 <= 3 => n <= 3
    <2>1. ~(h.name = "InJumpForDEP") => n2 = (IF l = n THEN n - 1 ELSE n)
      BY <1>1 DEF Moves
    <2>2. /\ h.name = "InJumpForDEP" => m = "poll" /\ ~(n = LastPoll) /\ n2 = 0 /\ m2 = "poll"
          /\ m = "initiator_init" => ~(l = n) \/ n >= 6
          /\ m = "poll" => ~(l = n) \/ ~(n = LastPoll) \/ h.name = "RFConfiguration"
          /\ m = "poll" /\ l = n => n <= LastPoll
          /\ m = "target_init" => ~(l = n) \/ n = 2 \/ (n = 10 /\ h.name = "RFConfiguration")
      BY <1>1, <1>3, <1>10 DEF Issues, Moves
    <2>3. QED BY <1>1, <1>3, <1>10, <2>1, <2>2
  <1>12. h.name = "RFConfiguration" /\ ~(m = "target_init" /\ n = 4)
         /\ ~(m = "poll" /\ ~(n = LastPoll)) => \A F : Holds(F) => Has(F)'
    <2>1. SUFFICES ASSUME h.name = "RFConfiguration", ~(m = "target_init" /\ n = 4),
                          ~(m = "poll" /\ ~(n = LastPoll)), NEW F, Holds(F)
                   PROVE  Has(F)'
      OBVIOUS
    <2>2. pnd.pending = {} /\ \A x : ~Writing(x)
      BY <1>1, <1>3, <2>1, PendingReplied DEF Writing
    <2>3. QED BY <1>4, <2>1, <2>2 DEF Holds, Has
  <1>13. CASE m2 = "open"
    <2>1. m = "open" /\ n2 >= 2
      BY <1>1, <1>3, <1>13 DEF Issues, Moves
    <2>2. pnd'.pending = {} /\ ~pnd'.crc /\ ~pnd'.par
      BY <1>13, <2>1 DEF Onward, Placed, Control
    <2>3. QED BY <1>13, <2>2 DEF Settings
  <1>14. CASE m2 = "initiator_init"
    <2>1. m = "initiator_init" /\ (n2 <= 3 => n = n2) /\ ~(m2 = "poll") /\ ~(m2 = "target_init")
      BY <1>3, <1>11, <1>14
    <2>2. /\ pnd.crc => Holds(Crc)
          /\ pnd.par => Holds({"parity"})
          /\ n <= 3 => Holds(Iso14443a) /\ Holds(Framing)
          /\ n <= 2 => Holds(Reset)
          /\ n <= 1 => Holds({"initiator"})
      BY <1>4, <2>1 DEF Settings
    <2>3. /\ pnd'.crc => Holds(Crc)'
          /\ pnd'.par => Holds({"parity"})'
          /\ n2 <= 3 => Holds(Iso14443a)' /\ Holds(Framing)'
          /\ n2 <= 2 => Holds(Reset)'
          /\ n2 <= 1 => Holds({"initiator"})'
      BY <1>1, <1>6, <1>9, <2>1, <2>2
    <2>4. QED BY <1>8, <2>1, <2>3, <1>14 DEF Settings
  <1>15. CASE m2 = "poll"
    BY <1>3, <1>4, <1>6, <1>7, <1>8, <1>9, <1>11, <1>12, <1>15 DEF Settings
  <1>16. CASE m2 = "target_init"
    BY <1>3, <1>4, <1>6, <1>7, <1>8, <1>9, <1>11, <1>12, <1>16 DEF Settings
  <1>17. QED BY <1>2, <1>13, <1>14, <1>15, <1>16 DEF Setting

\* So does the rest.
LEMMA RestReplied ==
    ASSUME NEW m, NEW n, NEW m2, NEW n2, NEW f, Replied(f), Onward(m, n, m2, n2), Served(m, n),
           Target, AllSent
    PROVE  Served(m2, n2)' /\ Target' /\ AllSent'
  <1>1. UNCHANGED <<role, chip, tx>>
    BY DEF Replied
  <1>2. m2 \in {"receive", "send"} => m2 = m
    BY DEF Onward, Moves
  <1>3. Served(m2, n2)'
    BY <1>1, <1>2 DEF Served
  <1>4. Target' /\ AllSent'
    BY <1>1 DEF Target, AllSent, Fieldless, Sent
  <1>5. QED BY <1>3, <1>4

\* The reply is taken, and what is left of the script is done next.
LEMMA TakesReply ==
    ASSUME Types, NEW m, NEW n, Placed(m, n), ReceiveReply, Mine(Head(rx)),
           Head(rx).st \in {"ok", "stranger"}
    PROVE  Replied(Head(rx))
  <1>1. at = "reply" /\ rx # <<>> /\ UNCHANGED <<draining, role, chip, tx>>
    BY DEF ReceiveReply, Keep
  <1>2. Got(Head(rx)) /\ rx' = Tail(rx) /\ Accept(Head(rx))
    BY GotBy
  <1>3. todo # <<>> /\ Head(todo).op \in {"cmd", "frame"} /\ ~pnd.trigged /\ result = "ok"
    BY <1>1 DEF Types, HostTypes, Placed, Control
  <1>4. at' = "step" /\ result' = result
    BY <1>2 DEF Accept
  <1>5. QED BY <1>1, <1>2, <1>3, <1>4 DEF Replied, Mine

\* And all of it.
LEMMA DeepReplied ==
    ASSUME Types, NEW m, NEW n, Placed(m, n), Deep(m, n), ReceiveReply
    PROVE  Mine(Head(rx)) /\ Head(rx).st = "ok" => \E m2, n2 : Placed(m2, n2)' /\ Deep(m2, n2)'
  <1>1. SUFFICES ASSUME Mine(Head(rx)), Head(rx).st = "ok"
                 PROVE  \E m2, n2 : Placed(m2, n2)' /\ Deep(m2, n2)'
    OBVIOUS
  <1>2. PICK f : f = Head(rx) /\ Replied(f)
    BY <1>1, TakesReply
  <1>3. PICK m2, n2 : Placed(m2, n2)' /\ Moves(m, n, Len(todo), Head(todo).name, m2, n2)
    BY <1>1, PlacedReply
  <1>4. /\ todo' = (IF Head(todo).name = "InJumpForDEP" THEN <<>> ELSE Tail(todo))
        /\ Issues(m, n, Len(todo), Head(todo))
    BY <1>1, PlacedReply
  <1>5. /\ todo # <<>> /\ todo \in Seq(StepType) /\ HostTypes
        /\ Head(todo).name = "InJumpForDEP" \/ todo' = Tail(todo)
    BY <1>2, <1>4 DEF Replied, Types, HostTypes
  <1>6. Onward(m, n, m2, n2)
    <2>1. n \in Nat /\ Len(todo) \in Nat
      BY <1>5, WhereParts DEF Placed
    <2>2. n2 \in Nat
      BY <1>3, LengthNat DEF Placed, Where
    <2>3. Len(Tail(todo)) = Len(todo) - 1 /\ Len(todo) \in Nat \ {0}
      BY <1>5, HeadTyped
    <2>4. Len(todo') \in Nat /\ (Len(todo') = 0 \/ Len(todo') = Len(todo) - 1)
      BY <1>4, <2>3
    <2>5. QED BY <1>3, <1>4, <2>1, <2>2, <2>4 DEF Onward
  <1>7. /\ Discipline(m, n) /\ Order /\ Clean(m, n) /\ Power(m, n) /\ Waking(m, n)
           /\ Served(m, n)
        /\ Idle(m, n) /\ Target /\ Settings(m, n) /\ AllSent
    BY DEF Deep
  <1>8. Discipline(m2, n2)' /\ Order' /\ Clean(m2, n2)'
    BY <1>2, <1>6, <1>7, OrderReplied, CleanReplied DEF Onward
  <1>9. Power(m2, n2)' /\ Waking(m2, n2)'
    BY <1>2, <1>6, <1>7, PowerReplied, WakingReplied
  <1>10. Idle(m2, n2)' /\ Served(m2, n2)' /\ Target' /\ AllSent'
    BY <1>2, <1>6, <1>7, IdleReplied, RestReplied
  <1>11. Settings(m2, n2)'
    BY <1>2, <1>5, <1>6, <1>7, SettingsReplied
  <1>12. QED BY <1>3, <1>8, <1>9, <1>10, <1>11 DEF Deep

\* A reader that is no initiator wakes the target, which waits again.
LEMMA DeepStranger ==
    ASSUME Types, NEW m, NEW n, Placed(m, n), Deep(m, n), ReceiveReply
    PROVE  Mine(Head(rx)) /\ Head(rx).st = "stranger" => Placed(m, n)' /\ Deep(m, n)'
  <1>1. SUFFICES ASSUME Mine(Head(rx)), Head(rx).st = "stranger"
                 PROVE  Placed(m, n)' /\ Deep(m, n)'
    OBVIOUS
  <1>2. PICK f : f = Head(rx) /\ Replied(f)
    BY <1>1, TakesReply
  <1>3. /\ Placed(m, n)' /\ at' = "step" /\ result = "ok"
           /\ UNCHANGED <<todo, result, draining>>
        /\ m = "target_init" /\ n = 2 /\ Len(todo) = 2 /\ Head(todo).name = "TgInitAsTarget"
    BY <1>1, PlacedStranger
  <1>4. /\ Discipline(m, n) /\ Order /\ Power(m, n) /\ Waking(m, n) /\ Served(m, n)
        /\ Idle(m, n) /\ Target /\ Settings(m, n) /\ AllSent
    BY DEF Deep
  <1>5. at = "reply" /\ UNCHANGED <<role, chip, tx>> /\ f.name = "TgInitAsTarget" /\ Got(f)
    BY <1>2, <1>3 DEF Replied
  <1>6. Serene' /\ Answered
    <2>1. ~draining
      BY <1>3 DEF Placed, Control
    <2>2. Tracked(m, n, f.name)
      BY <1>3, <2>1 DEF Tracked, Icily
    <2>3. QED BY <1>2, <1>4, <2>2, ReplyMine
  <1>7. chip'.power = "on" /\ chip'.running.name = Idling
    BY <1>3, <1>5, <1>6 DEF Answered, Serene
  <1>8. Discipline(m, n)' /\ Clean(m, n)'
    BY <1>3, <1>6 DEF Discipline, DisciplineStep, DisciplineTx, DisciplineAck, DisciplineReply,
       Clean, Settled, Serene
  <1>9. Order'
    <2>1. Len(rx') = 0 /\ chip' = chip
      BY <1>5, <1>6 DEF Serene
    <2>2. QED BY <1>3, <1>4, <2>1 DEF Order, OrderIdle, OrderRead, OrderTx, OrderRunning,
             OrderRx
  <1>10. Power(m, n)' /\ Waking(m, n)'
    BY <1>3, <1>7 DEF Power, Acked, PowerDownMine, PowerStep, PowerAck, PowerReply, Waking,
       WakingUp, Idling
  <1>11. Served(m, n)' /\ Target' /\ AllSent'
    BY <1>3, <1>4, <1>5 DEF Served, Target, AllSent, Fieldless, Sent
  <1>12. Idle(m, n)'
    BY <1>3, <1>4, <1>5 DEF Idle, Asleep, Got
  <1>13. Settings(m, n)'
    BY <1>3, <1>4, <1>5 DEF Settings, Got, Holds, Has, Writing, Asking
  <1>14. QED BY <1>3, <1>8, <1>9, <1>10, <1>11, <1>12, <1>13 DEF Deep

-----------------------------------------------------------------------------
\* A command fails.

\* A command fails, and the script goes on at (m2, n2).
Breaks(m, n, m2, n2, e) ==
    /\ n \in Nat /\ n2 \in Nat /\ Placed(m, n) /\ Placed(m2, n2)' /\ Failed(m, n, e, m2, n2)
    /\ Issues(m, n, Len(todo), Head(todo)) /\ Len(todo) \in Nat /\ Len(todo') = n2
    /\ at \in {"ack", "reply"} /\ at' = "step" /\ result = "ok" /\ e \in Errors
    /\ UNCHANGED <<role, draining, chip, pnd.oper, pnd.crc, pnd.par, pnd.trigged, pnd.pending>>
    /\ \A i \in 1 .. Len(rx') : \E j \in 1 .. Len(rx) : rx'[i] = rx[j]
    /\ \A i \in 1 .. Len(tx') : tx'[i].t = "cmd" => i \in 1 .. Len(tx) /\ tx'[i] = tx[i]

\* What counts after a failure counted before it.
LEMMA TrackedBreaks ==
    ASSUME NEW m, NEW n, NEW m2, NEW n2, NEW e, Breaks(m, n, m2, n2, e)
    PROVE  \A x : Tracked(m2, n2, x)' => Tracked(m, n, x)
  <1>1. PICK l, h : l \in Nat /\ l = Len(todo) /\ h = Head(todo) /\ Issues(m, n, l, h)
             /\ n \in Nat /\ n2 \in Nat
    BY DEF Breaks
  <1>2. /\ m2 = m \/ (m = "open" /\ m2 = "failed_open")
           \/ (m = "target_init" /\ m2 = "timed_out")
        /\ m2 = m => n2 <= n
    BY <1>1 DEF Breaks, Failed, Lands, Issues
  <1>3. draining' = draining /\ result = "ok"
        /\ (draining => m \in {"receive", "send", "close", "close_target"})
    BY DEF Breaks, Placed, Control
  <1>4. m2 # "failed_open" /\ Icily(m, n) => Icily(m2, n2)'
    BY <1>1, <1>2, <1>3 DEF Icily
  <1>5. m2 = "failed_open" => ~Icily(m, n)
    BY <1>1, <1>2, <1>3 DEF Icily
  <1>6. m = "failed_open" => m2 = "failed_open"
    BY <1>2
  <1>7. QED BY <1>4, <1>5, <1>6 DEF Tracked

\* A command that fails without a timeout, and counts, was issued where all is settled.
LEMMA MineBreaks ==
    ASSUME NEW m, NEW n, NEW m2, NEW n2, NEW e, Breaks(m, n, m2, n2, e), ~(e = "timeout"),
           Sending(m2, n2)',
           NEW x, x = Head(todo).name, Tracked(m2, n2, x)'
    PROVE  Settled(m, n) /\ Strict(m, n)
  <1>1. PICK l, h : l \in Nat /\ l = Len(todo) /\ h = Head(todo) /\ Issues(m, n, l, h)
             /\ n \in Nat /\ n2 \in Nat
    BY DEF Breaks
  <1>2. draining' = draining /\ result = "ok"
        /\ (draining => m \in {"receive", "send", "close", "close_target"})
    BY DEF Breaks, Placed, Control
  <1>3. \/ Lands(m, n, e, m2, n2) /\ result' = "ok"
        \/ m2 = m /\ n2 = 0 /\ Fatal(m, n, e) /\ result' = e /\ ~(e = "ok")
    BY DEF Breaks, Failed, Errors
  <1>4. CASE m2 = "failed_open" \/ m2 = "open"
    <2>1. ~(m = "open" /\ n >= 6) /\ ~(m2 = "failed_open" /\ n2 <= 3)
      BY <1>4 DEF Breaks, Placed, Control, Sending
    <2>2. m = "open" /\ n \in {3, 4, 5}
      BY <1>1, <1>3, <1>4, <2>1 DEF Lands, Fatal, Issues
    <2>3. ~WakingUp(m, n)
      <3>1. SUFFICES ASSUME WakingUp(m, n) PROVE FALSE
        OBVIOUS
      <3>2. l = 7 /\ n = 5
        BY <1>1, <3>1 DEF WakingUp
      <3>3. h.name = "SAMConfiguration"
        BY <1>1, <2>2, <3>2 DEF Issues
      <3>4. m2 = "failed_open"
        BY <1>3, <2>2, <3>2 DEF Lands, Fatal
      <3>5. QED BY <1>1, <3>3, <3>4 DEF Tracked
    <2>4. ~draining
      BY <1>2, <2>2
    <2>5. QED BY <1>2, <2>2, <2>3, <2>4 DEF Settled, Strict, Icily
  <1>5. CASE ~(m2 = "failed_open") /\ ~(m2 = "open")
    <2>1. m2 = m
      BY <1>3, <1>5 DEF Lands
    <2>2. CASE m \in {"initiator_init", "exchange"} \/ (m = "poll" /\ n = LastPoll)
               \/ (m = "target_init" /\ n >= 5)
               \/ (m = "timed_out" /\ n = 4) \/ (m \in {"receive", "send"} /\ ~draining)
      BY <1>2, <2>2 DEF Settled, Strict, Icily
    <2>3. CASE m = "poll" /\ ~(n = LastPoll)
      <3>1. ~(result' = "ok")
        BY <1>3, <2>3 DEF Lands
      <3>2. h.name \in {"RFConfiguration", "PowerDown"}
        BY <1>1, <2>1, <2>3, <3>1 DEF Tracked, Icily
      <3>3. QED BY <1>1, <2>3, <3>2 DEF Issues
    <2>4. CASE m = "deselect" \/ (m = "target_init" /\ ~(n >= 5))
      <3>1. ~(result' = "ok")
        BY <1>1, <1>3, <2>1, <2>4 DEF Lands
      <3>2. h.name \in {"RFConfiguration", "PowerDown"}
        BY <1>1, <2>1, <2>4, <3>1 DEF Tracked, Icily
      <3>3. QED BY <1>1, <2>4, <3>2 DEF Issues
    <2>5. CASE m \in {"receive", "send"} /\ draining
      <3>1. h.name \in {"RFConfiguration", "PowerDown"}
        BY <1>1, <1>2, <2>1, <2>5 DEF Tracked, Icily
      <3>2. QED BY <1>1, <2>5, <3>1 DEF Issues
    <2>6. CASE m = "timed_out" /\ ~(n = 4)
      <3>1. n2 <= 2
        BY <1>3, <2>6 DEF Lands
      <3>2. h.name \in {"RFConfiguration", "PowerDown"}
        BY <1>1, <2>1, <2>6, <3>1 DEF Tracked, Icily
      <3>3. QED BY <1>1, <2>6, <3>2 DEF Issues
    <2>7. CASE m \in {"close", "close_target"}
      <3>1. n2 <= 3
        BY <1>3, <2>7 DEF Lands
      <3>2. QED BY <2>1, <2>7, <3>1 DEF Sending
    <2>8. m \in {"initiator_init", "exchange", "poll", "deselect", "target_init", "timed_out",
          "receive", "send", "close",
                 "close_target"}
      BY <1>1, <1>5, <2>1 DEF Issues
    <2>9. QED BY <2>2, <2>3, <2>4, <2>5, <2>6, <2>7, <2>8
  <1>6. QED BY <1>4, <1>5

\* Who has to be awake had to be.
LEMMA AwakeBreaks ==
    ASSUME NEW m, NEW n, NEW m2, NEW n2, NEW e, Breaks(m, n, m2, n2, e), Awake(m2, n2)'
    PROVE  /\ Awake(m, n) \/ WakingUp(m, n)
           /\ ~(Head(todo).name = "PowerDown")
           /\ ~(e = "timeout") => /\ Settled(m, n) \/ WakingUp(m, n)
                                  /\ ~(pnd.power = "POWERDOWN")
                                     /\ ~(Head(todo).name = "TgInitAsTarget")
  <1>1. PICK l, h : l \in Nat /\ l = Len(todo) /\ h = Head(todo) /\ Issues(m, n, l, h)
             /\ n \in Nat /\ n2 \in Nat
    BY DEF Breaks
  <1>2. result = "ok" /\ at \in {"ack", "reply"} /\ e \in Errors /\ ~(e = "ok")
    BY DEF Breaks, Errors
  <1>3. \/ Lands(m, n, e, m2, n2) /\ result' = "ok"
        \/ m2 = m /\ n2 = 0 /\ Fatal(m, n, e) /\ ~(result' = "ok")
    BY <1>2 DEF Breaks, Failed
  <1>4. ~(m = "open" /\ n >= 6)
    BY <1>2 DEF Breaks, Placed, Control
  <1>5. \/ m = "open" /\ n \in {3, 4, 5}
        \/ m = "poll" /\ n \in 3 .. LastPoll - 1 /\ e = "timeout"
        \/ m = "target_init" /\ n = 5
        \/ m = "target_init" /\ n = 2 /\ e = "timeout"
        \/ m = "exchange" /\ n = 1
    <2>1. CASE Lands(m, n, e, m2, n2)
      BY <1>1, <1>4, <2>1 DEF Lands, Awake, WakingUp
    <2>2. CASE m2 = m /\ n2 = 0 /\ Fatal(m, n, e) /\ ~(result' = "ok")
      BY <1>1, <1>4, <2>2 DEF Fatal, Awake, WakingUp, Issues
    <2>3. QED BY <1>3, <2>1, <2>2
  <1>6. Awake(m, n) \/ WakingUp(m, n)
    BY <1>2, <1>5 DEF Awake
  <1>7. ~(h.name = "PowerDown")
    BY <1>1, <1>5 DEF Issues
  <1>8. ~(e = "timeout") => Settled(m, n) \/ WakingUp(m, n)
    BY <1>2, <1>5 DEF Settled
  <1>9. ~(e = "timeout") => ~(pnd.power = "POWERDOWN") /\ ~(h.name = "TgInitAsTarget")
    BY <1>1, <1>2, <1>5 DEF Breaks, Placed, PowerMode, Issues
  <1>10. QED BY <1>1, <1>6, <1>7, <1>8, <1>9

\* Where the other parts of the invariant come from.
LEMMA OtherBreaks ==
    ASSUME NEW m, NEW n, NEW m2, NEW n2, NEW e, Breaks(m, n, m2, n2, e)
    PROVE  /\ Settled(m2, n2)' => /\ m = "open" /\ m2 = m /\ n2 = 0 /\ Settled(m, n)
                                  /\ Head(todo).name \in {"SetParameters", "GetFirmwareVersion"}
           /\ m2 \in {"receive", "send"} => m2 = m
           /\ ~(m2 \in {"close", "close_target", "timed_out"} /\ n2 = 3)
              /\ ~(m2 = "failed_open" /\ n2 \in {4, 5})
           /\ ~(m2 = "close" /\ n2 = 4) /\ ~(m2 = "open" /\ n2 >= 5)
           /\ m2 \in Setting /\ result' = "ok" =>
                \/ m = "open" /\ n >= 2 /\ m2 = m /\ n2 = 0
                \/ m = "poll" /\ ~(n = LastPoll) /\ m2 = m /\ ~(n2 = LastPoll)
                \/ m = "target_init" /\ n = 5 /\ m2 = m /\ n2 = 4
  <1>1. PICK l, h : l \in Nat /\ l = Len(todo) /\ h = Head(todo) /\ Issues(m, n, l, h)
             /\ n \in Nat /\ n2 \in Nat
    BY DEF Breaks
  <1>2. result = "ok" /\ at \in {"ack", "reply"} /\ e \in Errors /\ ~(e = "ok")
    BY DEF Breaks, Errors
  <1>3. \/ Lands(m, n, e, m2, n2) /\ result' = "ok"
        \/ m2 = m /\ n2 = 0 /\ Fatal(m, n, e) /\ ~(result' = "ok")
    BY <1>2 DEF Breaks, Failed
  <1>4. LastPoll \in Nat /\ LastPoll >= 2
    BY BoundAssumption DEF LastPoll
  <1>5. Settled(m2, n2)' => m = "open" /\ m2 = m /\ n2 = 0 /\ n \in {3, 4}
    <2>1. CASE Lands(m, n, e, m2, n2) /\ result' = "ok"
      BY <1>1, <1>4, <2>1 DEF Lands, Settled, WakingUp
    <2>2. CASE m2 = m /\ n2 = 0 /\ Fatal(m, n, e) /\ ~(result' = "ok")
      BY <1>1, <1>4, <2>2 DEF Fatal, Settled, WakingUp, Issues
    <2>3. QED BY <1>3, <2>1, <2>2
  <1>6. m = "open" /\ n \in {3, 4}
        => Settled(m, n) /\ h.name \in {"SetParameters", "GetFirmwareVersion"}
    BY <1>1 DEF Settled, WakingUp, Issues
  <1>7. m2 \in {"receive", "send"} => m2 = m
    BY <1>3 DEF Lands
  <1>8. /\ ~(m2 \in {"close", "close_target", "timed_out"} /\ n2 = 3)
           /\ ~(m2 = "failed_open" /\ n2 \in {4, 5})
        /\ ~(m2 = "close" /\ n2 = 4) /\ ~(m2 = "open" /\ n2 >= 5)
    BY <1>1, <1>3 DEF Lands
  <1>9. m2 \in Setting /\ result' = "ok" =>
                \/ m = "open" /\ n >= 2 /\ m2 = m /\ n2 = 0
                \/ m = "poll" /\ ~(n = LastPoll) /\ m2 = m /\ ~(n2 = LastPoll)
                \/ m = "target_init" /\ n = 5 /\ m2 = m /\ n2 = 4
    BY <1>1, <1>3, <1>4 DEF Lands, Setting, Issues
  <1>10. QED BY <1>1, <1>5, <1>6, <1>7, <1>8, <1>9

\* Why a command fails: nothing comes or what comes is thrown away, a late reply comes in the
\* place of the ACK frame, or the command is aborted or refused once it is accepted.
Silent ==
    /\ Len(tx) = 0 /\ ~(chip.running.name \in Prompt) /\ Len(rx') = 0 /\ Len(tx') = 0
    /\ (at = "ack" => Len(rx) = 0) /\ pnd'.power = pnd.power
Misread(e) ==
    /\ at = "ack" /\ ~(e = "timeout") /\ Len(rx) \in Nat /\ Len(rx) >= 1 /\ 1 \in 1 .. Len(rx)
       /\ rx[1].t = "reply"
    /\ Len(rx') = Len(rx) - 1 /\ tx' = tx /\ pnd'.power = pnd.power
Stopped(m, e) ==
    /\ at = "reply" /\ ~(e = "timeout")
       /\ ~(m \in {"open", "failed_open", "close", "close_target"})
    /\ pnd'.power = pnd.power \/ pnd'.power = "NORMAL"
Caused(m, e) == Silent \/ Misread(e) \/ Stopped(m, e)

\* What is settled and misread was answered.
LEMMA FreshMisread ==
    ASSUME NEW m, NEW n, NEW e, Misread(e), Clean(m, n), Settled(m, n), Order
    PROVE  Len(tx) = 0 /\ Len(rx) = 1 /\ Answered
  <1>1. at = "ack" /\ 1 \in 1 .. Len(rx) /\ rx[1].t = "reply"
    BY DEF Misread
  <1>2. ~rx[1].old
    BY <1>1 DEF Clean, Fresh
  <1>3. Len(tx) = 0 /\ 1 = Len(rx) /\ Answered
    BY <1>1, <1>2 DEF Order, OrderRx
  <1>4. QED BY <1>3

\* Each part of the invariant survives the failure.
LEMMA DisciplineBreaks ==
    ASSUME NEW m, NEW n, NEW m2, NEW n2, NEW e, Breaks(m, n, m2, n2, e), Caused(m, e),
           Discipline(m, n), Order, Clean(m, n)
    PROVE  Discipline(m2, n2)'
  <1>1. at' = "step" /\ at \in {"ack", "reply"} /\ ~(at = "step")
    BY DEF Breaks
  <1>2. SUFFICES ASSUME Sending(m2, n2)', NEW i \in 1 .. Len(tx'), tx'[i].t = "cmd"
                 PROVE  ~(Tracked(m2, n2, tx[i].name)')
    BY <1>1 DEF Discipline, DisciplineStep, DisciplineTx, DisciplineAck, DisciplineReply
  <1>3. PICK x : x = tx[i].name /\ x = tx'[i].name /\ i \in 1 .. Len(tx) /\ tx[i].t = "cmd"
    BY <1>2 DEF Breaks
  <1>4. SUFFICES ASSUME Tracked(m2, n2, x)' PROVE FALSE
    BY <1>3
  <1>5. Tracked(m, n, x)
    BY <1>4, TrackedBreaks
  <1>6. ~tx[i].old
    BY <1>1, <1>3, <1>5 DEF Discipline, DisciplineTx
  <1>7. x = Head(todo).name
    BY <1>1, <1>3, <1>6 DEF Order, OrderTx
  <1>8. ~Silent
    BY <1>3 DEF Silent
  <1>9. ~(e = "timeout")
    BY <1>8 DEF Caused, Misread, Stopped
  <1>10. Settled(m, n) /\ Strict(m, n)
    BY <1>2, <1>4, <1>7, <1>9, MineBreaks
  <1>11. CASE Misread(e)
    BY <1>3, <1>10, <1>11, FreshMisread
  <1>12. CASE Stopped(m, e)
    BY <1>3, <1>10, <1>12 DEF Stopped, Discipline, DisciplineReply
  <1>13. QED BY <1>8, <1>11, <1>12 DEF Caused

LEMMA OrderBreaks ==
    ASSUME NEW m, NEW n, NEW m2, NEW n2, NEW e, Breaks(m, n, m2, n2, e), Order
    PROVE  Order'
  <1>1. at' = "step" /\ chip' = chip
    BY DEF Breaks
  <1>2. OrderRead'
    BY <1>1 DEF Breaks, Order, OrderRead
  <1>3. QED BY <1>1, <1>2 DEF Order, OrderIdle, OrderTx, OrderRunning, OrderRx

LEMMA CleanBreaks ==
    ASSUME NEW m, NEW n, NEW m2, NEW n2, NEW e, Breaks(m, n, m2, n2, e), Caused(m, e), Order,
           Clean(m, n)
    PROVE  Clean(m2, n2)'
  <1>1. at' = "step" /\ at \in {"ack", "reply"} /\ ~(at = "step") /\ chip' = chip
    BY DEF Breaks
  <1>2. SUFFICES ASSUME Settled(m2, n2)' PROVE Serene'
    BY <1>1 DEF Clean
  <1>3. m = "open" /\ Settled(m, n)
        /\ Head(todo).name \in {"SetParameters", "GetFirmwareVersion"}
    BY <1>2, OtherBreaks
  <1>4. CASE Silent
    <2>1. ~chip.running.old
      BY <1>1, <1>3 DEF Clean, Fresh
    <2>2. chip.running.name = Idling
      BY <1>1, <1>3, <1>4, <2>1 DEF Order, OrderRunning, Silent, Prompt
    <2>3. QED BY <1>1, <1>4, <2>2 DEF Silent, Serene
  <1>5. CASE Misread(e)
    <2>1. Len(tx) = 0 /\ Len(rx) = 1 /\ Answered
      BY <1>3, <1>5, FreshMisread
    <2>2. Len(rx') = 0
      BY <1>5, <2>1 DEF Misread
    <2>3. Len(tx') = 0
      BY <1>5, <2>1 DEF Misread
    <2>4. QED BY <1>1, <2>1, <2>2, <2>3 DEF Serene, Answered
  <1>6. CASE Stopped(m, e)
    BY <1>3, <1>6 DEF Stopped
  <1>7. QED BY <1>4, <1>5, <1>6 DEF Caused

LEMMA PowerBreaks ==
    ASSUME NEW m, NEW n, NEW m2, NEW n2, NEW e, Breaks(m, n, m2, n2, e), Caused(m, e),
           Order, Clean(m, n), Power(m, n), Waking(m, n)
    PROVE  Power(m2, n2)' /\ Waking(m2, n2)'
  <1>1. at' = "step" /\ at \in {"ack", "reply"} /\ ~(at = "step") /\ chip' = chip
    BY DEF Breaks
  <1>2. Waking(m2, n2)'
    <2>1. ~(m2 = "open" /\ n2 >= 5) /\ n2 \in Nat
      BY OtherBreaks DEF Breaks
    <2>2. QED BY <2>1 DEF Waking, WakingUp
  <1>3. SUFFICES ASSUME Awake(m2, n2)' PROVE PowerDownMine' /\ PowerStep'
    BY <1>1, <1>2 DEF Power, Acked, PowerAck, PowerReply
  <1>4. /\ Awake(m, n) \/ WakingUp(m, n)
        /\ ~(Head(todo).name = "PowerDown")
        /\ ~(e = "timeout") => /\ Settled(m, n) \/ WakingUp(m, n)
                               /\ ~(pnd.power = "POWERDOWN")
                                  /\ ~(Head(todo).name = "TgInitAsTarget")
    BY <1>3, AwakeBreaks
  <1>5. chip.power = "on" \/ (chip.power = "down" /\ pnd.power = "POWERDOWN")
    <2>1. CASE at = "reply"
      BY <1>4, <2>1 DEF Power, PowerReply, Waking
    <2>2. CASE at = "ack" /\ Silent
      <3>1. Acked
        BY <1>4 DEF Power, Waking
      <3>2. QED BY <2>2, <3>1 DEF Silent, Acked, MineInTx, MyAck
    <2>3. CASE at = "ack" /\ Misread(e) /\ WakingUp(m, n)
      BY <2>3 DEF Misread, Waking, WakingAck
    <2>4. CASE at = "ack" /\ Misread(e) /\ ~WakingUp(m, n)
      <3>1. ~(e = "timeout") /\ Settled(m, n)
        BY <1>4, <2>4 DEF Misread
      <3>2. ~InTx
        BY <2>4, <3>1, FreshMisread DEF InTx
      <3>3. QED BY <1>4, <2>4, <3>1, <3>2 DEF Power, PowerAck
    <2>5. QED BY <1>1, <2>1, <2>2, <2>3, <2>4 DEF Caused, Stopped
  <1>6. PowerStep'
    <2>1. pnd'.power = pnd.power \/ ~(e = "timeout")
      BY DEF Caused, Silent, Misread, Stopped
    <2>2. QED BY <1>1, <1>4, <1>5, <2>1 DEF PowerStep
  <1>7. PowerDownMine'
    <2>1. ~(chip.running.name = "PowerDown")
      BY <1>4 DEF Power, PowerDownMine, Waking, Prompt
    <2>2. QED BY <1>1, <2>1 DEF PowerDownMine
  <1>8. QED BY <1>6, <1>7

LEMMA RestBreaks ==
    ASSUME NEW m, NEW n, NEW m2, NEW n2, NEW e, Breaks(m, n, m2, n2, e),
           Served(m, n), Idle(m, n), Target, AllSent
    PROVE  Served(m2, n2)' /\ Idle(m2, n2)' /\ Target' /\ AllSent'
  <1>1. at' = "step" /\ ~(at = "step") /\ chip' = chip /\ role' = role /\ pnd'.oper = pnd.oper
    BY DEF Breaks
  <1>2. \A i \in 1 .. Len(tx') : tx'[i].t = "cmd" => i \in 1 .. Len(tx) /\ tx'[i] = tx[i]
    BY DEF Breaks
  <1>3. Served(m2, n2)'
    BY <1>1, <1>2, OtherBreaks DEF Served
  <1>4. Idle(m2, n2)'
    <2>1. ~(pnd.oper = "IDLE")
      BY <1>1 DEF Idle, Asleep
    <2>2. QED BY <1>1, <2>1, OtherBreaks DEF Idle
  <1>5. Target'
    BY <1>1, <1>2 DEF Target, Fieldless
  <1>6. AllSent'
    BY <1>1, <1>2 DEF AllSent, Sent
  <1>7. QED BY <1>3, <1>4, <1>5, <1>6

LEMMA SettingsBreaks ==
    ASSUME NEW m, NEW n, NEW m2, NEW n2, NEW e, Breaks(m, n, m2, n2, e), Settings(m, n)
    PROVE  Settings(m2, n2)'
  <1>1. /\ chip' = chip /\ result = "ok"
           /\ UNCHANGED <<pnd.crc, pnd.par, pnd.trigged, pnd.pending>>
        /\ n \in Nat /\ n2 \in Nat /\ Placed(m, n)
    BY DEF Breaks
  <1>2. SUFFICES ASSUME m2 \in Setting, result' = "ok" PROVE Settings(m2, n2)'
    BY DEF Settings, Setting
  <1>3. \/ m = "open" /\ n >= 2 /\ m2 = m /\ n2 = 0
        \/ m = "poll" /\ ~(n = LastPoll) /\ m2 = m /\ ~(n2 = LastPoll)
        \/ m = "target_init" /\ n = 5 /\ m2 = m /\ n2 = 4
    BY <1>2, OtherBreaks
  <1>4. CASE m = "open" /\ n >= 2 /\ m2 = m /\ n2 = 0
    <2>1. ~pnd.crc /\ ~pnd.par /\ pnd.pending = {}
      BY <1>1, <1>4 DEF Placed, Control
    <2>2. QED BY <1>1, <1>4, <2>1 DEF Settings
  <1>5. Has(Reset) => Holds(Crc)' /\ Holds({"parity"})'
    BY <1>1 DEF Has, Holds, Reset
  <1>6. \A F : Has(F) => Has(F)' /\ Holds(F)'
    BY <1>1 DEF Has, Holds
  <1>7. CASE m = "poll" /\ ~(n = LastPoll) /\ m2 = m /\ ~(n2 = LastPoll)
    <2>1. Has(Iso14443a) /\ Has(Framing) /\ Has(Reset) /\ Has({"initiator"})
      BY <1>1, <1>7 DEF Settings
    <2>2. QED BY <1>5, <1>6, <1>7, <2>1 DEF Settings
  <1>8. CASE m = "target_init" /\ n = 5 /\ m2 = m /\ n2 = 4
    <2>1. Has(Framing) /\ Has(Reset)
      BY <1>1, <1>8 DEF Settings
    <2>2. QED BY <1>5, <1>6, <1>8, <2>1 DEF Settings
  <1>9. QED BY <1>3, <1>4, <1>7, <1>8

\* All of them do.
LEMMA DeepBreaks ==
    ASSUME NEW m, NEW n, NEW m2, NEW n2, NEW e, Breaks(m, n, m2, n2, e), Caused(m, e),
           Deep(m, n)
    PROVE  Placed(m2, n2)' /\ Deep(m2, n2)'
  <1>1. /\ Discipline(m, n) /\ Order /\ Clean(m, n) /\ Power(m, n) /\ Waking(m, n)
           /\ Served(m, n)
        /\ Idle(m, n) /\ Target /\ Settings(m, n) /\ AllSent
    BY DEF Deep
  <1>2. Discipline(m2, n2)' /\ Order' /\ Clean(m2, n2)' /\ Power(m2, n2)' /\ Waking(m2, n2)'
    BY <1>1, DisciplineBreaks, OrderBreaks, CleanBreaks, PowerBreaks
  <1>3. Served(m2, n2)' /\ Idle(m2, n2)' /\ Target' /\ AllSent' /\ Settings(m2, n2)'
    BY <1>1, RestBreaks, SettingsBreaks
  <1>4. QED BY <1>2, <1>3 DEF Deep, Breaks

\* A failure of each kind breaks the command.
LEMMA BreaksBy ==
    ASSUME Types, NEW m, NEW n, Placed(m, n), NEW e \in Errors, at # "step", Fail(e),
           UNCHANGED <<call, role, draining, chip, pnd.oper, pnd.crc, pnd.par, pnd.trigged,
               pnd.pending>>,
           pnd'.power = pnd.power \/ pnd'.power = "NORMAL", abort' \in {abort, "none"},
           \A i \in 1 .. Len(rx') : \E j \in 1 .. Len(rx) : rx'[i] = rx[j],
           \A i \in 1 .. Len(tx') : tx'[i].t = "cmd" => i \in 1 .. Len(tx) /\ tx'[i] = tx[i]
    PROVE  \E m2, n2 : Breaks(m, n, m2, n2, e)
  <1>1. PICK m2, n2 : Placed(m2, n2)' /\ Failed(m, n, e, m2, n2) /\ Len(todo') = n2
             /\ Issues(m, n, Len(todo), Head(todo))
    <2>1. UNCHANGED <<call, role, draining, pnd.oper, pnd.crc, pnd.par, pnd.trigged>>
          /\ UNCHANGED pnd.pending
      OBVIOUS
    <2>2. QED BY <2>1, PlacedFail
  <1>2. HostTypes /\ Where(m, n) /\ Where(m2, n2)'
    BY <1>1 DEF Types, Placed
  <1>3. n \in Nat /\ Len(todo) \in Nat
    BY <1>2, WhereParts
  <1>4. n2 \in Nat
    BY <1>2, LengthNat DEF Where
  <1>5. at \in {"ack", "reply"} /\ result = "ok" /\ at' = "step"
    BY <1>2 DEF Placed, Control, HostTypes, Fail
  <1>6. QED BY <1>1, <1>3, <1>4, <1>5 DEF Breaks

\* A frame is taken from the line.
LEMMA TailLine ==
    ASSUME Types, rx # <<>>, rx' = Tail(rx)
    PROVE  \A i \in 1 .. Len(rx') : \E j \in 1 .. Len(rx) : rx'[i] = rx[j]
  <1>1. SUFFICES ASSUME NEW i \in 1 .. Len(rx') PROVE \E j \in 1 .. Len(rx) : rx'[i] = rx[j]
    OBVIOUS
  <1>2. rx'[i] = rx[i + 1] /\ i + 1 \in 1 .. Len(rx)
    BY TakenLine
  <1>3. QED BY <1>2

\* One more element at the end.
LEMMA OneMore ==
    ASSUME NEW S, NEW s \in Seq(S), NEW a \in S
    PROVE  Len(s \o <<a>>) = Len(s) + 1 /\ (s \o <<a>>)[Len(s) + 1] = a
           /\ \A i \in 1 .. Len(s) : (s \o <<a>>)[i] = s[i]
  OBVIOUS

\* The host's ACK frame, and the wake-up before it, are no commands.
LEMMA StopLine ==
    ASSUME Types, NEW w \in {Wake, <<>>}, tx' = tx \o w \o <<Frame("ack", Idling, {})>>
    PROVE  \A i \in 1 .. Len(tx') : tx'[i].t = "cmd" => i \in 1 .. Len(tx) /\ tx'[i] = tx[i]
  <1>1. PICK a, k : a = Frame("ack", Idling, {}) /\ k = Frame("wake", Idling, {})
    OBVIOUS
  <1>2. a \in Outgoing /\ k \in Outgoing /\ a.t = "ack" /\ k.t = "wake" /\ tx \in Seq(Outgoing)
    BY <1>1, FrameTyped DEF Frame, Types, ChipTypes
  <1>3. w = <<k>> \/ w = <<>>
    BY <1>1 DEF Wake
  <1>4. w \in Seq(Outgoing) /\ Len(w) \in Nat /\ \A i \in 1 .. Len(w) : w[i].t = "wake"
    <2>1. CASE w = <<>>
      BY <2>1
    <2>2. CASE w = <<k>>
      BY <1>2, <2>2
    <2>3. QED BY <1>3, <2>1, <2>2
  <1>5. PICK u : u = tx \o w
    OBVIOUS
  <1>6. /\ u \in Seq(Outgoing) /\ Len(u) = Len(tx) + Len(w) /\ Len(tx) \in Nat
        /\ \A i \in 1 .. Len(tx) : u[i] = tx[i]
        /\ \A i \in 1 .. Len(w) : u[Len(tx) + i] = w[i]
    BY <1>2, <1>4, <1>5, Prefix
  <1>7. tx' = u \o <<a>> /\ <<a>> \in Seq(Outgoing) /\ Len(<<a>>) = 1 /\ <<a>>[1] = a
    BY <1>1, <1>2, <1>5
  <1>8. Len(tx') = Len(u) + 1 /\ tx'[Len(u) + 1] = a /\ \A i \in 1 .. Len(u) : tx'[i] = u[i]
    <2>1. u \in Seq(Outgoing) /\ tx' = u \o <<a>>
      BY <1>6, <1>7
    <2>2. QED BY <1>2, <2>1, OneMore
  <1>9. SUFFICES ASSUME NEW i \in 1 .. Len(tx'), tx'[i].t = "cmd" PROVE i \in 1 .. Len(tx)
                        /\ tx'[i] = tx[i]
    OBVIOUS
  <1>10. PICK l, b : l \in Nat /\ l = Len(tx) /\ b \in Nat /\ b = Len(w) /\ Len(u) = l + b
    BY <1>4, <1>6
  <1>11. i \in 1 .. l + b + 1
    BY <1>8, <1>9, <1>10
  <1>12. CASE i = l + b + 1
    BY <1>2, <1>8, <1>9, <1>10, <1>12
  <1>13. CASE i \in l + 1 .. l + b
    <2>1. i - l \in 1 .. b /\ i = l + (i - l) /\ i \in 1 .. l + b
      BY <1>10, <1>13
    <2>2. u[l + (i - l)] = w[i - l]
      BY <1>6, <1>10, <2>1
    <2>3. tx'[i].t = "wake"
      BY <1>4, <1>8, <1>10, <2>1, <2>2
    <2>4. QED BY <1>9, <2>3
  <1>14. CASE i \in 1 .. l
    <2>1. i \in 1 .. l + b
      BY <1>10, <1>14
    <2>2. QED BY <1>6, <1>8, <1>10, <1>14, <2>1
  <1>15. QED BY <1>10, <1>11, <1>12, <1>13, <1>14

\* A command that was not accepted, or not answered, in time.
LEMMA BreaksTimeOut ==
    ASSUME Types, NEW m, NEW n, Placed(m, n), TimeOut
    PROVE  \E m2, n2, e : Breaks(m, n, m2, n2, e) /\ Caused(m, e)
  <1>1. /\ at # "step" /\ Fail("timeout")
           /\ UNCHANGED <<call, role, draining, chip, pnd, abort, rx, tx>>
        /\ tx = <<>> /\ rx = <<>> /\ ~(chip.running.name \in Prompt)
    BY DEF TimeOut, Keep, line, Quiet
  <1>2. "timeout" \in Errors
    BY DEF Errors
  <1>3. Len(tx) = 0 /\ Len(rx) = 0 /\ Len(tx') = 0 /\ Len(rx') = 0
    BY <1>1
  <1>4. PICK m2, n2 : Breaks(m, n, m2, n2, "timeout")
    BY <1>1, <1>2, <1>3, BreaksBy
  <1>5. Caused(m, "timeout")
    BY <1>1, <1>3 DEF Caused, Silent
  <1>6. QED BY <1>4, <1>5

\* Something else than the ACK frame.
LEMMA BreaksMisread ==
    ASSUME Types, NEW m, NEW n, Placed(m, n), ReceiveAck
    PROVE  ~Accepted => \E m2, n2, e : Breaks(m, n, m2, n2, e) /\ Caused(m, e)
  <1>1. SUFFICES ASSUME ~Accepted PROVE \E m2, n2, e : Breaks(m, n, m2, n2, e) /\ Caused(m, e)
    OBVIOUS
  <1>2. at = "ack" /\ rx # <<>> /\ Head(rx).t # "ack"
    BY <1>1 DEF Accepted, ReceiveAck
  <1>3. rx' = Tail(rx) /\ Fail("io") /\ UNCHANGED <<call, role, draining, chip, pnd, abort, tx>>
    BY <1>2 DEF ReceiveAck, Keep
  <1>4. "io" \in Errors /\ at # "step" /\ ~("io" = "timeout")
    BY <1>2 DEF Errors
  <1>5. /\ Len(rx) \in Nat /\ Len(rx) >= 1 /\ Len(rx') = Len(rx) - 1 /\ Head(rx) = rx[1]
           /\ rx[1] \in Incoming
        /\ 1 \in 1 .. Len(rx)
    BY <1>2, <1>3, TakenLine
  <1>6. rx[1].t = "reply"
    BY <1>2, <1>5 DEF Incoming
  <1>7. PICK m2, n2 : Breaks(m, n, m2, n2, "io")
    BY <1>2, <1>3, <1>4, TailLine, BreaksBy
  <1>8. Caused(m, "io")
    BY <1>2, <1>3, <1>4, <1>5, <1>6 DEF Caused, Misread
  <1>9. QED BY <1>7, <1>8

\* A reply to something else, or one that is an error.
LEMMA BreaksReply ==
    ASSUME Types, NEW m, NEW n, Placed(m, n), ReceiveReply
    PROVE  ~Mine(Head(rx)) \/ Head(rx).st \in {"rf", "released"} =>
             \E m2, n2, e : Breaks(m, n, m2, n2, e) /\ Caused(m, e)
  <1>1. at = "reply" /\ rx # <<>> /\ UNCHANGED <<call, role, draining, chip, abort, tx>>
        /\ at # "step"
    BY DEF ReceiveReply, Keep
  <1>2. CASE ~Mine(Head(rx))
    <2>1. rx' = <<>> /\ Fail("io") /\ pnd' = pnd /\ tx = <<>> /\ ~(chip.running.name \in Prompt)
      BY <1>2 DEF ReceiveReply, Mine, Quiet
    <2>2. Len(tx) = 0 /\ Len(tx') = 0 /\ Len(rx') = 0 /\ "io" \in Errors
      BY <1>1, <2>1 DEF Errors
    <2>3. PICK m2, n2 : Breaks(m, n, m2, n2, "io")
      BY <1>1, <2>1, <2>2, BreaksBy
    <2>4. Caused(m, "io")
      BY <1>1, <2>1, <2>2 DEF Caused, Silent
    <2>5. QED BY <2>3, <2>4
  <1>3. CASE Mine(Head(rx)) /\ Head(rx).st \in {"rf", "released"}
    <2>1. PICK f : f = Head(rx)
      OBVIOUS
    <2>2. f \in Incoming /\ Got(f) /\ Accept(f) /\ f.name = Head(todo).name /\ rx' = Tail(rx)
      BY <1>3, <2>1, GotBy DEF Mine
    <2>3. Fail(f.st) /\ f.st \in Errors /\ ~(f.st = "timeout")
      BY <1>3, <2>1, <2>2 DEF Accept, Errors
    <2>4. f.name \in Waiting /\ ~(f.name = "TgInitAsTarget")
      BY <1>3, <2>1, <2>2 DEF Incoming, StatusOf, Outcomes, Commands, Prompt, Waiting
    <2>5. UNCHANGED <<pnd.oper, pnd.crc, pnd.par, pnd.trigged, pnd.pending, pnd.power>>
      BY <2>2, <2>4 DEF Got, Waiting
    <2>6. PICK m2, n2 : Breaks(m, n, m2, n2, f.st)
      BY <1>1, <2>2, <2>3, <2>5, TailLine, BreaksBy
    <2>7. PICK l, h : l = Len(todo) /\ h = Head(todo) /\ Issues(m, n, l, h)
      BY <2>6 DEF Breaks
    <2>8. ~(m \in {"open", "failed_open", "close", "close_target"})
      BY <2>2, <2>4, <2>7 DEF Issues, Waiting
    <2>9. Caused(m, f.st)
      BY <1>1, <2>3, <2>5, <2>8 DEF Caused, Stopped
    <2>10. QED BY <2>6, <2>9
  <1>4. QED BY <1>2, <1>3

\* nfc_abort_command.
LEMMA BreaksStop ==
    ASSUME Types, NEW m, NEW n, Placed(m, n), StopCommand
    PROVE  \E m2, n2, e : Breaks(m, n, m2, n2, e) /\ Caused(m, e)
  <1>1. /\ at = "reply" /\ at # "step" /\ abort = "caught" /\ abort' = "none" /\ Fail("aborted")
        /\ UNCHANGED <<call, role, draining, chip, rx>>
        /\ pnd' = [pnd EXCEPT !.power = IF @ = "POWERDOWN" THEN "NORMAL" ELSE @]
    BY DEF StopCommand, Caught, Keep
  <1>2. PICK w : w \in {Wake, <<>>} /\ tx' = tx \o w \o <<Frame("ack", Idling, {})>>
    <2>1. CASE pnd.power = "POWERDOWN"
      BY <2>1 DEF StopCommand
    <2>2. CASE pnd.power # "POWERDOWN"
      BY <2>2 DEF StopCommand
    <2>3. QED BY <2>1, <2>2
  <1>3. /\ UNCHANGED <<pnd.oper, pnd.crc, pnd.par, pnd.trigged, pnd.pending>>
        /\ pnd'.power = pnd.power \/ pnd'.power = "NORMAL"
    BY <1>1 DEF Types, HostTypes, DeviceType
  <1>4. "aborted" \in Errors /\ ~("aborted" = "timeout")
    BY DEF Errors
  <1>5. \A i \in 1 .. Len(rx') : \E j \in 1 .. Len(rx) : rx'[i] = rx[j]
    BY <1>1
  <1>6. PICK m2, n2 : Breaks(m, n, m2, n2, "aborted")
    BY <1>1, <1>2, <1>3, <1>4, <1>5, StopLine, BreaksBy
  <1>7. ~(m \in {"open", "failed_open", "close", "close_target"})
    <2>1. ~(call \in {"none", "open", "close"})
      BY <1>1 DEF Placed, Control
    <2>2. call = CallOf(m)
      BY DEF Placed, Where
    <2>3. QED BY <2>1, <2>2 DEF CallOf
  <1>8. Caused(m, "aborted")
    BY <1>1, <1>3, <1>4, <1>7 DEF Caused, Stopped
  <1>9. QED BY <1>6, <1>8

-----------------------------------------------------------------------------
\* Every step.

\* The chip's steps.
LEMMA DeepChip ==
    ASSUME Types, NEW m, NEW n, Placed(m, n), Deep(m, n), Takes \/ Executes \/ Hearing
    PROVE  Placed(m, n)' /\ Deep(m, n)'
  <1>1. HostStays /\ (TakesWake \/ TakesAck \/ TakesCmd \/ Drops \/ Answers)
    BY TakesMoves, AnswersMoves
  <1>2. /\ Discipline(m, n) /\ Order /\ Clean(m, n) /\ Power(m, n) /\ Waking(m, n)
           /\ Served(m, n)
        /\ Idle(m, n) /\ Target /\ Settings(m, n) /\ AllSent
    BY DEF Deep
  <1>3. Placed(m, n)'
    BY <1>1, PlacedSame DEF HostStays
  <1>4. Discipline(m, n)' /\ Order'
    BY <1>1, <1>2, OrderDisciplineChip
  <1>5. Clean(m, n)'
    BY <1>1, <1>2, CleanTakes, CleanAnswers
  <1>6. Power(m, n)' /\ Waking(m, n)'
    BY <1>1, <1>2, PowerChip, WakingChip
  <1>7. Served(m, n)' /\ Idle(m, n)' /\ Target'
    BY <1>1, <1>2, ServedChip, IdleChip, TargetChip
  <1>8. Settings(m, n)' /\ AllSent'
    BY <1>1, <1>2, SettingsChip, AllSentChip
  <1>9. QED BY <1>3, <1>4, <1>5, <1>6, <1>7, <1>8 DEF Deep

\* A signal changes nothing but what the next look at the pipe finds, and a step that does
\* nothing changes nothing.
LEMMA DeepSame ==
    ASSUME Types, NEW m, NEW n, Placed(m, n), Deep(m, n),
           UNCHANGED <<role, call, result, todo, at, draining, pnd, chip, tx, rx>>,
               abort' = abort \/ AbortCommand
    PROVE  Placed(m, n)' /\ Deep(m, n)'
  <1>1. /\ Discipline(m, n) /\ Order /\ Clean(m, n) /\ Power(m, n) /\ Waking(m, n)
           /\ Served(m, n)
        /\ Idle(m, n) /\ Target /\ Settings(m, n) /\ AllSent
    BY DEF Deep
  <1>2. Placed(m, n)'
    BY PlacedSame
  <1>3. \A x : Tracked(m, n, x)' <=> Tracked(m, n, x)
    BY DEF Tracked, Icily
  <1>4. Discipline(m, n)'
    BY <1>1, <1>3 DEF Discipline, DisciplineStep, DisciplineTx, DisciplineAck, DisciplineReply,
       Strict, Icily, Sending
  <1>5. Order'
    BY <1>1 DEF Order, OrderIdle, OrderRead, OrderTx, OrderRunning, OrderRx, Answered
  <1>6. Clean(m, n)'
    BY <1>1 DEF Clean, Settled, WakingUp, Serene, Fresh
  <1>7. Power(m, n)' /\ Waking(m, n)'
    BY <1>1 DEF Power, Awake, WakingUp, Acked, MineInTx, MyAck, PowerDownMine, PowerStep,
       PowerAck, InTx, Woken, PowerReply,
       Waking, WakingStep, WakingAck
  <1>8. Served(m, n)' /\ Idle(m, n)' /\ Target'
    BY <1>1 DEF Served, Idle, Asleep, Serene, Target, Fieldless
  <1>9. Settings(m, n)' /\ AllSent'
    BY <1>1 DEF Settings, Holds, Has, Writing, Asking, AllSent, Sent
  <1>10. QED BY <1>2, <1>4, <1>5, <1>6, <1>7, <1>8, <1>9 DEF Deep

\* Every step of the host, and of the program.
LEMMA DeepHost ==
    ASSUME Types, NEW m, NEW n, Placed(m, n), Deep(m, n), HostStep
    PROVE  \E m2, n2 : Placed(m2, n2)' /\ Deep(m2, n2)'
  <1>1. CASE RaiseError \/ PassMark \/ SetFields \/ set_parameters \/ Remember
    BY <1>1, DeepRaiseError, DeepPassMark, DeepSetFields, DeepSetParameters, DeepRemember
  <1>2. CASE FlushInput
    BY <1>2, DeepFlushInput
  <1>3. CASE WriteRegisters
    BY <1>3, DeepWriteRegisters
  <1>4. CASE SendCommand
    <2>1. CASE pnd.trigged
      BY <1>4, <2>1, DeepWriteBack
    <2>2. CASE ~pnd.trigged /\ pnd.power = "LOWVBAT"
      BY <1>4, <2>2, DeepWakes
    <2>3. CASE ~pnd.trigged /\ pnd.power # "LOWVBAT"
      BY <1>4, <2>3, DeepIssued
    <2>4. QED BY <2>1, <2>2, <2>3
  <1>5. CASE SendFrame
    BY <1>5, DeepIssued
  <1>6. CASE ReceiveAck
    <2>1. CASE Accepted
      BY <2>1, DeepAcknowledged
    <2>2. CASE ~Accepted
      BY <1>6, <2>2, BreaksMisread, DeepBreaks
    <2>3. QED BY <2>1, <2>2
  <1>7. CASE ReceiveReply
    <2>1. CASE ~Mine(Head(rx)) \/ Head(rx).st \in {"rf", "released"}
      BY <1>7, <2>1, BreaksReply, DeepBreaks
    <2>2. CASE Mine(Head(rx)) /\ Head(rx).st = "ok"
      BY <1>7, <2>2, DeepReplied
    <2>3. CASE Mine(Head(rx)) /\ Head(rx).st = "stranger"
      BY <1>7, <2>3, DeepStranger
    <2>4. Mine(Head(rx)) => Head(rx).st \in Statuses
      BY <1>7, GotBy DEF Incoming, FrameType
    <2>5. QED BY <2>1, <2>2, <2>3, <2>4 DEF Statuses
  <1>8. CASE TimeOut
    BY <1>8, BreaksTimeOut, DeepBreaks
  <1>9. CASE StopCommand
    BY <1>9, BreaksStop, DeepBreaks
  <1>10. CASE Segfault
    <2>1. Gone /\ UNCHANGED <<role, chip, line>>
      BY <1>10 DEF Segfault
    <2>2. QED BY <2>1, DeepGone
  <1>11. CASE Return
    BY <1>11, DeepReturn
  <1>12. QED BY <1>1, <1>2, <1>3, <1>4, <1>5, <1>6, <1>7, <1>8, <1>9, <1>10, <1>11 DEF HostStep

\* Every step, but the loss of a frame.
LEMMA DeepNext ==
    ASSUME Types, NEW m, NEW n, Placed(m, n), Deep(m, n), Next, ~Lose
    PROVE  \E m2, n2 : Placed(m2, n2)' /\ Deep(m2, n2)'
  <1>1. CASE HostStep
    BY <1>1, DeepHost
  <1>2. CASE Takes \/ Executes \/ Hearing
    BY <1>2, DeepChip
  <1>3. CASE Start
    BY <1>3, DeepStart
  <1>4. CASE Cancel
    BY <1>4, DeepCancel
  <1>5. CASE Kill
    <2>1. Gone /\ UNCHANGED <<role, chip, line>>
      BY <1>5 DEF Kill
    <2>2. QED BY <2>1, DeepGone
  <1>6. CASE AbortCommand
    <2>1. UNCHANGED <<role, call, result, todo, at, draining, pnd, chip, tx, rx>>
      BY <1>6 DEF AbortCommand, line
    <2>2. QED BY <1>6, <2>1, DeepSame
  <1>7. QED BY <1>1, <1>2, <1>3, <1>4, <1>5, <1>6 DEF Next, ChipStep

\* Where a lost frame is involved, the script still keeps its place.
LEMMA PlacedHost ==
    ASSUME Types, NEW m, NEW n, Placed(m, n), HostStep
    PROVE  \E m2, n2 : Placed(m2, n2)'
  <1>1. CASE RaiseError
    BY <1>1, PlacedRaiseError
  <1>2. CASE PassMark
    BY <1>2, PlacedPassMark
  <1>3. CASE SetFields
    BY <1>3, PlacedSetFields
  <1>4. CASE FlushInput
    BY <1>4, PlacedFlushInput
  <1>5. CASE set_parameters \/ Remember
    BY <1>5, PlacedSetParameters, PlacedRemember
  <1>6. CASE WriteRegisters
    BY <1>6, PlacedWriteRegisters
  <1>7. CASE SendCommand
    <2>1. CASE pnd.trigged
      BY <1>7, <2>1, PlacedWriteBack
    <2>2. CASE ~pnd.trigged /\ pnd.power = "LOWVBAT"
      BY <1>7, <2>2, PlacedWake
    <2>3. CASE ~pnd.trigged /\ pnd.power # "LOWVBAT"
      BY <1>7, <2>3, PlacedTransmit
    <2>4. QED BY <2>1, <2>2, <2>3
  <1>8. CASE SendFrame
    BY <1>8, PlacedTransmit
  <1>9. CASE ReceiveAck
    <2>1. CASE Accepted
      BY <2>1, PlacedAck
    <2>2. CASE ~Accepted
      BY <1>9, <2>2, BreaksMisread DEF Breaks
    <2>3. QED BY <2>1, <2>2
  <1>10. CASE ReceiveReply
    <2>1. CASE ~Mine(Head(rx)) \/ Head(rx).st \in {"rf", "released"}
      BY <1>10, <2>1, BreaksReply DEF Breaks
    <2>2. CASE Mine(Head(rx)) /\ Head(rx).st = "ok"
      BY <1>10, <2>2, PlacedReply
    <2>3. CASE Mine(Head(rx)) /\ Head(rx).st = "stranger"
      BY <1>10, <2>3, PlacedStranger
    <2>4. Mine(Head(rx)) => Head(rx).st \in Statuses
      BY <1>10, GotBy DEF Incoming, FrameType
    <2>5. QED BY <2>1, <2>2, <2>3, <2>4 DEF Statuses
  <1>11. CASE TimeOut \/ StopCommand
    BY <1>11, BreaksTimeOut, BreaksStop DEF Breaks
  <1>12. CASE Segfault
    <2>1. Gone /\ role' = role
      BY <1>12 DEF Segfault
    <2>2. QED BY <2>1, PlacedEnd
  <1>13. CASE Return
    BY <1>13, PlacedReturn
  <1>14. QED BY <1>1, <1>2, <1>3, <1>4, <1>5, <1>6, <1>7, <1>8, <1>9, <1>10, <1>11, <1>12, <1>13
              DEF HostStep

\* Every step, the loss of a frame included.
LEMMA PlacedNext ==
    ASSUME Types, NEW m, NEW n, Placed(m, n), Next
    PROVE  \E m2, n2 : Placed(m2, n2)'
  <1>1. CASE HostStep
    BY <1>1, PlacedHost
  <1>2. CASE Takes \/ Executes \/ Hearing
    <2>1. HostStays
      BY <1>2, TakesMoves, AnswersMoves
    <2>2. QED BY <2>1, PlacedSame DEF HostStays
  <1>3. CASE Lose
    <2>1. UNCHANGED <<role, call, result, todo, at, draining, pnd>> /\ abort' = abort
      BY <1>3 DEF Lose, host
    <2>2. QED BY <2>1, PlacedSame
  <1>4. CASE Start
    BY <1>4, PlacedStart
  <1>5. CASE Cancel
    BY <1>5, PlacedCancel
  <1>6. CASE Kill
    <2>1. Gone /\ role' = role
      BY <1>6 DEF Kill
    <2>2. QED BY <2>1, PlacedEnd
  <1>7. CASE AbortCommand
    <2>1. UNCHANGED <<role, call, result, todo, at, draining, pnd>>
      BY <1>7 DEF AbortCommand
    <2>2. QED BY <1>7, <2>1, PlacedSame
  <1>8. QED BY <1>1, <1>2, <1>3, <1>4, <1>5, <1>6, <1>7 DEF Next, ChipStep

\* The inductive invariant.
IInv == \E m, n : Placed(m, n) /\ (spent.lost = 0 => Deep(m, n))

\* What has been lost stays lost.
LEMMA LostGrows ==
    ASSUME Types, Next
    PROVE  IF Lose THEN ~(spent'.lost = 0) ELSE spent'.lost = spent.lost
  <1>1. spent.lost \in Nat
    BY BoundAssumption DEF Types, SpentTypes
  <1>2. CASE Lose
    <2>1. spent'.lost = spent.lost + 1
      BY <1>2 DEF Lose, Spend, Types, SpentTypes
    <2>2. QED BY <1>1, <1>2, <2>1
  <1>3. ASSUME ~Lose PROVE spent'.lost = spent.lost
    <2>1. CASE Start \/ AbortCommand
      BY <2>1 DEF Start, AbortCommand, Spend, Types, SpentTypes
    <2>2. CASE Takes \/ Executes \/ Hearing
      BY <2>2, TakesMoves, AnswersMoves DEF HostStays
    <2>3. CASE Cancel \/ Kill \/ Segfault \/ Return
      BY <2>3 DEF Cancel, Kill, Segfault, Return
    <2>4. CASE RaiseError \/ PassMark \/ SetFields \/ FlushInput \/ set_parameters \/ Remember
               \/ WriteRegisters
      BY <2>4 DEF RaiseError, PassMark, SetFields, FlushInput, set_parameters, Remember,
         WriteRegisters, Keep
    <2>5. CASE SendCommand \/ SendFrame \/ ReceiveAck \/ ReceiveReply \/ TimeOut \/ StopCommand
      BY <2>5 DEF SendCommand, SendFrame, ReceiveAck, ReceiveReply, TimeOut, StopCommand, Keep
    <2>6. QED BY <1>3, <2>1, <2>2, <2>3, <2>4, <2>5 DEF Next, HostStep, ChipStep
  <1>4. QED BY <1>2, <1>3

\* Every step keeps the invariant.
LEMMA DeepInductive == Types /\ IInv /\ [Next]_vars => IInv'
  <1> SUFFICES ASSUME Types, IInv, [Next]_vars PROVE IInv'
    OBVIOUS
  <1>1. PICK m, n : Placed(m, n) /\ (spent.lost = 0 => Deep(m, n))
    BY DEF IInv
  <1>2. CASE UNCHANGED vars
    <2>1. UNCHANGED <<role, call, result, todo, at, draining, pnd, chip, tx, rx>>
          /\ abort' = abort
          /\ spent' = spent
      BY <1>2 DEF vars, host, line
    <2>2. Placed(m, n)'
      BY <1>1, <2>1, PlacedSame
    <2>3. spent.lost = 0 => Deep(m, n)'
      BY <1>1, <2>1, DeepSame
    <2>4. QED BY <2>1, <2>2, <2>3 DEF IInv
  <1>3. CASE Next /\ ~Lose /\ spent.lost = 0
    <2>1. \E m2, n2 : Placed(m2, n2)' /\ Deep(m2, n2)'
      BY <1>1, <1>3, DeepNext
    <2>2. QED BY <2>1 DEF IInv
  <1>4. CASE Next /\ (Lose \/ ~(spent.lost = 0))
    <2>1. ~(spent'.lost = 0)
      BY <1>4, LostGrows
    <2>2. \E m2, n2 : Placed(m2, n2)'
      BY <1>1, <1>4, PlacedNext
    <2>3. QED BY <2>1, <2>2 DEF IInv
  <1>5. QED BY <1>2, <1>3, <1>4

\* It holds at the start.
LEMMA DeepInit == Init => IInv
  <1> SUFFICES ASSUME Init PROVE IInv
    OBVIOUS
  <1>1. /\ role \in {"initiator", "target"} /\ call = "none" /\ result = "ok" /\ todo = <<>>
           /\ at = "step"
        /\ draining = FALSE /\ abort = "none" /\ pnd = NewDevice /\ chip = Cold /\ tx = <<>>
           /\ rx = <<>>
    BY BoundAssumption DEF Init
  <1>2. /\ pnd.power = "LOWVBAT" /\ pnd.oper = "INITIATOR" /\ pnd.pending = {} /\ ~pnd.trigged
        /\ ~pnd.crc /\ ~pnd.par
    BY <1>1, Zenon DEF NewDevice
  <1>3. Where("none", 0)
    <2>1. Len(todo) = 0 /\ Len(todo) - 0 = 0
      <3>1. Len(todo) = 0
        BY <1>1
      <3>2. QED BY <3>1
    <2>2. Ends(todo, "none", 0)
      BY <2>1 DEF Ends
    <2>3. Inserted("none", 0, Len(todo) - 0)
      BY <2>1, Zenon DEF Inserted
    <2>4. "none" \in Modes /\ 0 \in 0 .. Length("none") /\ call = CallOf("none")
      BY <1>1, Lengths DEF Modes, CallOf
    <2>5. QED BY <2>2, <2>3, <2>4, Zenon DEF Where
  <1>4. Control("none", 0)
    BY <1>1, <1>2 DEF Control
  <1>5. PowerMode("none", 0) /\ OperMode("none", 0)
    BY <1>1, <1>2 DEF PowerMode, OperMode
  <1>6. Placed("none", 0)
    BY <1>3, <1>4, <1>5 DEF Placed
  <1>7. /\ chip.running.name = "idling" /\ chip.running.t = "cmd" /\ ~chip.running.old
           /\ ~chip.field
        /\ Len(tx) = 0 /\ Len(rx) = 0
    BY <1>1 DEF Cold, Frame, Idling
  <1>8. Discipline("none", 0) /\ Order
    BY <1>1, <1>7 DEF Discipline, DisciplineStep, DisciplineTx, DisciplineAck, DisciplineReply,
       Order,
       OrderIdle, OrderRead, OrderTx, OrderRunning, OrderRx, Idling
  <1>9. Clean("none", 0) /\ Power("none", 0) /\ Waking("none", 0) /\ Served("none", 0)
    BY DEF Clean, Settled, Power, Awake, Waking, WakingUp, Served
  <1>10. Idle("none", 0) /\ Target /\ Settings("none", 0) /\ AllSent
    BY <1>2, <1>7 DEF Idle, Target, Fieldless, Settings, AllSent, Sent
  <1>11. Deep("none", 0)
    BY <1>8, <1>9, <1>10 DEF Deep
  <1>12. QED BY <1>6, <1>11 DEF IInv

-----------------------------------------------------------------------------
\* The properties.

\* A command of mine that is next for the chip reaches it.
LEMMA NextIsMine ==
    ASSUME Types, NEW m, NEW n, Placed(m, n), Deep(m, n), Strict(m, n), at = "ack", tx # <<>>,
           Head(tx).t = "cmd"
    PROVE  /\ Len(tx) = 1 /\ tx[1].t = "cmd" /\ ~tx[1].old /\ tx[1].name = Head(todo).name
              /\ tx[1] = Head(tx)
           /\ InTx /\ ~Woken /\ MineInTx
  <1>1. Discipline(m, n) /\ Order
    BY DEF Deep
  <1>2. /\ tx \in Seq(Outgoing) /\ Len(tx) \in Nat /\ Len(tx) >= 1 /\ Head(tx) = tx[1]
           /\ tx[1] \in Outgoing
        /\ 1 \in 1 .. Len(tx)
    BY Pulled DEF Types, ChipTypes
  <1>3. Tracked(m, n, tx[1].name)
    BY StrictTracked
  <1>4. tx[1].old \in BOOLEAN
    BY <1>2 DEF Outgoing, FrameType
  <1>5. ~tx[1].old
    BY <1>1, <1>2, <1>3 DEF Discipline, DisciplineTx
  <1>6. 1 = Len(tx) /\ tx[1].name = Head(todo).name
    BY <1>1, <1>2, <1>5 DEF Order, OrderTx
  <1>7. ~Woken
    <2>1. \A l \in Nat : l = 1 => \A i \in 1 .. l : i = 1
      OBVIOUS
    <2>2. \A i \in 1 .. Len(tx) : i = 1
      BY <1>2, <1>6, <2>1
    <2>3. ~(tx[1].t = "wake")
      BY <1>2
    <2>4. QED BY <2>2, <2>3 DEF Woken
  <1>8. InTx /\ MineInTx
    BY <1>2, <1>5 DEF InTx, MineInTx
  <1>9. QED BY <1>2, <1>5, <1>6, <1>7, <1>8

\* The command that is next for the chip reaches it.
LEMMA DeepHears ==
    ASSUME Types, NEW m, NEW n, Placed(m, n), Deep(m, n), at = "ack", call # "close", tx # <<>>,
           Head(tx).t = "cmd"
    PROVE  Hears(Head(tx).name)
  <1>1. /\ Power(m, n) /\ Waking(m, n) /\ Served(m, n)
    BY DEF Deep
  <1>2. HostTypes /\ Where(m, n) /\ Control(m, n)
    BY DEF Types, Placed
  <1>3. todo # <<>> /\ Head(todo).op \in {"cmd", "frame"} /\ result = "ok"
    BY <1>2 DEF HostTypes, Control
  <1>4. Issues(m, n, Len(todo), Head(todo))
    BY <1>2, <1>3, Commanding
  <1>5. m \notin {"close", "close_target"}
    BY <1>2 DEF Where, CallOf
  <1>6. m \in {"receive", "send"} \/ WakingUp(m, n) \/ Awake(m, n)
    <2>1. PICK l, h : l = Len(todo) /\ h = Head(todo) /\ Issues(m, n, l, h)
      BY <1>4
    <2>2. ~(m = "open" /\ n = 6)
      BY <1>2 DEF Control
    <2>3. QED BY <1>3, <1>5, <2>1, <2>2 DEF Issues, WakingUp, Awake
  <1>7. CASE m \in {"receive", "send"}
    BY <1>1, <1>7 DEF Served, Hears
  <1>8. CASE WakingUp(m, n)
    <2>1. Strict(m, n) /\ Head(todo).name = "SAMConfiguration"
      BY <1>2, <1>8, WakingStrict
    <2>2. Len(tx) = 1 /\ tx[1].t = "cmd" /\ tx[1].name = Head(todo).name /\ tx[1] = Head(tx)
          /\ MineInTx
      BY <2>1, NextIsMine
    <2>3. chip.power \in {"halfway", "on"}
      BY <1>1, <1>8, <2>2 DEF Waking, WakingAck
    <2>4. QED BY <2>1, <2>2, <2>3 DEF Hears
  <1>9. CASE Awake(m, n)
    <2>1. CASE m = "failed_open"
      <3>1. InTx
        <4>1. Len(tx) \in Nat /\ Len(tx) >= 1 /\ Head(tx) = tx[1]
          BY Pulled DEF Types, ChipTypes
        <4>2. QED BY <4>1 DEF InTx
      <3>2. QED BY <1>1, <1>9, <2>1, <3>1 DEF Power, PowerAck, Hears
    <2>2. CASE m # "failed_open"
      <3>1. InTx /\ ~Woken
        BY <1>2, <1>9, <2>2, AwakeStrict, NextIsMine
      <3>2. QED BY <1>1, <1>9, <3>1 DEF Power, PowerAck, Hears
    <2>3. QED BY <2>1, <2>2
  <1>10. QED BY <1>6, <1>7, <1>8, <1>9

\* The properties follow from the invariant.
LEMMA DeepPowerKnown == Types /\ IInv => PowerKnown
  <1> SUFFICES ASSUME Types, IInv, spent.lost = 0
               PROVE  /\ at = "ack" /\ call # "close" /\ tx # <<>> /\ Head(tx).t = "cmd"
                           /\ chip.running.name \notin Prompt => Hears(Head(tx).name)
                      /\ pnd.oper = "IDLE" => pnd.power = "LOWVBAT" /\ chip.power = "lowvbat"
                         /\ ~chip.field
    BY DEF PowerKnown
  <1>1. PICK m, n : Placed(m, n) /\ Deep(m, n)
    BY DEF IInv
  <1>2. at = "ack" /\ call # "close" /\ tx # <<>> /\ Head(tx).t = "cmd" => Hears(Head(tx).name)
    BY <1>1, DeepHears
  <1>3. pnd.oper = "IDLE" => pnd.power = "LOWVBAT" /\ chip.power = "lowvbat" /\ ~chip.field
    BY <1>1 DEF Deep, Idle, Asleep
  <1>4. QED BY <1>2, <1>3

\* A reply that is taken counts, and so it is not of the past.
LEMMA DeepReplyIsMine == Types /\ IInv => ReplyIsMine
  <1> SUFFICES ASSUME Types, IInv, spent.lost = 0, at = "reply", ~draining, call # "close",
                      rx # <<>>,
                      Head(rx).t = "reply", Head(rx).name = Head(todo).name
               PROVE  ~Head(rx).old
    BY DEF ReplyIsMine
  <1>1. PICK m, n : Placed(m, n) /\ Deep(m, n)
    BY DEF IInv
  <1>2. HostTypes /\ Where(m, n) /\ Control(m, n)
    BY <1>1 DEF Types, Placed
  <1>3. todo # <<>> /\ Head(todo).op \in {"cmd", "frame"} /\ result = "ok"
    BY <1>2 DEF HostTypes, Control
  <1>4. Issues(m, n, Len(todo), Head(todo))
    BY <1>2, <1>3, Commanding
  <1>5. m \notin {"close", "close_target"}
    BY <1>2 DEF Where, CallOf
  <1>6. Tracked(m, n, Head(todo).name)
    <2>1. PICK l, h : l = Len(todo) /\ h = Head(todo) /\ Issues(m, n, l, h)
      BY <1>4
    <2>2. QED BY <1>3, <1>5, <2>1 DEF Issues, Tracked, Icily
  <1>7. Len(rx) \in Nat /\ Len(rx) >= 1 /\ Head(rx) = rx[1]
    BY Pulled DEF Types, ChipTypes
  <1>8. QED BY <1>1, <1>6, <1>7 DEF Deep, Discipline, DisciplineReply

\* The command that runs has its settings.
LEMMA DeepSettingsFirst == Types /\ IInv => SettingsFirst
  <1> SUFFICES ASSUME Types, IInv, spent.lost = 0, ~chip.running.old,
                      chip.running.name \in {"InJumpForDEP", "TgInitAsTarget"}
               PROVE  Needed(chip.running.name) \subseteq chip.regs
    BY DEF SettingsFirst
  <1>1. PICK m, n : Placed(m, n) /\ Deep(m, n)
    BY DEF IInv
  <1>2. chip.running.t = "cmd"
    BY DEF Types, ChipTypes, RunningFrame
  <1>3. QED BY <1>1, <1>2 DEF Deep, AllSent, Sent

\* The invariant of every theorem below.
LEMMA DeepAlways == Spec => [](Types /\ IInv)
  <1>1. Init => Types /\ IInv
    BY TypesInit, DeepInit
  <1>2. Types /\ IInv /\ [Next]_vars => (Types /\ IInv)'
    BY TypesNext, DeepInductive
  <1>3. QED BY <1>1, <1>2, PTL DEF Spec

\* The device, the chip and the line keep their types (struct nfc_device, pn53x_data).
THEOREM DeviceTypeCorrect == Spec => []TypeOK
  <1>1. Spec => []Types
    BY TypesInit, TypesNext, PTL DEF Spec
  <1>2. QED BY <1>1, TypesTypeOK, PTL

\* What the driver believes of the chip's power is never better than it is
\* (pn532_uart_send, pn53x_idle): no command reaches a chip asleep, and an idle device
\* sleeps, its field off.
THEOREM PowerIsKnown == Spec => []PowerKnown
  BY DeepAlways, DeepPowerKnown, PTL

\* The reply that pn53x_transceive takes by its code is the answer to the command it waits
\* for, whichever earlier calls timed out or were killed.
THEOREM RepliesAreMine == Spec => []ReplyIsMine
  BY DeepAlways, DeepReplyIsMine, PTL

\* The settings of a role are in the chip's registers before it acts in that role
\* (writeback_register, pn53x_write_register).
THEOREM SettingsComeFirst == Spec => []SettingsFirst
  BY DeepAlways, DeepSettingsFirst, PTL
=============================================================================
