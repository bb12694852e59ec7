------------------------ MODULE InotifyMonitorProofs ------------------------
(***************************************************************************)
(* Proofs about InotifyMonitor, for every set of files, number of          *)
(* attempts, timeout and number of writes.                                 *)
(***************************************************************************)
EXTENDS InotifyMonitor, SequenceTheorems, TLAPS

\* Each launch after the first was paid for by an increment of globalCount, which
\* may have started anywhere below Attempts; between events there are none.
Launches ==
    /\ attempts <= globalCount + (IF pc \in {"wait", "kill"} THEN 1 ELSE 0)
    /\ pc \in {"read", "dead"} => attempts = 0

IInv == TypeOK /\ Launches

\* What the parts of a batch are, and that a batch under way has a head among the files.
LEMMA BatchParts ==
    ASSUME NEW b \in Seq(File), b # <<>>
    PROVE  Head(b) \in File /\ Tail(b) \in Seq(File)
  BY HeadTailProperties

LEMMA InitIInv == Init => IInv
  <1> SUFFICES ASSUME Init PROVE IInv
    OBVIOUS
  <1>1. 0 \in Message /\ 0 \in 0..(Attempts - 1) /\ 0 \in 0..Timeout
    BY MonitorAssumption DEF Message
  <1>2. <<>> \in Seq(File)
    BY EmptySeq
  <1>3. TypeOK
    BY <1>1, <1>2 DEF Init, TypeOK, NoChild
  <1>4. QED BY <1>3 DEF Init, IInv, Launches

\* The users of the directory add to it and to the kernel's queue only.
LEMMA UserStep ==
    ASSUME IInv, NEW f \in File, Write(f) \/ Truncate(f) \/ Delete(f)
    PROVE  IInv'
  <1> USE DEF IInv
  <1>1. ASSUME NEW m \in Message, writes' \in Message, Put(f, m)
        PROVE  IInv'
    <2>1. events' \in Seq(File)
      <3>1. events \in Seq(File) /\ Append(events, f) \in Seq(File)
        BY AppendProperties DEF TypeOK
      <3>2. events' = events \/ events' = Append(events, f)
        BY <1>1 DEF Put
      <3>3. QED BY <3>1, <3>2
    <2>2. file' \in [File -> Message \cup {Gone}]
      BY <1>1 DEF TypeOK, Put
    <2>3. QED BY <1>1, <2>1, <2>2 DEF TypeOK, Launches, Put, history
  <1>2. CASE Write(f)
    <2>1. writes + 1 \in Message
      BY <1>2, MonitorAssumption DEF TypeOK, Write, Message
    <2>2. QED BY <1>1, <1>2, <2>1 DEF Write
  <1>3. CASE Truncate(f)
    <2>1. 0 \in Message /\ writes' \in Message
      BY <1>3, MonitorAssumption DEF TypeOK, Truncate, Message
    <2>2. QED BY <1>1, <1>3, <2>1 DEF Truncate
  <1>4. CASE Delete(f)
    <2>1. file' \in [File -> Message \cup {Gone}]
      BY <1>4 DEF TypeOK, Delete
    <2>2. QED BY <1>4, <2>1 DEF TypeOK, Launches, Delete, history
  <1>5. QED BY <1>2, <1>3, <1>4

\* Leaving an event, for the next one, for the kernel's queue or for good.
LEMMA EventLeft ==
    ASSUME IInv, batch # <<>>, Onward \/ Break \/ Die
    PROVE  /\ batch' \in Seq(File) /\ attempts' = 0
           /\ pc' \in {"read", "event", "dead"}
           /\ pc' = "event" <=> batch' # <<>>
  BY BatchParts, EmptySeq DEF IInv, TypeOK, Onward, Break, Die

\* What the daemon does with an event until it has a child to wait for.
LEMMA EventStep ==
    ASSUME IInv, Read \/ Restart \/ Skip \/ Dismiss \/ Vanished \/ ForkEncode \/ EncodeFails
    PROVE  IInv'
  <1> USE DEF IInv
  <1>1. CASE Read
    <2>1. <<>> \in Seq(File)
      BY EmptySeq
    <2>2. QED BY <1>1, <2>1 DEF TypeOK, Launches, Read, directory
  <1>2. CASE Restart
    <2>1. 0 \in 0..(Attempts - 1)
      BY MonitorAssumption
    <2>2. attempts = 0
      BY <1>2 DEF Launches, Restart
    <2>3. QED BY <1>2, <2>1, <2>2 DEF TypeOK, Launches, Restart, directory, history
  <1>3. CASE Skip \/ Dismiss
    <2>1. /\ batch # <<>> /\ (Onward \/ Break)
          /\ UNCHANGED <<directory, events, globalCount, receipt, child, waittime, tried, sent>>
      BY <1>3 DEF Skip, Dismiss, OnEvent, TypeOK
    <2>2. QED BY <2>1, EventLeft DEF TypeOK, Launches, directory
  <1>4. CASE Vanished \/ EncodeFails
    <2>1. /\ batch # <<>> /\ Die
          /\ UNCHANGED <<directory, globalCount, receipt, child, waittime, tried, sent>>
      BY <1>4 DEF Vanished, EncodeFails, OnEvent, TypeOK
    <2>2. events' \in Seq(File)
      BY <2>1, EmptySeq DEF Die
    <2>3. QED BY <2>1, <2>2, EventLeft DEF TypeOK, Launches, directory
  <1>5. CASE ForkEncode
    BY <1>5 DEF TypeOK, Launches, ForkEncode, OnEvent, directory, history
  <1>6. QED BY <1>1, <1>2, <1>3, <1>4, <1>5

\* What it does from the launch of snep-client to its end.
LEMMA ChildStep ==
    ASSUME IInv, Encoded \/ Sleep \/ TimeIsUp \/ Succeeded \/ Failed
    PROVE  IInv'
  <1> USE DEF IInv
  <1>1. CASE Encoded
    <2>1. Head(batch) \in File
      BY <1>1, BatchParts DEF TypeOK, Encoded
    <2>2. receipt' \in Message
      BY <1>1, <2>1, MonitorAssumption DEF TypeOK, Encoded, Content, Message
    <2>3. tried' \in [File -> Message]
      BY <1>1, <2>1, <2>2 DEF TypeOK, Encoded
    <2>4. 0 \in 0..Timeout
      BY MonitorAssumption
    <2>5. child' = [st |-> "running", got |-> FALSE]
      BY <1>1 DEF Encoded, NoChild
    <2>6. attempts' \in Nat /\ attempts' <= globalCount' + 1
      BY <1>1 DEF TypeOK, Launches, Encoded
    <2>7. /\ UNCHANGED <<file, writes, events, batch, globalCount, sent>>
          /\ pc = "encode" /\ pc' = "wait" /\ waittime' \in 0..Timeout
      BY <1>1, <2>4 DEF Encoded, directory
    <2>8. TypeOK'
      BY <2>2, <2>3, <2>5, <2>6, <2>7 DEF TypeOK
    <2>9. Launches'
      BY <2>6, <2>7 DEF Launches
    <2>10. QED BY <2>8, <2>9
  <1>2. CASE Sleep
    BY <1>2, MonitorAssumption DEF TypeOK, Launches, Sleep, directory, history
  <1>3. CASE TimeIsUp
    BY <1>3 DEF TypeOK, Launches, TimeIsUp, directory, history
  <1>4. CASE Succeeded
    <2>1. batch # <<>> /\ Break
      BY <1>4 DEF Succeeded, Reaped, TypeOK
    <2>2. QED BY <1>4, <2>1, EventLeft DEF TypeOK, Launches, Succeeded, NoChild, directory
  <1>5. CASE Failed
    <2>1. batch # <<>> /\ child' = NoChild /\ attempts <= globalCount + 1
      BY <1>5 DEF Failed, Reaped, TypeOK, Launches
    <2>2. CASE globalCount + 1 < Attempts
      <3>1. /\ globalCount' = globalCount + 1 /\ globalCount' \in 0..(Attempts - 1)
            /\ pc' = "event" /\ batch' = batch /\ attempts' = attempts
        BY <1>5, <2>2, MonitorAssumption DEF Failed, TypeOK
      <3>2. QED BY <1>5, <2>1, <3>1 DEF TypeOK, Launches, Failed, NoChild, directory
    <2>3. CASE ~(globalCount + 1 < Attempts)
      <3>1. globalCount' = 0 /\ globalCount' \in 0..(Attempts - 1) /\ Onward
        BY <1>5, <2>3, MonitorAssumption DEF Failed
      <3>2. QED BY <1>5, <2>1, <3>1, EventLeft DEF TypeOK, Launches, Failed, NoChild, directory
    <2>4. QED BY <2>2, <2>3
  <1>6. QED BY <1>1, <1>2, <1>3, <1>4, <1>5

LEMMA NextIInv == IInv /\ [Next]_vars => IInv'
  <1> SUFFICES ASSUME IInv, [Next]_vars PROVE IInv'
    OBVIOUS
  <1>1. CASE Daemon
    BY <1>1, EventStep, ChildStep DEF Daemon
  <1>2. CASE SnepClient
    <2>1. child' \in [st : {"none", "running", "exit0", "exit1", "signaled"}, got : BOOLEAN]
      BY <1>2 DEF IInv, TypeOK, SnepClient, Transmit, Exit
    <2>2. QED BY <1>2, <2>1 DEF IInv, TypeOK, Launches, SnepClient, directory, history
  <1>3. CASE \E f \in File : Write(f) \/ Truncate(f) \/ Delete(f)
    BY <1>3, UserStep
  <1>4. CASE UNCHANGED vars
    BY <1>4 DEF IInv, TypeOK, Launches, vars, directory, history
  <1>5. QED BY <1>1, <1>2, <1>3, <1>4 DEF Next

LEMMA Inductive == Spec => []IInv
  <1>1. QED BY InitIInv, NextIInv, PTL DEF Spec

\* Every variable of the daemon keeps its type; globalCount stays below Attempts.
THEOREM MonitorTypeCorrect == Spec => []TypeOK
  <1>1. IInv => TypeOK
    BY DEF IInv
  <1>2. QED BY <1>1, Inductive, PTL

\* No event makes the daemon start snep-client more than Attempts times, whatever
\* happens to the file, to snep-client and to globalCount on the way.
THEOREM LaunchesBounded == Spec => []AttemptsBounded
  <1>1. IInv => AttemptsBounded
    BY MonitorAssumption DEF IInv, TypeOK, Launches, AttemptsBounded
  <1>2. QED BY <1>1, Inductive, PTL
=============================================================================
