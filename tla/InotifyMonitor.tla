--------------------------- MODULE InotifyMonitor ---------------------------
(***************************************************************************)
(* The daemon itself (main/Inotify.cpp): it watches a directory, has each  *)
(* modified .txt file encoded by snep-encode, and sends the result to the  *)
(* phone with snep-client, which it kills after Timeout seconds and starts *)
(* again up to Attempts times.  start_nfc.sh restarts the daemon when it   *)
(* exits.                                                                  *)
(*                                                                         *)
(* A file's content is the number of the write that left it: 0 is empty    *)
(* (the checksum is 0), Gone is no file.  Only IN_MODIFY events of files   *)
(* are modelled: InotifyLoop prints the others and goes on.                *)
(***************************************************************************)
EXTENDS Integers, Sequences

CONSTANTS
    TextFile,   \* files named *.txt
    OtherFile,  \* files with another extension
    PlainFile,  \* files without a dot in their name
    Attempts,   \* 5 in the code
    Timeout,    \* 5 in the code
    May,        \* what the environment may do: see Choice
    MaxWrites   \* bound: writes by the users of the directory

File == TextFile \cup OtherFile \cup PlainFile

\* "truncate", "delete": of a file by its user; "fail": snep-client may exit with 1 or
\* abort; "silent": it, or the fork or exec before it, may fail and yet leave status 0;
\* "encode": snep-encode may fail.
Choice == {"truncate", "delete", "fail", "silent", "encode"}

ASSUME MonitorAssumption ==
    /\ {Attempts, Timeout} \subseteq Nat \ {0} /\ MaxWrites \in Nat
    /\ May \subseteq Choice
ASSUME ExtensionAssumption ==
    TextFile \cap OtherFile = {} /\ TextFile \cap PlainFile = {} /\ OtherFile \cap PlainFile = {}

Gone    == -1
Message == 0..MaxWrites

VARIABLES
    file, writes,   \* the directory, and the number of writes so far
    events,         \* the kernel's inotify queue
    batch,          \* `buffer` from offset i on: the event under way is its head
    pc,
    globalCount,
    receipt,        \* the file receipt_nfc that snep-encode leaves for snep-client
    child,          \* the snep-client process
    waittime,
    tried, sent, attempts   \* history: last content of each file encoded, last message
                            \* reported sent, launches for the event under way

directory == <<file, writes>>
history   == <<tried, sent, attempts>>
vars == <<directory, events, batch, pc, globalCount, receipt, child, waittime, history>>

NoChild == [st |-> "none", got |-> FALSE]

Init ==
    /\ file = [f \in File |-> Gone] /\ writes = 0
    /\ events = <<>> /\ batch = <<>> /\ pc = "read"
    /\ globalCount = 0 /\ receipt = 0 /\ child = NoChild /\ waittime = 0
    /\ tried = [f \in File |-> 0] /\ sent = 0 /\ attempts = 0
-----------------------------------------------------------------------------
(***************************************************************************)
(* The users of the directory.  The kernel may merge an event with an      *)
(* equal one at the end of the queue; nobody listens while the daemon is   *)
(* down.                                                                   *)
(***************************************************************************)
Put(f, content) ==
    /\ file' = [file EXCEPT ![f] = content]
    /\ \/ pc # "dead" /\ events' = Append(events, f)
       \/ pc = "dead" /\ UNCHANGED events
       \/ events # <<>> /\ events[Len(events)] = f /\ UNCHANGED events
    /\ UNCHANGED <<batch, pc, globalCount, receipt, child, waittime, history>>

Write(f) == writes < MaxWrites /\ writes' = writes + 1 /\ Put(f, writes + 1)

Truncate(f) == "truncate" \in May /\ file[f] > 0 /\ UNCHANGED writes /\ Put(f, 0)

Delete(f) ==
    /\ "delete" \in May /\ file[f] # Gone
    /\ file' = [file EXCEPT ![f] = Gone]
    /\ UNCHANGED <<writes, events, batch, pc, globalCount, receipt, child, waittime, history>>
-----------------------------------------------------------------------------
(***************************************************************************)
(* InotifyLoop.                                                            *)
(***************************************************************************)
Read ==
    /\ pc = "read" /\ events # <<>>
    /\ batch' = events /\ events' = <<>>
    /\ pc' = "event" /\ attempts' = 0
    /\ UNCHANGED <<directory, globalCount, receipt, child, waittime, tried, sent>>

\* i += EVENT_SIZE + event->len, against `break`, which also gives up the rest of the batch.
Onward ==
    /\ batch' = Tail(batch)
    /\ pc' = IF Tail(batch) = <<>> THEN "read" ELSE "event"
    /\ attempts' = 0
Break == batch' = <<>> /\ pc' = "read" /\ attempts' = 0

\* exit(): the events not yet read go with the descriptor.
Die == pc' = "dead" /\ batch' = <<>> /\ events' = <<>> /\ attempts' = 0

Restart ==
    /\ pc = "dead"
    /\ pc' = "read" /\ globalCount' = 0
    /\ UNCHANGED <<directory, events, batch, receipt, child, waittime, history>>

OnEvent(files) == pc = "event" /\ Head(batch) \in files
Content == file[Head(batch)]

\* Without a dot execute_app ends without a return statement.  In the builds of
\* build/CMakeLists.txt, none of which optimises, the caller then finds a value that
\* is none of the codes it tests for.
Skip ==
    /\ OnEvent(PlainFile)
    /\ Onward
    /\ UNCHANGED <<directory, events, globalCount, receipt, child, waittime, tried, sent>>

\* EXT_NOT_MATCH; MESSAGE_REPEATED for a checksum of 0, prevCheckSum being local.
Dismiss ==
    /\ OnEvent(OtherFile) \/ (OnEvent(TextFile) /\ Content = 0)
    /\ Break
    /\ UNCHANGED <<directory, events, globalCount, receipt, child, waittime, tried, sent>>

\* ReadFile exits when the file cannot be opened.
Vanished ==
    /\ OnEvent(TextFile) /\ Content = Gone
    /\ Die
    /\ UNCHANGED <<directory, globalCount, receipt, child, waittime, tried, sent>>

ForkEncode ==
    /\ OnEvent(TextFile) /\ Content > 0
    /\ pc' = "encode"
    /\ UNCHANGED <<directory, events, batch, globalCount, receipt, child, waittime, history>>

\* snep-encode opens the file again; one that is gone makes an empty record.
Encoded ==
    /\ pc = "encode"
    /\ receipt' = IF Content = Gone THEN 0 ELSE Content
    /\ tried' = [tried EXCEPT ![Head(batch)] = receipt']
    /\ child' = [NoChild EXCEPT !.st = "running"] /\ waittime' = 0
    /\ attempts' = attempts + 1
    /\ pc' = "wait"
    /\ UNCHANGED <<directory, events, batch, globalCount, sent>>

EncodeFails ==
    /\ pc = "encode" /\ "encode" \in May
    /\ Die
    /\ UNCHANGED <<directory, globalCount, receipt, child, waittime, tried, sent>>

\* Mutant of Sleep: the seconds are not counted.
SleepUncounted ==
    /\ pc = "wait" /\ child.st = "running" /\ waittime < Timeout
    /\ UNCHANGED <<directory, events, batch, pc, globalCount, receipt, child, waittime, history>>

\* waitpid(WNOHANG) finds the child running: one second of sleep, or the time is up.
Sleep ==
    /\ pc = "wait" /\ child.st = "running" /\ waittime < Timeout
    /\ waittime' = waittime + 1
    /\ UNCHANGED <<directory, events, batch, pc, globalCount, receipt, child, history>>

TimeIsUp ==
    /\ pc = "wait" /\ child.st = "running" /\ waittime = Timeout
    /\ pc' = "kill"
    /\ UNCHANGED <<directory, events, batch, globalCount, receipt, child, waittime, history>>

\* The status is collected: by waitpid(WNOHANG), or after the kill, which a child that
\* has ended in the meantime does not notice.
Reaped(st) ==
    \/ pc = "wait" /\ child.st = st /\ st # "running"
    \/ pc = "kill" /\ st = (IF child.st = "running" THEN "signaled" ELSE child.st)

Succeeded ==
    /\ Reaped("exit0")
    /\ sent' = receipt
    /\ child' = NoChild
    /\ Break
    /\ UNCHANGED <<directory, events, globalCount, receipt, waittime, tried>>

\* Mutants of Failed: one attempt too many; no end to them.
FailedOnceMore ==
    /\ Reaped("exit1") \/ Reaped("signaled")
    /\ child' = NoChild
    /\ IF globalCount + 1 <= Attempts
       THEN globalCount' = globalCount + 1 /\ pc' = "event" /\ UNCHANGED <<batch, attempts>>
       ELSE globalCount' = 0 /\ Onward
    /\ UNCHANGED <<directory, events, receipt, waittime, tried, sent>>
FailedForEver ==
    /\ Reaped("exit1") \/ Reaped("signaled")
    /\ child' = NoChild /\ pc' = "event"
    /\ globalCount' = (globalCount + 1) % Attempts
    /\ UNCHANGED <<directory, events, batch, receipt, waittime, tried, sent, attempts>>

\* `continue` leaves i where it is: the same event again.
Failed ==
    /\ Reaped("exit1") \/ Reaped("signaled")
    /\ child' = NoChild
    /\ IF globalCount + 1 < Attempts
       THEN globalCount' = globalCount + 1 /\ pc' = "event" /\ UNCHANGED <<batch, attempts>>
       ELSE globalCount' = 0 /\ Onward
    /\ UNCHANGED <<directory, events, receipt, waittime, tried, sent>>

Daemon ==
    \/ Read \/ Restart \/ Skip \/ Dismiss \/ Vanished
    \/ ForkEncode \/ Encoded \/ EncodeFails
    \/ Sleep \/ TimeIsUp \/ Succeeded \/ Failed
-----------------------------------------------------------------------------
(***************************************************************************)
(* snep-client: the phone may get the message at any moment until it ends, *)
(* and it may hang.                                                        *)
(***************************************************************************)
Transmit == child.st = "running" /\ ~child.got /\ child' = [child EXCEPT !.got = TRUE]

Exit ==
    /\ child.st = "running"
    /\ \E st \in (IF child.got \/ "silent" \in May THEN {"exit0"} ELSE {})
             \cup (IF "fail" \in May THEN {"exit1", "signaled"} ELSE {}) :
        child' = [child EXCEPT !.st = st]

SnepClient ==
    /\ Transmit \/ Exit
    /\ UNCHANGED <<directory, events, batch, pc, globalCount, receipt, waittime, history>>
-----------------------------------------------------------------------------
Next ==
    \/ Daemon
    \/ SnepClient
    \/ \E f \in File : Write(f) \/ Truncate(f) \/ Delete(f)

Spec == Init /\ [][Next]_vars

\* The daemon runs; snep-client owes nothing.
FairSpec == Spec /\ WF_vars(Daemon)
-----------------------------------------------------------------------------
TypeOK ==
    /\ file \in [File -> Message \cup {Gone}] /\ writes \in Message
    /\ events \in Seq(File) /\ batch \in Seq(File)
    /\ pc \in {"read", "event", "encode", "wait", "kill", "dead"}
    /\ (pc \in {"event", "encode", "wait", "kill"}) <=> (batch # <<>>)
    /\ globalCount \in 0..(Attempts - 1)
    /\ receipt \in Message /\ waittime \in 0..Timeout
    /\ child \in [st : {"none", "running", "exit0", "exit1", "signaled"}, got : BOOLEAN]
    /\ tried \in [File -> Message] /\ sent \in Message /\ attempts \in Nat

(***************************************************************************)
(* One event makes the daemon start snep-client at most five times, though *)
(* `continue` repeats the event and globalCount is kept from file to file. *)
(***************************************************************************)
AttemptsBounded == attempts <= Attempts

(***************************************************************************)
(* Whatever snep-client does, the daemon comes back to read new events.    *)
(***************************************************************************)
BackToRead == pc # "read" ~> pc = "read"

(***************************************************************************)
(* "Max. number of events to process at one go" (main.h:9): the events of  *)
(* a batch are processed, so that the last version of every text file is   *)
(* encoded and handed to snep-client.                                      *)
(***************************************************************************)
LastWriteTried ==
    \A f \in TextFile : \A m \in Message \ {0} :
        file[f] = m ~> (file[f] # m \/ tried[f] = m)

(***************************************************************************)
(* "Message repeated" (Inotify.cpp:207): a message the daemon has just     *)
(* reported sent is not sent once more.                                    *)
(***************************************************************************)
RepeatsRecognised == [][child.st = "none" /\ child'.st = "running" => receipt' # sent]_vars

(***************************************************************************)
(* "Child transmitted NDEF successfully." (Inotify.cpp:122): what is       *)
(* reported sent has reached the phone.                                    *)
(***************************************************************************)
DoneMeansTransmitted == [][Reaped("exit0") /\ child'.st = "none" => child.got]_vars
=============================================================================
