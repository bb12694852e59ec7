---------------------------- MODULE LinkLifecycle ----------------------------
(***************************************************************************)
(* The life of an LLCP link between two devices that both run this         *)
(* library.  On each device the main thread runs a program's sequence of   *)
(* calls (mac_iso18092.c, llc_link.c, llcp.c), the PDU exchange thread     *)
(* moves frames between the radio and the two message queues, the engine   *)
(* thread serves the queues, and deactivation has to bring all of them to  *)
(* an end, whoever leaves first.  What the engine makes of a PDU is        *)
(* LlcConnections' business: here it may answer or not.                    *)
(***************************************************************************)
EXTENDS Integers, Sequences

CONSTANT
    Scenarios   \* bound: the programs that meet and what may happen to them, see ScenarioAssumption

\* "alone": the other device may not be found; "nomagic": the initiator may find one that
\* does not speak LLCP; "leave": the devices may be moved apart;
\* "abort": SIGINT may make an NFC call fail (nfc_abort_command).
Choice  == {"alone", "nomagic", "leave", "abort"}
Dev     == {"initiator", "target"}
Other(d) == IF d = "initiator" THEN "target" ELSE "initiator"

\* snep-client, snep-server, test_mac_link.c and test_01 of the test client: the calls they
\* make, one after the other.  "session" stands for what happens while the link is up.
Program == {"client", "server", "mactest", "testclient"}
After(p, c) ==
    CASE c = "activate" /\ p = "client"      -> "connect"
      [] c = "activate" /\ p = "server"      -> "wait"
      [] c = "session" /\ p = "client"       -> "deactivate"
      [] c = "session" /\ p = "testclient"   -> "disconnect"
      [] c = "session"                       -> "macdeact"
      [] c = "disconnect"                    -> "deactivate"
      [] c = "deactivate" /\ p = "testclient" -> "again"
      [] c = "again"                         -> "wait"
      [] c \in {"deactivate", "wait", "macdeact"} -> "macfree"
      [] c = "macfree"                       -> "linkfree"
      [] c \in {"linkfree", "exit"}          -> "exit"
      [] OTHER                               -> "session"
Call == {"activate", "connect", "session", "disconnect", "deactivate", "again", "wait", "macdeact",
         "macfree", "linkfree", "exit"}
Entry(c) == IF c = "again" THEN "deactivate" ELSE c

\* What the devices run, whose services have something to send, and what may happen.
ASSUME ScenarioAssumption ==
    Scenarios \subseteq [run : [Dev -> Program], talking : SUBSET Dev, may : SUBSET Choice]

MaxMsg == 2     \* mq_maxmsg of llc_up and llc_down

VARIABLES
    scenario,   \* which of Scenarios it is
    call, at,   \* the main thread: the call it makes, and where in it it is
    status, macLink, engThread,     \* struct llc_link: status, mac_link and thread,
    upFd, downFd, names,            \* its descriptors, whether the queues have names,
    linkFreed,                      \* and whether it has been freed
    ioThread, macFreed,             \* struct mac_link: exchange_pdus_thread
    ioPc, ioCancelled,              \* the PDU exchange thread, later the drain thread
    engPc, engCancelled,            \* the engine thread
    up, down,   \* the message queues llc_up and llc_down
    air,        \* the frame on its way to a device
    field,      \* "off", "on", or "gone" for good
    fault       \* "none", or why the process is gone

main == <<scenario, call, at>>
link == <<status, macLink, engThread, upFd, downFd, names, linkFreed>>
mac  == <<ioThread, macFreed>>
io   == <<ioPc, ioCancelled>>
eng  == <<engPc, engCancelled>>
vars == <<main, link, mac, io, eng, up, down, air, field, fault>>

\* Frames differ only in whether they are DISC(0,0).
NoFrame == "none"
Pdu     == {"PDU", "DISC"}

MainAt == {"activate", "open", "mark", "run", "connect", "session", "disconnect", "deactivate",
           "macdeact", "cancel", "slayio", "drained", "slay", "slayeng", "close", "wait", "join",
           "joining", "macfree", "linkfree", "exit", "over"}
IoPc   == {"none", "bootstrap", "transceive", "receive", "poll", "clear", "report", "drain", "exited"}
EngPc  == {"none", "recv", "reply", "transmit", "cleanup", "forget", "exited"}
Fault  == {"none", "assert", "null", "freed", "closed twice"}
Descriptor == {"none", "open", "closed"}

Init ==
    /\ scenario \in Scenarios
    /\ call = [d \in Dev |-> "activate"] /\ at = [d \in Dev |-> "activate"]
    /\ status = [d \in Dev |-> "off"] /\ macLink = [d \in Dev |-> TRUE]
    /\ engThread = [d \in Dev |-> FALSE] /\ names = [d \in Dev |-> FALSE]
    /\ upFd = [d \in Dev |-> "none"] /\ downFd = [d \in Dev |-> "none"]
    /\ linkFreed = [d \in Dev |-> FALSE]
    /\ ioThread = [d \in Dev |-> FALSE] /\ macFreed = [d \in Dev |-> FALSE]
    /\ ioPc = [d \in Dev |-> "none"] /\ ioCancelled = [d \in Dev |-> FALSE]
    /\ engPc = [d \in Dev |-> "none"] /\ engCancelled = [d \in Dev |-> FALSE]
    /\ up = [d \in Dev |-> <<>>] /\ down = [d \in Dev |-> <<>>]
    /\ air = [d \in Dev |-> NoFrame]
    /\ field = "off"
    /\ fault = [d \in Dev |-> "none"]

Gone(d)   == at[d] = "over"
Connected == field = "on"

\* The call returns, and the program makes the next.
Return(d) ==
    LET c == After(scenario.run[d], call[d])
    IN  call' = [call EXCEPT ![d] = c] /\ at' = [at EXCEPT ![d] = Entry(c)] /\ UNCHANGED scenario
Goto(d, label) == at' = [at EXCEPT ![d] = label] /\ UNCHANGED <<scenario, call>>
OnlyMain == UNCHANGED <<link, mac, io, eng, up, down, air, field, fault>>

\* A process that ends takes its threads, its memory and its device with it.
Vanish(d) ==
    /\ Goto(d, "over")
    /\ status' = [status EXCEPT ![d] = "off"] /\ macLink' = [macLink EXCEPT ![d] = TRUE]
    /\ engThread' = [engThread EXCEPT ![d] = FALSE] /\ names' = [names EXCEPT ![d] = FALSE]
    /\ upFd' = [upFd EXCEPT ![d] = "none"] /\ downFd' = [downFd EXCEPT ![d] = "none"]
    /\ linkFreed' = [linkFreed EXCEPT ![d] = FALSE]
    /\ ioThread' = [ioThread EXCEPT ![d] = FALSE] /\ macFreed' = [macFreed EXCEPT ![d] = FALSE]
    /\ ioPc' = [ioPc EXCEPT ![d] = "none"] /\ ioCancelled' = [ioCancelled EXCEPT ![d] = FALSE]
    /\ engPc' = [engPc EXCEPT ![d] = "none"] /\ engCancelled' = [engCancelled EXCEPT ![d] = FALSE]
    /\ up' = [up EXCEPT ![d] = <<>>] /\ down' = [down EXCEPT ![d] = <<>>]
    /\ air' = [e \in Dev |-> NoFrame] /\ field' = "gone"
Crash(d, why) == Vanish(d) /\ fault' = [fault EXCEPT ![d] = why]
Exit(d)       == at[d] = "exit" /\ Vanish(d) /\ UNCHANGED fault
-----------------------------------------------------------------------------
(***************************************************************************)
(* Activation.                                                             *)
(***************************************************************************)

\* nfc_initiator_poll_dep_target and nfc_target_init find each other.
Select ==
    /\ \A d \in Dev : at[d] = "activate"
    /\ field = "off"
    /\ field' = "on"
    /\ at' = [d \in Dev |-> "open"]
    /\ UNCHANGED <<scenario, call, link, mac, io, eng, up, down, air, fault>>

\* They give up after ten and five seconds, and the program exits.
ActivateFails(d) ==
    /\ at[d] = "activate"
    /\ "alone" \in scenario.may \/ at[Other(d)] # "activate"
    /\ Goto(d, "exit")
    /\ OnlyMain

\* The result of the poll is returned although nothing has been activated.
PollOther(d) ==
    /\ at[d] = "activate" /\ d = "initiator" /\ "nomagic" \in scenario.may
    /\ Return(d)
    /\ OnlyMain

\* llc_link_activate: both queues, then the engine ...
StartEngine(d) ==
    /\ at[d] = "open"
    /\ upFd' = [upFd EXCEPT ![d] = "open"] /\ downFd' = [downFd EXCEPT ![d] = "open"]
    /\ names' = [names EXCEPT ![d] = TRUE] /\ engThread' = [engThread EXCEPT ![d] = TRUE]
    /\ engPc' = [engPc EXCEPT ![d] = "recv"]
    /\ Goto(d, "mark")
    /\ UNCHANGED <<mac, io, up, down, air, field, fault, status, macLink, linkFreed, engCancelled>>

\* ... and only then the status.
MarkActivated(d) ==
    /\ at[d] = "mark"
    /\ status' = [status EXCEPT ![d] = "on"]
    /\ Goto(d, "run")
    /\ UNCHANGED <<mac, io, eng, up, down, air, field, fault, macLink, engThread, upFd, downFd,
                   names, linkFreed>>

\* mac_link_run.
StartExchange(d) ==
    /\ at[d] = "run"
    /\ ioThread' = [ioThread EXCEPT ![d] = TRUE]
    /\ ioPc' = [ioPc EXCEPT ![d] = IF d = "initiator" THEN "bootstrap" ELSE "receive"]
    /\ Return(d)
    /\ UNCHANGED <<link, eng, up, down, air, field, fault, macFreed, ioCancelled>>

Activation(d) ==
    \/ ActivateFails(d) \/ PollOther(d) \/ StartEngine(d)
    \/ MarkActivated(d) \/ StartExchange(d)
-----------------------------------------------------------------------------
(***************************************************************************)
(* While the link is up: llc_link_send_pdu, called by the main thread.     *)
(***************************************************************************)
SendPdu(d, pdu) ==
    /\ status[d] = "on" /\ downFd[d] = "open" /\ Len(down[d]) < MaxMsg
    /\ down' = [down EXCEPT ![d] = Append(@, pdu)]
    /\ Return(d)
    /\ UNCHANGED <<link, mac, io, eng, up, air, field, fault>>

\* llc_connection_connect; the client exits when mq_send fails.
Connect(d) ==
    /\ at[d] = "connect"
    /\ \/ SendPdu(d, "PDU")
       \/ /\ status[d] = "on" /\ downFd[d] # "open"
          /\ Goto(d, "exit")
          /\ OnlyMain

\* llcp_disconnect, up to its call of llc_link_deactivate.
Disconnect(d) ==
    /\ at[d] = "disconnect"
    /\ \/ SendPdu(d, "DISC")
       \/ /\ status[d] = "on" /\ downFd[d] # "open"
          /\ Return(d)
          /\ OnlyMain

\* assert(link->status == LL_ACTIVATED)
NotActivated(d) ==
    /\ at[d] \in {"connect", "disconnect"} /\ status[d] = "off"
    /\ Crash(d, "assert")

SessionOver(d) ==
    /\ at[d] = "session"
    /\ Return(d)
    /\ OnlyMain

\* mac_link_wait: assert(exchange_pdus_thread), then *exchange_pdus_thread, then the join.
Wait(d) ==
    /\ at[d] = "wait" /\ ioThread[d]
    /\ Goto(d, "join")
    /\ OnlyMain

WaitFails(d) ==
    /\ at[d] \in {"wait", "join"} /\ ~ioThread[d]
    /\ Crash(d, IF at[d] = "wait" THEN "assert" ELSE "null")

Dereference(d) ==
    /\ at[d] = "join" /\ ioThread[d]
    /\ Goto(d, "joining")
    /\ OnlyMain

Joined(d) ==
    /\ at[d] = "joining" /\ ioPc[d] = "exited"
    /\ Return(d)
    /\ OnlyMain

Use(d) ==
    \/ Connect(d) \/ Disconnect(d) \/ NotActivated(d)
    \/ Wait(d) \/ WaitFails(d) \/ Dereference(d) \/ Joined(d)
-----------------------------------------------------------------------------
(***************************************************************************)
(* Deactivation: llc_link_deactivate around mac_link_deactivate.           *)
(***************************************************************************)
Deactivate(d) ==
    /\ at[d] = "deactivate"
    /\ status' = [status EXCEPT ![d] = "off"]
    /\ Goto(d, IF macLink[d] THEN "macdeact" ELSE "slay")
    /\ UNCHANGED <<mac, io, eng, up, down, air, field, fault, macLink, engThread, upFd, downFd,
                   names, linkFreed>>

\* mac_link_deactivate returns to llc_link_deactivate or to the program.
MacReturn(d) == IF call[d] = "macdeact" THEN Return(d) ELSE Goto(d, "slay")

MacStopped(d) ==
    /\ at[d] = "macdeact" /\ ~ioThread[d]
    /\ MacReturn(d)
    /\ OnlyMain

MacRuns(d) ==
    /\ at[d] = "macdeact" /\ ioThread[d]
    /\ Goto(d, "cancel")
    /\ OnlyMain

\* llcp_threadslayer(*link->exchange_pdus_thread)
CancelExchange(d) ==
    /\ at[d] = "cancel"
    /\ ioThread[d]
    /\ ioCancelled' = [ioCancelled EXCEPT ![d] = TRUE]
    /\ Goto(d, "slayio")
    /\ UNCHANGED <<link, mac, eng, up, down, air, field, fault, ioPc>>

CancelNothing(d) ==
    /\ at[d] = "cancel" /\ ~ioThread[d]
    /\ Crash(d, "null")

\* Then the initiator deselects the target, and the target answers until it is.
Released(d) ==
    /\ at[d] = "slayio" /\ ioPc[d] = "exited" /\ d = "initiator"
    /\ ioThread' = [ioThread EXCEPT ![d] = FALSE]
    /\ field' = "gone"
    /\ MacReturn(d)
    /\ UNCHANGED <<link, io, eng, up, down, air, fault, macFreed>>

StartDrain(d) ==
    /\ at[d] = "slayio" /\ ioPc[d] = "exited" /\ d = "target"
    /\ ioThread' = [ioThread EXCEPT ![d] = TRUE]
    /\ ioPc' = [ioPc EXCEPT ![d] = "drain"] /\ ioCancelled' = [ioCancelled EXCEPT ![d] = FALSE]
    /\ Goto(d, "drained")
    /\ UNCHANGED <<link, eng, up, down, air, field, fault, macFreed>>

Drained(d) ==
    /\ at[d] = "drained" /\ ioPc[d] = "exited"
    /\ ioThread' = [ioThread EXCEPT ![d] = FALSE]
    /\ MacReturn(d)
    /\ UNCHANGED <<link, io, eng, up, down, air, field, fault, macFreed>>

CancelEngine(d) ==
    /\ at[d] = "slay"
    /\ macLink' = [macLink EXCEPT ![d] = FALSE]
    /\ IF engThread[d]
       THEN engCancelled' = [engCancelled EXCEPT ![d] = TRUE] /\ Goto(d, "slayeng")
       ELSE Goto(d, "close") /\ UNCHANGED engCancelled
    /\ UNCHANGED <<mac, io, up, down, air, field, fault, status, engThread, upFd, downFd, names,
                   linkFreed, engPc>>

\* Mutant of EngineJoined: pthread_cancel without pthread_join.
EngineNotJoined(d) ==
    /\ at[d] = "slayeng"
    /\ engThread' = [engThread EXCEPT ![d] = FALSE]
    /\ Goto(d, "close")
    /\ UNCHANGED <<mac, io, eng, up, down, air, field, fault, status, macLink, upFd, downFd, names,
                   linkFreed>>

EngineJoined(d) ==
    /\ at[d] = "slayeng" /\ engPc[d] = "exited"
    /\ engThread' = [engThread EXCEPT ![d] = FALSE]
    /\ Goto(d, "close")
    /\ UNCHANGED <<mac, io, eng, up, down, air, field, fault, status, macLink, upFd, downFd, names,
                   linkFreed>>

CloseQueues(d) ==
    /\ at[d] = "close"
    /\ IF "closed" \in {upFd[d], downFd[d]} THEN Crash(d, "closed twice")
       ELSE /\ upFd' = [upFd EXCEPT ![d] = "none"] /\ downFd' = [downFd EXCEPT ![d] = "none"]
            /\ names' = [names EXCEPT ![d] = FALSE]
            /\ Return(d)
            /\ UNCHANGED <<mac, io, eng, up, down, air, field, fault, status, macLink, engThread,
                           linkFreed>>

FreeMac(d) ==
    /\ at[d] = "macfree"
    /\ macFreed' = [macFreed EXCEPT ![d] = TRUE]
    /\ macLink' = [macLink EXCEPT ![d] = FALSE]
    /\ Return(d)
    /\ UNCHANGED <<io, eng, up, down, air, field, fault, status, engThread, upFd, downFd, names,
                   linkFreed, ioThread>>

FreeLink(d) ==
    /\ at[d] = "linkfree"
    /\ linkFreed' = [linkFreed EXCEPT ![d] = TRUE]
    /\ Return(d)
    /\ UNCHANGED <<mac, io, eng, up, down, air, field, fault, status, macLink, engThread, upFd,
                   downFd, names>>

Deactivation(d) ==
    \/ Deactivate(d) \/ MacStopped(d) \/ MacRuns(d) \/ CancelExchange(d) \/ CancelNothing(d)
    \/ Released(d) \/ StartDrain(d) \/ Drained(d) \/ CancelEngine(d) \/ EngineJoined(d)
    \/ CloseQueues(d) \/ FreeMac(d) \/ FreeLink(d)

Main(d) == Activation(d) \/ Use(d) \/ Deactivation(d) \/ Exit(d)
-----------------------------------------------------------------------------
(***************************************************************************)
(* The PDU exchange thread.  The initiator sends a frame and waits for the *)
(* answer in one call, nfc_initiator_transceive_bytes; the target receives *)
(* and sends.  What becomes of a frame received is decided in the step     *)
(* that receives it, and a PDU leaves llc_down in the step that sends it:  *)
(* nobody sees the buffer in between.                                      *)
(***************************************************************************)
IoAt(d, label) == ioPc' = [ioPc EXCEPT ![d] = label] /\ UNCHANGED ioCancelled
Listening(d)   == IF d = "initiator" THEN "transceive" ELSE "receive"
Send(d, frame) == Connected /\ air' = [air EXCEPT ![Other(d)] = frame]

Bootstrap(d) ==
    /\ ioPc[d] = "bootstrap"
    /\ Send(d, "PDU")
    /\ IoAt(d, "transceive")
    /\ UNCHANGED <<main, link, mac, eng, up, down, field, fault>>

\* Only an activated link is given the PDU; a full or closed llc_up ends the exchange.
Receive(d) ==
    /\ ioPc[d] = Listening(d) /\ air[d] # NoFrame /\ Connected
    /\ air' = [air EXCEPT ![d] = NoFrame]
    /\ IF status[d] = "off" THEN IoAt(d, "poll") /\ UNCHANGED up
       ELSE IF upFd[d] = "open" /\ Len(up[d]) < MaxMsg
       THEN IoAt(d, "poll") /\ up' = [up EXCEPT ![d] = Append(@, air[d])]
       ELSE IoAt(d, "clear") /\ UNCHANGED up
    /\ UNCHANGED <<main, link, mac, eng, down, field, fault>>

\* mq_timedreceive with a deadline in the past: SYMM when there is nothing to send.
PollAndSend(d) ==
    /\ ioPc[d] = "poll" /\ ~ioCancelled[d] /\ downFd[d] = "open"
    /\ IF down[d] = <<>> THEN Send(d, "PDU") /\ UNCHANGED down
       ELSE Send(d, Head(down[d])) /\ down' = [down EXCEPT ![d] = Tail(@)]
    /\ IoAt(d, Listening(d))
    /\ UNCHANGED <<main, link, mac, eng, up, field, fault>>

PollClosed(d) ==
    /\ ioPc[d] = "poll" /\ downFd[d] # "open"
    /\ IoAt(d, "clear")
    /\ UNCHANGED <<main, link, mac, eng, up, down, air, field, fault>>

\* Nobody answers: the field is gone or the other device's thread is.
Silent(d) == ~Connected \/ ioPc[Other(d)] \in {"clear", "report", "exited"}
CallFails(d) == Silent(d) \/ ioCancelled[d] \/ "abort" \in scenario.may

\* An NFC call fails, by SIGUSR1 or SIGINT too; what was taken to be sent is lost.
IoFails(d) ==
    /\ ioPc[d] \in {"bootstrap", "transceive", "receive", "poll", "drain"}
    /\ CallFails(d)
    /\ IoAt(d, IF ioPc[d] \in {"bootstrap", "drain"} THEN "exited" ELSE "clear")
    /\ IF ioPc[d] = "poll" /\ downFd[d] = "open" /\ down[d] # <<>>
       THEN down' = [down EXCEPT ![d] = Tail(@)] ELSE UNCHANGED down
    /\ UNCHANGED <<main, link, mac, eng, up, air, field, fault>>

\* link->exchange_pdus_thread = NULL
ClearThread(d) ==
    /\ ioPc[d] = "clear"
    /\ ioThread' = [ioThread EXCEPT ![d] = FALSE]
    /\ IoAt(d, "report")
    /\ UNCHANGED <<main, link, eng, up, down, air, field, fault, macFreed>>

\* The last error is read from link->device.
Report(d) ==
    /\ ioPc[d] = "report"
    /\ IF macFreed[d] THEN Crash(d, "freed")
       ELSE IoAt(d, "exited") /\ UNCHANGED <<main, link, mac, eng, up, down, air, field, fault>>

\* Cancellation points, where a pending request is acted on; pdu_send is none.
IoCancelled(d) ==
    /\ ioCancelled[d] /\ ioPc[d] \in {"receive", "poll"}
    /\ IoAt(d, "exited")
    /\ UNCHANGED <<main, link, mac, eng, up, down, air, field, fault>>

\* mac_link_drain: SYMM for every frame, until the initiator leaves.
Drain(d) ==
    /\ ioPc[d] = "drain" /\ air[d] # NoFrame
    /\ Connected
    /\ air' = [air EXCEPT ![d] = NoFrame, ![Other(d)] = "PDU"]
    /\ UNCHANGED <<main, link, mac, io, eng, up, down, field, fault>>

Exchange(d) ==
    \/ Bootstrap(d) \/ Receive(d) \/ PollAndSend(d) \/ PollClosed(d) \/ IoFails(d)
    \/ ClearThread(d) \/ Report(d) \/ IoCancelled(d) \/ Drain(d)
-----------------------------------------------------------------------------
(***************************************************************************)
(* The engine thread.  It cannot be cancelled while it handles a PDU; what *)
(* frees it from a full llc_down is the signal of llcp_threadslayer.       *)
(***************************************************************************)
EngAt(d, label) == engPc' = [engPc EXCEPT ![d] = label] /\ UNCHANGED engCancelled
Answers(d)     == IF d \in scenario.talking THEN {"reply", "transmit"} ELSE {}

\* Mutant of Dispatch: DISC(0,0) ends the engine and leaves the status alone.
DispatchUnmarked(d) ==
    /\ engPc[d] = "recv" /\ ~engCancelled[d] /\ up[d] # <<>>
    /\ up' = [up EXCEPT ![d] = Tail(@)]
    /\ IF Head(up[d]) = "DISC" THEN EngAt(d, "cleanup")
       ELSE \E label \in {"recv"} \cup Answers(d) : EngAt(d, label)
    /\ UNCHANGED <<main, link, mac, io, down, air, field, fault>>

\* An answer while handling the PDU ("reply"), one after the sweep ("transmit"), both, or none.
Dispatch(d) ==
    /\ engPc[d] = "recv" /\ ~engCancelled[d] /\ up[d] # <<>>
    /\ up' = [up EXCEPT ![d] = Tail(@)]
    /\ IF Head(up[d]) = "DISC"
       THEN status' = [status EXCEPT ![d] = "off"] /\ EngAt(d, "cleanup")
       ELSE UNCHANGED status /\ \E label \in {"recv"} \cup Answers(d) : EngAt(d, label)
    /\ UNCHANGED <<main, mac, io, down, air, field, fault, macLink, engThread, upFd, downFd, names,
                   linkFreed>>

\* Mutant of HandOver: a queue opened without mq_maxmsg.
HandOverUnbounded(d) ==
    /\ engPc[d] \in {"reply", "transmit"}
    /\ engPc[d] = "transmit" => ~engCancelled[d]
    /\ down' = [down EXCEPT ![d] = Append(@, "PDU")]
    /\ \E label \in {"recv"} \cup (IF engPc[d] = "reply" THEN {"transmit"} ELSE {}) : EngAt(d, label)
    /\ UNCHANGED <<main, link, mac, io, up, air, field, fault>>

HandOver(d) ==
    /\ engPc[d] \in {"reply", "transmit"}
    /\ engPc[d] = "transmit" => ~engCancelled[d]
    /\ Len(down[d]) < MaxMsg
    /\ down' = [down EXCEPT ![d] = Append(@, "PDU")]
    /\ \E label \in {"recv"} \cup (IF engPc[d] = "reply" THEN {"transmit"} ELSE {}) : EngAt(d, label)
    /\ UNCHANGED <<main, link, mac, io, up, air, field, fault>>

\* Mutant of Interrupted: no signal, so that mq_send blocks for good.
NotInterrupted(d) == FALSE

\* SIGUSR1: mq_send fails with EINTR, and the answer is dropped.
Interrupted(d) ==
    /\ engPc[d] = "reply" /\ engCancelled[d]
    /\ \E label \in {"transmit", "recv"} : EngAt(d, label)
    /\ UNCHANGED <<main, link, mac, io, up, down, air, field, fault>>

EngineCancelled(d) ==
    /\ engPc[d] \in {"recv", "transmit"} /\ engCancelled[d]
    /\ EngAt(d, "cleanup")
    /\ UNCHANGED <<main, link, mac, io, up, down, air, field, fault>>

\* llc_service_llc_thread_cleanup closes the MAC thread's descriptors ...
Cleanup(d) ==
    /\ engPc[d] = "cleanup"
    /\ upFd' = [upFd EXCEPT ![d] = IF @ = "open" THEN "closed" ELSE @]
    /\ downFd' = [downFd EXCEPT ![d] = IF @ = "open" THEN "closed" ELSE @]
    /\ EngAt(d, "forget")
    /\ UNCHANGED <<main, mac, io, up, down, air, field, fault, status, macLink, engThread, names,
                   linkFreed>>

\* ... and marks them so.
Forget(d) ==
    /\ engPc[d] = "forget"
    /\ upFd' = [upFd EXCEPT ![d] = IF @ = "closed" THEN "none" ELSE @]
    /\ downFd' = [downFd EXCEPT ![d] = IF @ = "closed" THEN "none" ELSE @]
    /\ EngAt(d, "exited")
    /\ UNCHANGED <<main, mac, io, up, down, air, field, fault, status, macLink, engThread, names,
                   linkFreed>>

\* It goes on with the link it was given, freed or not.
Stranded(d) == linkFreed[d] /\ engPc[d] \notin {"none", "exited"}
               /\ (engPc[d] # "recv" \/ up[d] # <<>>)

Engine(d) ==
    \/ /\ ~Stranded(d)
       /\ \/ Dispatch(d) \/ HandOver(d) \/ Interrupted(d) \/ EngineCancelled(d)
          \/ Cleanup(d) \/ Forget(d)
    \/ Stranded(d) /\ Crash(d, "freed")
-----------------------------------------------------------------------------
\* The devices are moved apart.
Lost ==
    /\ "leave" \in scenario.may /\ field = "on"
    /\ field' = "gone"
    /\ UNCHANGED <<main, link, mac, io, eng, up, down, air, fault>>

Over == (\A d \in Dev : Gone(d)) /\ UNCHANGED vars

Step(d) == ~Gone(d) /\ (Main(d) \/ SessionOver(d) \/ Exchange(d) \/ Engine(d))

Next == Select \/ (\E d \in Dev : Step(d)) \/ Lost \/ Over

Spec == Init /\ [][Next]_vars

\* Threads run and NFC calls return; how long a session lasts is free.
Fairness ==
    /\ WF_vars(Select)
    /\ \A d \in Dev : /\ WF_vars(~Gone(d) /\ Main(d))
                      /\ WF_vars(~Gone(d) /\ Exchange(d))
                      /\ WF_vars(~Gone(d) /\ Engine(d))

FairSpec == Spec /\ Fairness
-----------------------------------------------------------------------------
Ended(pc) == pc \in {"none", "exited"}

TypeOK ==
    /\ scenario \in Scenarios
    /\ call \in [Dev -> Call]
    /\ at \in [Dev -> MainAt]
    /\ status \in [Dev -> {"off", "on"}]
    /\ macLink \in [Dev -> BOOLEAN] /\ engThread \in [Dev -> BOOLEAN]
    /\ upFd \in [Dev -> Descriptor] /\ downFd \in [Dev -> Descriptor]
    /\ names \in [Dev -> BOOLEAN] /\ linkFreed \in [Dev -> BOOLEAN]
    /\ ioThread \in [Dev -> BOOLEAN] /\ macFreed \in [Dev -> BOOLEAN]
    /\ ioPc \in [Dev -> IoPc] /\ engPc \in [Dev -> EngPc]
    /\ ioCancelled \in [Dev -> BOOLEAN] /\ engCancelled \in [Dev -> BOOLEAN]
    /\ up \in [Dev -> Seq(Pdu)] /\ down \in [Dev -> Seq(Pdu)]
    /\ \A d \in Dev : Len(up[d]) <= MaxMsg /\ Len(down[d]) <= MaxMsg
    /\ air \in [Dev -> Pdu \cup {NoFrame}]
    /\ field \in {"off", "on", "gone"}
    /\ fault \in [Dev -> Fault]

(***************************************************************************)
(* An activated link has an engine and open queues, although activation    *)
(* marks it only once the engine runs and a DISC(0,0) or a deactivation    *)
(* may come at any moment after: what the exchange thread is told to put   *)
(* into llc_up has somebody to take it out.                                *)
(***************************************************************************)
ActivatedHasEngine ==
    \A d \in Dev : status[d] = "on" =>
        /\ upFd[d] = "open" /\ downFd[d] = "open"
        /\ engPc[d] \in {"recv", "reply", "transmit"}

(***************************************************************************)
(* After llc_link_deactivate has unlinked the queues nothing of the link   *)
(* is left: the engine has ended, both descriptors are closed, once, by    *)
(* the engine or by the caller, and the exchange thread has ended but for  *)
(* its last words.                                                         *)
(***************************************************************************)
Deactivated ==
    \A d \in Dev :
        /\ fault[d] # "closed twice"
        /\ at[d] \notin {"activate", "open"} /\ ~names[d] =>
            /\ status[d] = "off" /\ ~engThread[d] /\ Ended(engPc[d])
            /\ upFd[d] = "none" /\ downFd[d] = "none"
            /\ Ended(ioPc[d]) \/ ioPc[d] = "report"

(***************************************************************************)
(* Once the initiator deactivates its link everything comes to an end on   *)
(* both devices: with an engine blocked on a full queue, a thread inside   *)
(* an NFC call, a target that drains or waits, or a link that is over      *)
(* already.                                                                *)
(***************************************************************************)
LinkWindsUp ==
    at["initiator"] = "deactivate" ~>
        Gone("initiator") /\ (Gone("target") \/ at["target"] = "session")

\* The assertions and pointers of the library's own code, for every program of the repository.
NoCrash == \A d \in Dev : fault[d] = "none"
=============================================================================
