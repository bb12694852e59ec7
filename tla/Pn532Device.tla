----------------------------- MODULE Pn532Device -----------------------------
(***************************************************************************)
(* The NFC device under the MAC link: libnfc's PN532 on a serial line      *)
(* (nfc.c, chips/pn53x.c, drivers/pn532_uart.c, buses/uart.c), as          *)
(* mac_iso18092.c and the example programs call it.                        *)
(*                                                                         *)
(* An API call is a script of steps.  A command is written to the line,    *)
(* acknowledged and answered by the chip, which is a machine of its own:   *)
(* it sleeps, it waits for the other device, and it may answer after the   *)
(* host has given up.  What the host remembers of the chip (power mode,    *)
(* register cache, parameters, target) has to stay true through timeouts,  *)
(* aborts, cancelled threads, killed processes and lost frames.  Frames    *)
(* come and go whole; PDUs and register values are abstracted.             *)
(***************************************************************************)
EXTENDS Integers, Sequences

CONSTANTS
    Roles,          \* the roles that are explored, of "initiator" and "target"
    Polls,          \* bound: rounds of nfc_initiator_poll_dep_target
    MaxStarts,      \* bound: processes that use the device, one after the other
    MaxAborts,      \* bound: signals that call nfc_abort_command
    MaxStrangers,   \* bound: readers that are no DEP initiator and wake the target
    MaxLost         \* bound: frames lost on the serial line

ASSUME BoundAssumption ==
    /\ Roles \subseteq {"initiator", "target"}
    /\ {Polls, MaxStarts, MaxAborts, MaxStrangers, MaxLost} \subseteq Nat

VARIABLES
    role,       \* the role of the processes
    spent,      \* how much of the bounds has been used
    call,       \* the API call that runs or has just returned, "none" without a process
    result,     \* its result
    todo,       \* the steps it has before it
    at,         \* where in a command it is: "step", "ack" or "reply"
    draining,   \* whether mac_link_drain uses the device
    abort,      \* "asked", and "caught" if the call that runs has seen it
    pnd,        \* struct nfc_device and pn53x_data
    chip,       \* the chip
    tx, rx      \* the serial line, to and from the chip

host == <<call, result, todo, at, draining, abort, pnd>>
line == <<tx, rx>>
vars == <<role, spent, host, chip, line>>
-----------------------------------------------------------------------------
(***************************************************************************)
(* Commands and steps.                                                     *)
(***************************************************************************)

\* Register fields the driver sets; regs and pending say which hold what was asked for.
Crc    == {"txcrc", "rxcrc"}
Whole  == {"rxcrc", "rxspeed", "noerror", "multiple", "rxframing"}   \* all of RxMode
Iso14443a  == {"txframing", "rxframing", "ask", "txspeed", "rxspeed"}
Field  == Crc \cup Whole \cup Iso14443a \cup {"parity", "crypto", "txbits", "rfon", "initiator"}

\* Commands the chip answers at once, and commands that wait for the other device.
Prompt == {"Diagnose", "GetFirmwareVersion", "SetParameters", "SAMConfiguration", "ReadRegister",
           "WriteRegister", "RFConfiguration", "InDeselect", "InRelease", "PowerDown"}
Waiting == {"InJumpForDEP", "InDataExchange", "TgInitAsTarget", "TgGetData", "TgSetData"}
Idling == "idling"

Step(op, name, arg) == [op |-> op, name |-> name, arg |-> arg]
Cmd(name)        == Step("cmd", name, {})           \* pn53x_transceive
With(name, arg)  == Step("cmd", name, arg)
Set(fields)      == Step("set", "", fields)         \* pn53x_write_register
Do(name)         == Step("do", name, {})
Try              == Step("try", "", {})             \* an error is not passed on between
Catch(name)      == Step("catch", name, {})         \*   these two, or it is dealt with
Raise(error)     == Step("raise", error, {})

\* The commands with an argument or an effect of their own.
RFField(state)  == With("RFConfiguration", {state})
MaxRetries      == Cmd("RFConfiguration")
SetParameters(value) == With("SetParameters", {value})
SAMConfiguration == Cmd("SAMConfiguration")
PowerDown       == Cmd("PowerDown")
InRelease       == Cmd("InRelease")
InDeselect      == Cmd("InDeselect")
InDataExchange  == Cmd("InDataExchange")
InJumpForDEP    == Cmd("InJumpForDEP")
TgInitAsTarget  == Cmd("TgInitAsTarget")
TgGetData       == Cmd("TgGetData")
TgSetData       == Cmd("TgSetData")
ReadRegister    == Cmd("ReadRegister")
Write           == Step("write", "", {})        \* the cache, after what was read
Diagnose        == Cmd("Diagnose")
GetFirmwareVersion == Cmd("GetFirmwareVersion")

reset_settings == Set({"txbits", "crypto", "parity"} \cup Crc)
init == <<GetFirmwareVersion, SetParameters("default"), reset_settings>>

idle == CASE pnd.oper = "TARGET"    -> <<InRelease, PowerDown, Do("idle")>>
          [] pnd.oper = "INITIATOR" -> <<InRelease, RFField("off"), PowerDown, Do("idle")>>
          [] pnd.oper = "IDLE"      -> <<Do("idle")>>
close == idle \o <<Catch("any"), Do("closed")>>

\* What pn53x_init returns is not looked at.
open == <<Do("flush"), Diagnose, Catch("close")>> \o init \o <<Catch("any")>>

set_mode == <<Set(Iso14443a \cup {"noerror", "multiple"}), reset_settings>>
initiator_init == <<RFField("off"), RFField("on"), MaxRetries, Do("parameters")>>
                    \o set_mode \o <<Set({"initiator"}), Do("INITIATOR")>>

\* One round of the loop; what ends it without an error is a target.
select_dep_target == <<Try, Do("free"), InJumpForDEP, Catch("timeout")>>
Rounds == [i \in 1 .. 4 * Polls |-> select_dep_target[1 + ((i - 1) % 4)]]
poll_dep_target == <<MaxRetries>> \o Rounds \o <<Raise("absent")>>

set_target == <<Set({"noerror", "multiple"}), reset_settings, Do("parameters"), RFField("off")>>
target_init == set_target \o
    <<reset_settings, Do("TARGET"), Try, Do("parameters"), Catch("any"),
      Set({"rfon"}), Try, TgInitAsTarget, Catch("idle")>>

deselect_target == <<Do("free"), InDeselect>>

Script(c) ==
    CASE c = "open"           -> open
      [] c = "initiator_init" -> initiator_init
      [] c = "poll"           -> poll_dep_target
      [] c = "exchange"       -> <<InDataExchange>>
      [] c = "deselect"       -> deselect_target
      [] c = "target_init"    -> target_init
      [] c = "receive"        -> <<TgGetData>>
      [] c = "send"           -> <<TgSetData>>
      [] c = "close"          -> close

(***************************************************************************)
(* The program: mac_link_activate, the PDU exchange thread, deactivation,  *)
(* and nfc_close, at the latest by atexit.                                 *)
(***************************************************************************)
NextCalls ==
    IF result # "ok"
    THEN CASE call \in {"open", "close"}   -> {"none"}
           [] call = "exchange"            -> {"deselect", "close"}
           [] OTHER                        -> {"close"}
    ELSE CASE call = "open" -> {IF role = "initiator" THEN "initiator_init" ELSE "target_init"}
           [] call = "initiator_init"      -> {"poll"}
           [] call \in {"poll", "exchange"} -> {"exchange", "deselect"}
           [] call = "deselect"            -> {"close"}
           [] call \in {"target_init", "send"} -> {"receive"}
           [] call = "receive"             -> {"send"}
           [] call = "close"               -> {"none"}
-----------------------------------------------------------------------------
Frame(t, name, arg) == [t |-> t, name |-> name, arg |-> arg, st |-> "ok", old |-> FALSE]
Aged(s) == [i \in DOMAIN s |-> [s[i] EXCEPT !.old = TRUE]]

Cold == [power |-> "lowvbat", running |-> Frame("cmd", Idling, {}), regs |-> {},
         default |-> FALSE, field |-> FALSE]

\* pn532_uart_open, pn53x_data_new and nfc_device_new.
NewDevice == [power |-> "LOWVBAT", oper |-> "INITIATOR", target |-> FALSE, crc |-> FALSE,
              par |-> FALSE, default |-> FALSE, pending |-> {}, trigged |-> FALSE]

Init ==
    /\ role \in Roles
    /\ spent = [starts |-> 0, aborts |-> 0, strangers |-> 0, lost |-> 0]
    /\ call = "none" /\ result = "ok" /\ todo = <<>> /\ at = "step"
    /\ draining = FALSE /\ abort = "none"
    /\ pnd = NewDevice
    /\ chip = Cold
    /\ tx = <<>> /\ rx = <<>>

Spend(what) == spent' = [spent EXCEPT ![what] = @ + 1]

\* Mutant: no wait.
QuietAtOnce == TRUE
\* The chip has nothing to do that takes only milliseconds: when a timeout runs out, and
\* after the 50 ms of uart_flush_input(sp, true).
Quiet == tx = <<>> /\ chip.running.name \notin Prompt
-----------------------------------------------------------------------------
(***************************************************************************)
(* The chip: as the driver uses it.                                        *)
(***************************************************************************)
Hears(c) == chip.power = "on" \/ (chip.power = "halfway" /\ c = "SAMConfiguration")

\* A new command and the host's ACK frame make it give up what it waits for.
Takes ==
    /\ tx # <<>> /\ chip.running.name \notin Prompt
    /\ tx' = Tail(tx)
    /\ LET f == Head(tx)
       IN  CASE f.t = "wake" ->
                    /\ chip' = [chip EXCEPT !.power = CASE @ = "lowvbat" -> "halfway"
                                                        [] @ = "down" -> "on" [] OTHER -> @]
                    /\ UNCHANGED rx
             [] f.t = "ack" ->
                    /\ chip' = IF chip.power = "on"
                               THEN [chip EXCEPT !.running = Cold.running] ELSE chip
                    /\ UNCHANGED rx
             [] f.t = "cmd" /\ Hears(f.name) ->
                    /\ chip' = [chip EXCEPT !.running = f,
                                    !.field = @ \/ f.name = "InJumpForDEP",
                                    !.power = IF f.name = "TgInitAsTarget" THEN "down" ELSE "on"]
                    /\ rx' = Append(rx, [f EXCEPT !.t = "ack"])
             [] f.t = "cmd" /\ ~Hears(f.name) -> UNCHANGED <<chip, rx>>
    /\ UNCHANGED <<role, spent, host>>

Answer(status) ==
    /\ rx' = Append(rx, [chip.running EXCEPT !.t = "reply", !.st = status,
                            !.arg = IF chip.running.name = "ReadRegister" THEN chip.regs ELSE @])
    /\ UNCHANGED <<role, host, tx>>

Executes ==
    LET c == chip.running
    IN  /\ c.name \in Prompt
        /\ Answer("ok")
        /\ chip' = [chip EXCEPT
                !.running = Cold.running,
                !.power   = IF c.name = "PowerDown" THEN "lowvbat" ELSE @,
                !.regs    = IF c.name = "WriteRegister" THEN @ \cup c.arg ELSE @,
                !.default = IF c.name = "SetParameters" THEN c.arg = {"default"} ELSE @,
                !.field   = IF c.name = "RFConfiguration"
                            THEN "on" \in c.arg \/ (@ /\ "off" \notin c.arg) ELSE @]
        /\ UNCHANGED spent

\* The other device answers, fails or leaves.
Outcomes(name) == IF name \in {"TgGetData", "TgSetData"} THEN {"ok", "released"}
                  ELSE IF name = "TgInitAsTarget" THEN {"ok"} ELSE {"ok", "rf"}
Hearing ==
    /\ chip.running.name \in Waiting
    /\ \/ \E st \in Outcomes(chip.running.name) : Answer(st) /\ UNCHANGED spent
       \/ /\ chip.running.name = "TgInitAsTarget" /\ spent.strangers < MaxStrangers
          /\ Answer("stranger") /\ Spend("strangers")
    /\ chip' = [chip EXCEPT !.running = Cold.running, !.power = "on"]

Lose ==
    /\ spent.lost < MaxLost /\ Spend("lost")
    /\ \/ tx # <<>> /\ tx' = Tail(tx) /\ UNCHANGED rx
       \/ rx # <<>> /\ rx' = Tail(rx) /\ UNCHANGED tx
    /\ UNCHANGED <<role, host, chip>>
-----------------------------------------------------------------------------
(***************************************************************************)
(* The host: one step of the script.                                       *)
(***************************************************************************)
Ready(op) == todo # <<>> /\ at = "step" /\ Head(todo).op = op
Keep == UNCHANGED <<role, spent, call, draining>>

\* The rest of the script after an error, and whether the script deals with it.
Handler(e) ==
    LET s     == Tail(todo)
        marks == {i \in DOMAIN s : s[i].op \in {"try", "catch"}}
        first == CHOOSE i \in marks : \A j \in marks : i <= j
        rest  == SubSeq(s, first + 1, Len(s))
        no    == [caught |-> FALSE, todo |-> <<>>]
    IN  IF marks = {} THEN no
        ELSE CASE s[first].name = "any" -> [caught |-> TRUE, todo |-> rest]
               [] s[first].name = "close" -> [caught |-> TRUE, todo |-> close \o <<Raise("io")>>]
               [] s[first].name = "timeout" /\ e = "timeout" -> [caught |-> TRUE, todo |-> rest]
               [] s[first].name = "idle" /\ e = "timeout" ->
                    [caught |-> TRUE, todo |-> idle \o <<Catch("any"), Raise("timeout")>>]
               [] OTHER -> no

\* Mutant: the command is not left.
FailKeep(e) ==
    /\ at' = at
    /\ todo' = Handler(e).todo
    /\ result' = IF Handler(e).caught THEN result ELSE e
Fail(e) ==
    /\ at' = "step"
    /\ todo' = Handler(e).todo
    /\ result' = IF Handler(e).caught THEN result ELSE e

RaiseError ==
    /\ Ready("raise") /\ Fail(Head(todo).name)
    /\ UNCHANGED <<abort, pnd, chip, line>> /\ Keep

PassMark ==
    /\ Ready("try") \/ Ready("catch")
    /\ todo' = Tail(todo)
    /\ UNCHANGED <<at, result, abort, pnd, chip, line>> /\ Keep

\* Mutant: the cache is not marked.
SetFieldsUntriggered ==
    /\ Ready("set")
    /\ pnd' = [pnd EXCEPT !.pending = @ \cup Head(todo).arg, !.crc = @ \/ Crc \subseteq Head(todo).arg,
                    !.par = @ \/ "parity" \in Head(todo).arg]
    /\ todo' = Tail(todo)
    /\ UNCHANGED <<at, result, abort, chip, line>> /\ Keep
\* pn53x_set_property_bool and pn53x_write_register: into the cache.
SetFields ==
    /\ Ready("set")
    /\ LET asked  == Head(todo).arg
           fields == asked \ ((IF pnd.crc THEN Crc ELSE {})
                                \cup (IF pnd.par THEN {"parity"} ELSE {}))
       IN  pnd' = [pnd EXCEPT !.pending = @ \cup fields, !.trigged = TRUE,
                        !.crc = @ \/ Crc \subseteq asked, !.par = @ \/ "parity" \in asked]
    /\ todo' = Tail(todo)
    /\ UNCHANGED <<at, result, abort, chip, line>> /\ Keep

\* uart_flush_input(sp, true)
FlushInput ==
    /\ Ready("do") /\ Head(todo).name = "flush"
    /\ Quiet
    /\ rx' = <<>> /\ todo' = Tail(todo)
    /\ UNCHANGED <<at, result, abort, pnd, chip, tx>> /\ Keep

\* A command only if it would change something; a cache that was never set may hold anything.
set_parameters ==
    /\ Ready("do") /\ Head(todo).name = "parameters"
    /\ \/ todo' = Tail(todo)
       \/ ~pnd.default /\ todo' = <<SetParameters("garbage")>> \o Tail(todo)
    /\ UNCHANGED <<at, result, abort, pnd, chip, line>> /\ Keep

Remember ==
    /\ Ready("do") /\ Head(todo).name \notin {"flush", "parameters"}
    /\ LET what == Head(todo).name
       IN  pnd' = CASE what = "free"   -> [pnd EXCEPT !.target = FALSE]
                    [] what = "idle"   -> [pnd EXCEPT !.target = FALSE, !.oper = "IDLE"]
                    [] what = "closed" -> NewDevice
                    [] what \in {"INITIATOR", "TARGET"} -> [pnd EXCEPT !.oper = what]
    /\ todo' = Tail(todo)
    /\ UNCHANGED <<at, result, abort, chip, line>> /\ Keep

(***************************************************************************)
(* pn53x_transceive: what the cache holds goes first.  A register of which *)
(* only some bits are asked for is read, and written if it differs.        *)
(***************************************************************************)
Partial(fields) == IF Whole \subseteq fields THEN fields \ Whole ELSE fields

WriteBack ==
    /\ todo' = (IF Partial(pnd.pending) = {} THEN <<>> ELSE <<ReadRegister>>)
                    \o <<Write>> \o todo
    /\ pnd' = [pnd EXCEPT !.trigged = FALSE]
    /\ UNCHANGED <<at, chip, line>>

WriteRegisters ==
    /\ Ready("write")
    /\ todo' = (IF pnd.pending = {} THEN <<>> ELSE <<With("WriteRegister", pnd.pending)>>)
                    \o Tail(todo)
    /\ pnd' = [pnd EXCEPT !.pending = {}]
    /\ UNCHANGED <<at, result, abort, chip, line>> /\ Keep

\* A frame of its own for the command; all that is under way belongs to an earlier one.
Transmit(before, flushed) ==
    /\ tx' = Aged(tx) \o before \o <<Frame("cmd", Head(todo).name, Head(todo).arg)>>
    /\ rx' = Aged(flushed)
    /\ chip' = [chip EXCEPT !.running.old = chip.running.name # Idling]
    /\ at' = "ack"
    /\ UNCHANGED todo

Wake == <<Frame("wake", Idling, {})>>

\* pn532_uart_send up to the ACK frame; the SAMConfiguration it sends to wake the chip is a
\* command like the others, after which the frame itself follows.
SendCommand ==
    /\ Ready("cmd")
    /\ Head(todo).name \in {"TgGetData", "TgSetData"} => pnd.target
    /\ IF pnd.trigged THEN WriteBack
       ELSE CASE pnd.power = "LOWVBAT" ->
                    /\ tx' = tx \o Wake /\ rx' = <<>>
                    /\ todo' = <<SAMConfiguration, [Head(todo) EXCEPT !.op = "frame"]>>
                                    \o Tail(todo)
                    /\ pnd' = [pnd EXCEPT !.power = "NORMAL"]
                    /\ UNCHANGED <<at, chip>>
              [] pnd.power = "POWERDOWN" ->
                    Transmit(Wake, <<>>) /\ pnd' = [pnd EXCEPT !.power = "NORMAL"]
              [] pnd.power = "NORMAL" -> Transmit(<<>>, <<>>) /\ UNCHANGED pnd
    /\ UNCHANGED <<result, abort>> /\ Keep

SendFrame ==
    /\ Ready("frame")
    /\ Transmit(<<>>, rx)
    /\ UNCHANGED <<result, abort, pnd>> /\ Keep

\* Mutant: power_mode stays NORMAL.
ReceiveAckAwake ==
    /\ at = "ack" /\ rx # <<>>
    /\ rx' = Tail(rx)
    /\ IF Head(rx).t = "ack" THEN at' = "reply" /\ UNCHANGED <<todo, result>> ELSE Fail("io")
    /\ UNCHANGED <<abort, pnd, chip, tx>> /\ Keep
ReceiveAck ==
    /\ at = "ack" /\ rx # <<>>
    /\ rx' = Tail(rx)
    /\ IF Head(rx).t = "ack"
       THEN /\ at' = "reply"
            /\ pnd' = [pnd EXCEPT !.power = IF Head(todo).name = "TgInitAsTarget"
                                            THEN "POWERDOWN" ELSE @]
            /\ UNCHANGED <<todo, result>>
       ELSE Fail("io") /\ UNCHANGED pnd
    /\ UNCHANGED <<abort, chip, tx>> /\ Keep

Caught == at = "reply" /\ abort = "caught"

\* What pn53x_transceive and its callers make of the reply to the command.
Accept(f) ==
    /\ pnd' = CASE f.st = "released" -> [pnd EXCEPT !.target = FALSE]
                [] f.name = "TgInitAsTarget" ->
                        [pnd EXCEPT !.power = "NORMAL", !.target = @ \/ f.st = "ok"]
                [] f.name = "InJumpForDEP" -> [pnd EXCEPT !.target = f.st = "ok"]
                [] f.name = "SetParameters" -> [pnd EXCEPT !.default = f.arg = {"default"}]
                [] f.name = "PowerDown" -> [pnd EXCEPT !.power = "LOWVBAT"]
                [] f.name = "ReadRegister" ->
                        [pnd EXCEPT !.pending = @ \ (Partial(@) \cap f.arg)]
                [] OTHER -> pnd
    /\ CASE f.st \in {"rf", "released"} -> Fail(f.st)
         [] f.st = "stranger" -> at' = "step" /\ UNCHANGED <<todo, result>>
         [] f.st = "ok" ->
                /\ at' = "step" /\ UNCHANGED result
                /\ todo' = IF f.name = "InJumpForDEP" THEN <<>> ELSE Tail(todo)

ReceiveReply ==
    /\ at = "reply" /\ ~Caught /\ rx # <<>>
    /\ IF Head(rx).t = "reply" /\ Head(rx).name = Head(todo).name
       THEN Accept(Head(rx)) /\ rx' = Tail(rx)
       ELSE Quiet /\ rx' = <<>> /\ Fail("io") /\ UNCHANGED pnd
    /\ UNCHANGED <<abort, chip, tx>> /\ Keep

\* Mutant: the ACK frame is waited for without a timeout.
TimeOutOfReply ==
    /\ at = "reply" /\ ~Caught /\ rx = <<>> /\ Quiet
    /\ Fail("timeout")
    /\ UNCHANGED <<abort, pnd, chip, line>> /\ Keep
TimeOut ==
    /\ at \in {"ack", "reply"} /\ ~Caught /\ rx = <<>> /\ Quiet
    /\ Fail("timeout")
    /\ UNCHANGED <<abort, pnd, chip, line>> /\ Keep

\* NFC_EOPABORTED: the ACK frame makes the chip give up the command.
StopCommand ==
    /\ Caught /\ abort' = "none"
    /\ tx' = tx \o (IF pnd.power = "POWERDOWN" THEN Wake ELSE <<>>) \o <<Frame("ack", Idling, {})>>
    /\ pnd' = [pnd EXCEPT !.power = IF @ = "POWERDOWN" THEN "NORMAL" ELSE @]
    /\ Fail("aborted")
    /\ UNCHANGED <<chip, rx>> /\ Keep
-----------------------------------------------------------------------------
(***************************************************************************)
(* The program.                                                            *)
(***************************************************************************)
Gone ==
    /\ call' = "none" /\ result' = "ok" /\ todo' = <<>> /\ at' = "step"
    /\ draining' = FALSE /\ abort' = "none" /\ pnd' = NewDevice

Begin(c) ==
    /\ call' = c /\ todo' = Script(c)
    /\ result' = "ok" /\ at' = "step" /\ abort' = "none"

Start ==
    /\ call = "none" /\ spent.starts < MaxStarts
    /\ Begin("open") /\ Spend("starts")
    /\ UNCHANGED <<role, draining, pnd, chip, line>>

\* Between two calls of the exchange thread it may be stopped, and mac_link_drain takes over;
\* after a failure as well, as long as the thread has not cleared exchange_pdus_thread.
Return ==
    /\ call # "none" /\ todo = <<>>
    /\ \/ \E c \in NextCalls :
            IF c = "none" THEN Gone ELSE Begin(c) /\ UNCHANGED <<draining, pnd>>
       \/ /\ call \in {"target_init", "receive", "send"} /\ ~draining
          /\ result = "ok" \/ call # "target_init"
          /\ Begin("receive") /\ draining' = TRUE /\ UNCHANGED pnd
    /\ UNCHANGED <<role, spent, chip, line>>

\* llcp_threadslayer while the exchange thread waits: only pdu_receive can be cancelled.
Cancel ==
    /\ call = "receive" /\ todo # <<>> /\ ~draining
    /\ Begin("receive") /\ draining' = TRUE
    /\ UNCHANGED <<role, spent, pnd, chip, line>>

\* The daemon kills snep-client; the device hears nothing of it.
Kill ==
    /\ call # "none" /\ Gone
    /\ UNCHANGED <<role, spent, chip, line>>

\* pn53x_target_receive_bytes and _send_bytes look at the target's modulation first.
Segfault ==
    /\ Ready("cmd") /\ Head(todo).name \in {"TgGetData", "TgSetData"} /\ ~pnd.target
    /\ Gone
    /\ UNCHANGED <<role, spent, chip, line>>

\* pn532_uart_abort_command closes the pipe that only uart_receive of a reply looks at, and
\* makes a new one.
AbortCommand ==
    /\ todo # <<>> /\ call \notin {"open", "close"} /\ spent.aborts < MaxAborts
    /\ abort' = IF at = "reply" THEN "caught" ELSE abort
    /\ Spend("aborts")
    /\ UNCHANGED <<role, call, result, todo, at, draining, pnd, chip, line>>

HostStep == \/ RaiseError \/ PassMark \/ SetFields \/ FlushInput \/ set_parameters
            \/ Remember \/ WriteRegisters
            \/ SendCommand \/ SendFrame \/ ReceiveAck \/ ReceiveReply \/ TimeOut
            \/ StopCommand \/ Segfault \/ Return
ChipStep == Takes \/ Executes

Next == \/ HostStep \/ ChipStep \/ Hearing \/ Lose
        \/ Start \/ Cancel \/ Kill \/ AbortCommand

Spec == Init /\ [][Next]_vars
\* The processor, the timers and the chip go on; the other device may never come, and nothing
\* has to go wrong.
FairSpec == Spec /\ WF_vars(HostStep) /\ WF_vars(ChipStep)
-----------------------------------------------------------------------------
(***************************************************************************)
(* Properties.                                                             *)
(***************************************************************************)
Name == Prompt \cup Waiting \cup {Idling}
Calls == {"none", "open", "initiator_init", "poll", "exchange", "deselect", "target_init",
          "receive", "send", "close"}
Errors == {"io", "timeout", "aborted", "rf", "released", "absent"}

\* The host, the chip and the line hold values of their types, one command at most is on its
\* way, and registers wait for a write only until the next command (pn53x_data).
TypeOK ==
    /\ role \in Roles
    /\ spent \in [starts : 0 .. MaxStarts, aborts : 0 .. MaxAborts,
                  strangers : 0 .. MaxStrangers, lost : 0 .. MaxLost]
    /\ call \in Calls /\ result \in Errors \cup {"ok"}
    /\ at \in {"step", "ack", "reply"} /\ (at # "step" => todo # <<>>)
    /\ draining \in BOOLEAN /\ abort \in {"none", "caught"}
    /\ pnd \in [power : {"LOWVBAT", "NORMAL", "POWERDOWN"}, target : BOOLEAN,
                oper : {"INITIATOR", "TARGET", "IDLE"}, crc : BOOLEAN, par : BOOLEAN,
                default : BOOLEAN, pending : SUBSET Field, trigged : BOOLEAN]
    /\ chip.power \in {"lowvbat", "halfway", "down", "on"} /\ chip.regs \subseteq Field
    /\ chip.default \in BOOLEAN /\ chip.field \in BOOLEAN
    /\ \A f \in {chip.running} \cup {tx[i] : i \in DOMAIN tx} \cup {rx[i] : i \in DOMAIN rx} :
            f.t \in {"cmd", "wake", "ack", "reply"} /\ f.name \in Name /\ f.old \in BOOLEAN

\* What the driver believes of the chip's power (power_mode) is never better than it is: as
\* long as the line loses nothing, no command is waited for that reached a chip asleep, and an
\* idle device is asleep with its field off, and known to be, whichever calls timed out, were
\* aborted or died with their process (pn532_uart_send, pn53x_idle).  Not so of the commands
\* of a close: an idle that failed or was aborted in PowerDown may have reached the chip.
PowerKnown ==
    spent.lost = 0 =>
        /\ at = "ack" /\ call # "close" /\ tx # <<>> /\ Head(tx).t = "cmd"
                /\ chip.running.name \notin Prompt => Hears(Head(tx).name)
        /\ pnd.oper = "IDLE" => pnd.power = "LOWVBAT" /\ chip.power = "lowvbat" /\ ~chip.field

\* A reply is taken by its command code alone; the flushes and the ACK that comes first must
\* keep it from being the answer to an earlier command, of a call that timed out or of a
\* process that was killed.  Not so where a command is repeated at once: a cancelled read, a
\* close after a failed idle, or a frame that was lost.
ReplyIsMine ==
    spent.lost = 0 /\ at = "reply" /\ ~draining /\ call # "close" /\ rx # <<>> /\ Head(rx).t = "reply"
        /\ Head(rx).name = Head(todo).name => ~Head(rx).old

\* The settings of a role are in the chip's registers, not only in the cache, before it acts
\* in that role (writeback_register), as long as the line loses nothing.
Needed(name) == {"txbits", "crypto", "parity", "noerror", "multiple"} \cup Crc
                    \cup IF name = "InJumpForDEP" THEN Iso14443a \cup {"initiator"} ELSE {"rfon"}
SettingsFirst ==
    spent.lost = 0 /\ ~chip.running.old /\ chip.running.name \in {"InJumpForDEP", "TgInitAsTarget"}
        => Needed(chip.running.name) \subseteq chip.regs

\* A call ends, whatever the other device, the line and the earlier processes do.
CallsReturn == todo # <<>> ~> todo = <<>>

(* What is not so; README.md names the configurations. *)
\* "The blocking function (ie. nfc_target_init()) will failed with DEABORT error"
AbortStops == [][spent'.aborts > spent.aborts => abort' = "caught"]_vars
\* No comment, but pn53x_target_receive_bytes and _send_bytes dereference current_target.
TargetKnown == ~(Ready("cmd") /\ Head(todo).name \in {"TgGetData", "TgSetData"} /\ ~pnd.target)
\* "Disable RF field to avoid heating"
FieldOff == [][call = "close" /\ call' = "none" /\ todo = <<>> => ~chip.field]_vars
=============================================================================
