----------------------------- MODULE LlcDatagrams -----------------------------
(***************************************************************************)
(* The connectionless half of one LLC link: the engine's branches for UI,  *)
(* SNL, AGF and PAX PDUs and its sweep of the datagram table               *)
(* (llc_service_llc.c), the logical data links it makes                    *)
(* (llc_connection.c), the service discovery thread (llc_service_sdp.c)    *)
(* and the connectionless echo server of llcp-test-server.                 *)
(*                                                                         *)
(* A peer sends requests, numbered as they are made: SNL PDUs that ask for *)
(* services by name, their number being the transaction id, UI PDUs whose  *)
(* payload is their number, parameter lists, and requests aggregated in    *)
(* one frame.  The MAC thread carries the frames (LlcPair has its turns in *)
(* detail); while the peer has nothing to say it sends SYMM.               *)
(*                                                                         *)
(* Every datagram gets a connection object, a thread and a slot of the     *)
(* table of its own.  The object is named by its slot: nothing refers to   *)
(* it any more when the slot is emptied.                                   *)
(***************************************************************************)
EXTENDS LlcpParameters, FiniteSets

CONSTANTS
  MaxSlot,       \* MAX_LOGICAL_DATA_LINK, the last index the sweep looks at
  MaxMsg,        \* mq_maxmsg of every queue
  Name,          \* available_services[s]->uri of each SAP s that has a service
  EchoSap,       \* the SAP of the connectionless echo server
  Asked,         \* the lists of names the peer's SNL PDUs ask for
  Targets,       \* the SAPs the peer sends UI PDUs to
  Announcers,    \* what the peer may be, to announce it in a parameter list
  Malformed,     \* other lists it may send
  MaxFrame,      \* the most requests in one aggregated frame
  MaxRequest,    \* bound: requests the peer makes
  MaxPax,        \* bound: parameter lists the peer sends
  Slow,          \* may a frame come in while the engine is in its loop?
  Busy,          \* is there an established data link connection, quiet so far?
  MayLackThread  \* may pthread_create fail?

SdpSap == 1                 \* LLCP_SDP_SAP
MaxAdvertised == 31         \* MAX_LLC_LINK_ADVERTISED_SERVICE

ASSUME DatagramsAssumption ==
  /\ MaxSlot \in Nat /\ MaxMsg \in Nat \ {0}
  /\ DOMAIN Name \subseteq 1 .. 63 /\ {SdpSap, EchoSap} \subseteq DOMAIN Name
  /\ EchoSap # SdpSap /\ Targets \cap DOMAIN Name \subseteq {EchoSap}
  /\ MaxFrame \in Nat \ {0} /\ MaxRequest \in Nat /\ MaxPax \in Nat
  /\ {Slow, Busy, MayLackThread} \subseteq BOOLEAN

\* What a peer announces fits the parameters' bytes (no encoder fails), and what
\* comes as a list is bytes.
ASSUME PeersAssumption ==
  /\ \A p \in Announcers :
       /\ p.version \in [major : 0 .. 15, minor : 0 .. 15] /\ p.miu \in 0 .. MaxMiux
       /\ p.lto \in {10 * k : k \in Byte} /\ p.opt \in 0 .. 3
  /\ Malformed \subseteq Seq(Byte)

Slot == 0 .. MaxSlot

VARIABLES
  sent,       \* the requests the peer has made, in order
  pax,        \* history: what it has announced itself to be
  up,         \* link->llc_up: the frames of the MAC thread
  urgent,     \* link->llc_up: the messages of priority 1, which go first
  down,       \* link->llc_down
  params,     \* the link's version and the remote_... fields
  pc,         \* where the engine is
  buf,        \* the PDU it has received
  parts,      \* the PDUs of an aggregated frame still to be put back
  slot,       \* its index into the datagram table
  out,        \* what `length' and `buffer' hold to be sent
  used,       \* datagram_handlers[i] # NULL
  thread,     \* datagram_handlers[i]->thread # 0
  linkUp,     \* datagram_handlers[i]->llc_up
  linkDown,   \* datagram_handlers[i]->llc_down
  server,     \* where the service thread of a slot is
  held,       \* the PDU it has received
  fault,      \* has an assertion failed?
  dispatched, \* history: the requests the engine has dispatched
  started,    \* history: the requests that have got a thread
  got         \* history: the answers that have reached the peer

peer   == <<sent, pax>>
engine == <<params, pc, buf, parts, slot, out, dispatched, started>>
table  == <<used, thread>>
queues == <<linkUp, linkDown>>
serve  == <<server, held>>
vars   == <<peer, up, urgent, down, engine, table, queues, serve, fault, got>>

-------------------------------------------------------------------------------
(* PDUs.  n is the number of the request, or 0. *)

Pdu(type, sap, n, data) == [type |-> type, sap |-> sap, n |-> n, data |-> data]
Symm   == Pdu("SYMM", 0, 0, <<>>)
None   == Pdu("none", 0, 0, <<>>)

\* What the peer may ask next, as its nth request.
Requests(n) ==
       {Pdu("SNL", SdpSap, n, names) : names \in Asked}
  \cup {Pdu("UI", s, n, <<>>) : s \in Targets}

\* Mutant: the first service there is, whatever its name.
FindSapAny(name) == CHOOSE s \in DOMAIN Name : \A t \in DOMAIN Name : s <= t

\* llc_link_find_sap_by_uri: the lowest SAP with that name, 0 if there is none.
Bearers(name) == {s \in 1 .. MaxAdvertised : s \in DOMAIN Name /\ Name[s] = name}

llc_link_find_sap_by_uri(name) ==
  IF Bearers(name) = {} THEN 0
  ELSE CHOOSE s \in Bearers(name) : \A t \in Bearers(name) : s <= t

\* What the SDP thread makes of an SNL PDU: parameter_decode_sdreq takes one
\* request and nothing else, and a name of no characters makes it too short.
Decodable(pdu) == Len(pdu.data) = 1

Answer(pdu) ==
  IF pdu.sap = SdpSap
  THEN Pdu("SNL", SdpSap, pdu.n, llc_link_find_sap_by_uri(pdu.data[1]))
  ELSE Pdu("UI", pdu.sap, pdu.n, <<>>)

Answerable(pdu) ==
  \/ pdu.sap = SdpSap /\ pdu.type = "SNL" /\ Decodable(pdu)
  \/ pdu.sap = EchoSap

Init ==
  /\ sent = <<>> /\ pax = <<>> /\ up = <<>> /\ urgent = <<>> /\ down = <<>>
  /\ params = Defaults
  /\ pc = "receive" /\ buf = None /\ parts = <<>> /\ slot = 0 /\ out = None
  /\ used = [i \in Slot |-> FALSE] /\ thread = [i \in Slot |-> FALSE]
  /\ linkUp = [i \in Slot |-> <<>>] /\ linkDown = [i \in Slot |-> <<>>]
  /\ server = [i \in Slot |-> "none"] /\ held = [i \in Slot |-> None]
  /\ fault = FALSE /\ dispatched = <<>> /\ started = {} /\ got = <<>>

-------------------------------------------------------------------------------
(* The MAC thread and the peer *)

\* A frame takes milliseconds and an iteration of the engine far less; without
\* Slow the next frame finds the queue empty and the engine done.
Room ==
  /\ Len(up) + Len(urgent) < MaxMsg
  /\ ~Slow => up = <<>> /\ urgent = <<>> /\ pc \in {"receive", "send"}

Carry(pdu) ==
  /\ up' = Append(up, pdu)
  /\ UNCHANGED <<urgent, down, engine, table, queues, serve, fault, got>>

PeerIdle == Room /\ Carry(Symm) /\ UNCHANGED peer

PeerAsks ==
  /\ Room /\ Len(sent) < MaxRequest
  /\ \E r \in Requests(Len(sent) + 1) : sent' = Append(sent, r) /\ Carry(r)
  /\ UNCHANGED pax

\* Requests in one aggregated frame.
PeerAggregates ==
  /\ Room
  /\ \E k \in 1 .. MaxFrame :
       /\ Len(sent) + k <= MaxRequest
       /\ \E rs \in [1 .. k -> UNION {Requests(Len(sent) + j) : j \in 1 .. k}] :
            /\ \A j \in 1 .. k : rs[j].n = Len(sent) + j
            /\ sent' = sent \o rs
            /\ Carry(Pdu("AGF", 0, 0, rs))
  /\ UNCHANGED pax

\* Parameters are announced before anything is asked.
PeerAnnounces ==
  /\ Room /\ sent = <<>> /\ Len(pax) < MaxPax
  /\ \/ \E p \in Announcers :
          /\ pax' = Append(pax, p)
          /\ Carry(Pdu("PAX", 0, 0, llc_link_encode_parameters(p)))
     \/ \E list \in Malformed : Carry(Pdu("PAX", 0, 0, list)) /\ UNCHANGED pax
  /\ UNCHANGED sent

PeerReceives ==
  /\ down # <<>>
  /\ got' = Append(got, Head(down)) /\ down' = Tail(down)
  /\ UNCHANGED <<peer, up, urgent, engine, table, queues, serve, fault>>

-------------------------------------------------------------------------------
(* The engine: reception and dispatch *)

Receive ==
  /\ pc = "receive"
  /\ \/ /\ urgent # <<>>
        /\ buf' = Head(urgent) /\ urgent' = Tail(urgent) /\ UNCHANGED up
     \/ /\ urgent = <<>> /\ up # <<>>
        /\ buf' = Head(up) /\ up' = Tail(up) /\ UNCHANGED urgent
  /\ pc' = "dispatch"
  /\ UNCHANGED <<peer, down, params, parts, slot, out, dispatched, started,
                 table, queues, serve, fault, got>>

\* Mutant: the sweep stops one slot before the search for a free one does.
NextUsedShort(inUse, i) ==
  CHOOSE k \in i .. MaxSlot + 1 :
    /\ k <= MaxSlot - 1 => inUse[k]
    /\ k # MaxSlot
    /\ \A j \in i .. k - 1 : j < MaxSlot => ~inUse[j]

\* The next used slot from i on.  Only the engine takes and empties slots, so it
\* loses nothing by going straight there; it ends at MaxSlot + 1.
NextUsed(inUse, i) ==
  CHOOSE k \in i .. MaxSlot + 1 :
    /\ k <= MaxSlot => inUse[k]
    /\ \A j \in i .. k - 1 : ~inUse[j]

\* The engine goes on to the sweep, with length = 0; the PDU is not used again.
Sweep(inUse) ==
  pc' = "sweep" /\ slot' = NextUsed(inUse, 0) /\ out' = None /\ buf' = None

Symmetry ==
  /\ pc = "dispatch" /\ buf.type = "SYMM" /\ Sweep(used)
  /\ UNCHANGED <<peer, up, urgent, down, params, parts, dispatched, started,
                 table, queues, serve, fault, got>>

\* The assertion fails when the list is refused, and the process with it.
Configure ==
  /\ pc = "dispatch" /\ buf.type = "PAX"
  /\ LET result == llc_link_configure(params, buf.data) IN
       /\ params' = result.params
       /\ fault' = ~result.ok
       /\ IF result.ok THEN Sweep(used) ELSE pc' = "crashed" /\ UNCHANGED <<slot, out, buf>>
  /\ UNCHANGED <<peer, up, urgent, down, parts, dispatched, started,
                 table, queues, serve, got>>

Disaggregate ==
  /\ pc = "dispatch" /\ buf.type = "AGF"
  /\ parts' = buf.data /\ pc' = "aggregate" /\ buf' = None
  /\ UNCHANGED <<peer, up, urgent, down, params, slot, out, dispatched,
                 started, table, queues, serve, fault, got>>

\* Mutant: the result of mq_send looked at by nobody, and the bound not there.
PutBackUnbounded ==
  /\ pc = "aggregate" /\ parts # <<>>
  /\ parts' = Tail(parts) /\ urgent' = Append(urgent, Head(parts))
  /\ UNCHANGED <<peer, up, down, params, pc, buf, slot, out, dispatched, started,
                 table, queues, serve, fault, got>>

\* Mutant: priority 0: behind what has come in meanwhile.
PutBackLast ==
  /\ pc = "aggregate" /\ parts # <<>>
  /\ parts' = Tail(parts)
  /\ up' = IF Len(up) + Len(urgent) < MaxMsg THEN Append(up, Head(parts)) ELSE up
  /\ UNCHANGED <<peer, urgent, down, params, pc, buf, slot, out, dispatched,
                 started, table, queues, serve, fault, got>>

\* Each PDU goes back into llc_up with priority 1; the queue does not block
\* and the result is not looked at.
PutBack ==
  /\ pc = "aggregate" /\ parts # <<>>
  /\ parts' = Tail(parts)
  /\ urgent' = IF Len(up) + Len(urgent) < MaxMsg
               THEN Append(urgent, Head(parts)) ELSE urgent
  /\ UNCHANGED <<peer, up, down, params, pc, buf, slot, out, dispatched, started,
                 table, queues, serve, fault, got>>

AllPutBack ==
  /\ pc = "aggregate" /\ parts = <<>> /\ Sweep(used)
  /\ UNCHANGED <<peer, up, urgent, down, params, parts, dispatched, started,
                 table, queues, serve, fault, got>>

\* The slot llc_logical_data_link_new finds.  Its search stops at MaxSlot
\* inclusive, one past the array: that slot is transmission_handlers[0], which
\* nothing else uses.
Free == {i \in Slot : ~used[i]}
FirstFree == CHOOSE i \in Free : \A j \in Free : i <= j

IsDatagram(pdu) == pdu.type \in {"UI", "SNL"}

\* No service at that SAP, or no slot.
Ignore ==
  /\ pc = "dispatch" /\ IsDatagram(buf)
  /\ buf.sap \notin DOMAIN Name \/ Free = {}
  /\ dispatched' = Append(dispatched, buf.n) /\ Sweep(used)
  /\ UNCHANGED <<peer, up, urgent, down, params, parts, started,
                 table, queues, serve, fault, got>>

\* A slot, a thread, and the whole PDU into the connection's queue.  A
\* pthread_create that fails returns a positive number, which the code takes
\* for success; the thread field may have been written or not.
Spawn ==
  /\ pc = "dispatch" /\ IsDatagram(buf)
  /\ buf.sap \in DOMAIN Name /\ Free # {}
  /\ LET i == FirstFree IN
       /\ used' = [used EXCEPT ![i] = TRUE]
       /\ linkUp' = [linkUp EXCEPT ![i] = <<buf>>]
       /\ linkDown' = [linkDown EXCEPT ![i] = <<>>]
       /\ \/ /\ thread' = [thread EXCEPT ![i] = TRUE]
             /\ server' = [server EXCEPT ![i] = "waiting"]
             /\ started' = started \cup {buf.n}
          \/ /\ MayLackThread
             /\ \E written \in BOOLEAN : thread' = [thread EXCEPT ![i] = written]
             /\ UNCHANGED <<server, started>>
  /\ dispatched' = Append(dispatched, buf.n) /\ Sweep(used')
  /\ UNCHANGED <<peer, up, urgent, down, params, parts, held, fault, got>>

-------------------------------------------------------------------------------
(* The engine: sweep and sending *)

\* The second loop, over the data link connections: at one that has nothing to
\* send mq_receive overwrites `length'.
SweepConnections(found) ==
  /\ out' = IF Busy THEN None ELSE found
  /\ pc' = "send" /\ slot' = 0

\* Mutant: the answer stays in its queue.
TakeAnswerKeep ==
  /\ pc = "sweep" /\ slot <= MaxSlot /\ linkDown[slot] # <<>>
  /\ SweepConnections(Head(linkDown[slot]))
  /\ UNCHANGED <<peer, up, urgent, down, params, buf, parts, dispatched,
                 started, table, queues, serve, fault, got>>

\* A message of the service: the break leaves the loop with it in the buffer.
TakeAnswer ==
  /\ pc = "sweep" /\ slot <= MaxSlot /\ linkDown[slot] # <<>>
  /\ linkDown' = [linkDown EXCEPT ![slot] = Tail(@)]
  /\ SweepConnections(Head(linkDown[slot]))
  /\ UNCHANGED <<peer, up, urgent, down, params, buf, parts, dispatched,
                 started, table, linkUp, serve, fault, got>>

\* EAGAIN: a link that has no thread is freed.
PassQuiet ==
  /\ pc = "sweep" /\ slot <= MaxSlot /\ linkDown[slot] = <<>>
  /\ used' = [used EXCEPT ![slot] = thread[slot]]
  /\ linkUp' = [linkUp EXCEPT ![slot] = IF thread[slot] THEN @ ELSE <<>>]
  /\ slot' = NextUsed(used, slot + 1)
  /\ UNCHANGED <<peer, up, urgent, down, params, pc, buf, parts, out, dispatched,
                 started, thread, linkDown, serve, fault, got>>

EndOfTable ==
  /\ pc = "sweep" /\ slot = MaxSlot + 1
  /\ SweepConnections(None)
  /\ UNCHANGED <<peer, up, urgent, down, params, buf, parts, dispatched,
                 started, table, queues, serve, fault, got>>

Send ==
  /\ pc = "send"
  /\ \/ out = None /\ UNCHANGED down
     \/ out # None /\ Len(down) < MaxMsg /\ down' = Append(down, out)
  /\ pc' = "receive" /\ out' = None
  /\ UNCHANGED <<peer, up, urgent, params, buf, parts, slot, dispatched,
                 started, table, queues, serve, fault, got>>

-------------------------------------------------------------------------------
(* The service threads *)

ServerReceives(i) ==
  /\ server[i] = "waiting" /\ linkUp[i] # <<>>
  /\ held' = [held EXCEPT ![i] = Head(linkUp[i])]
  /\ linkUp' = [linkUp EXCEPT ![i] = Tail(@)]
  /\ server' = [server EXCEPT ![i] = "working"]
  /\ UNCHANGED <<peer, up, urgent, down, engine, table, linkDown, fault, got>>

\* llc_connection_stop by the thread itself sets a status nobody reads for a
\* datagram, leaves the thread field alone, and exits.
Stops(i) ==
  /\ server' = [server EXCEPT ![i] = "none"] /\ held' = [held EXCEPT ![i] = None]

\* The SDP thread answers through the queue of its logical data link, or ignores
\* the PDU.
SdpAnswers(i) ==
  /\ server[i] = "working" /\ held[i].sap = SdpSap
  /\ linkDown' = [linkDown EXCEPT ![i] =
                    IF Answerable(held[i]) THEN Append(@, Answer(held[i])) ELSE @]
  /\ Stops(i)
  /\ UNCHANGED <<peer, up, urgent, down, engine, table, linkUp, fault, got>>

\* The echo server sends through llc_link_send_data: it puts its PDU into the
\* link's own queue, beside the engine, and waits there for room.
EchoAnswers(i) ==
  /\ server[i] = "working" /\ held[i].sap = EchoSap
  /\ Len(down) < MaxMsg
  /\ down' = Append(down, Answer(held[i]))
  /\ Stops(i)
  /\ UNCHANGED <<peer, up, urgent, engine, table, queues, fault, got>>

-------------------------------------------------------------------------------
Engine ==
  \/ Receive \/ Symmetry \/ Configure \/ Disaggregate \/ PutBack \/ AllPutBack
  \/ Ignore \/ Spawn
  \/ TakeAnswer \/ PassQuiet \/ EndOfTable \/ Send

Server(i) ==
  ServerReceives(i) \/ SdpAnswers(i) \/ EchoAnswers(i)

Mac == PeerIdle \/ PeerAsks \/ PeerAggregates \/ PeerAnnounces

\* A failed assertion ends the process and all its threads.
Next ==
  /\ ~fault
  /\ Engine \/ Mac \/ PeerReceives \/ \E i \in Slot : Server(i)

Spec == Init /\ [][Next]_vars

\* The threads are runnable, and the MAC thread goes on with its exchanges, with
\* SYMM if nothing else.
Fairness ==
  /\ WF_vars(~fault /\ Engine) /\ WF_vars(~fault /\ Mac) /\ WF_vars(~fault /\ PeerReceives)
  /\ \A i \in Slot : WF_vars(~fault /\ Server(i))

FairSpec == Spec /\ Fairness

-------------------------------------------------------------------------------
Requested == UNION {Requests(n) : n \in 1 .. MaxRequest}
Answers == {Answer(r) : r \in {q \in Requested : Answerable(q)}}

Messages(S) == UNION {[1 .. k -> S] : k \in 0 .. MaxMsg}

\* The variables keep their types; no queue holds more than mq_maxmsg, and the
\* two priorities of llc_up share one.
TypeOK ==
  /\ \A k \in 1 .. Len(sent) : sent[k] \in Requests(k)
  /\ Len(sent) <= MaxRequest /\ Len(pax) <= MaxPax
  /\ Len(up) + Len(urgent) <= MaxMsg /\ Len(down) <= MaxMsg
  /\ urgent \in Messages(Requested) /\ down \in Messages(Answers)
  /\ params \in ParamType
  /\ pc \in {"receive", "dispatch", "aggregate", "sweep", "send", "crashed"}
  /\ slot \in 0 .. MaxSlot + 1
  /\ out \in Answers \cup {None}
  /\ used \in [Slot -> BOOLEAN] /\ thread \in [Slot -> BOOLEAN]
  /\ linkUp \in [Slot -> Messages(Requested)]
  /\ linkDown \in [Slot -> Messages(Answers)]
  /\ server \in [Slot -> {"none", "waiting", "working"}]
  /\ held \in [Slot -> Requested \cup {None}]
  /\ fault = (pc = "crashed")
  /\ started \subseteq 1 .. Len(sent)

\* Whatever reaches the peer answers a request it made: a lookup with a SAP that
\* bears the name it asked for, or 0 if no advertised SAP does; a UI PDU with its
\* own payload from the SAP it went to.
Fits(answer, request) ==
  /\ answer.type = request.type /\ answer.sap = request.sap
  /\ answer.type = "SNL" =>
       IF answer.data = 0
       THEN \A s \in DOMAIN Name \cap 1 .. MaxAdvertised : Name[s] # request.data[1]
       ELSE answer.data \in DOMAIN Name /\ Name[answer.data] = request.data[1]

AnswersTrue ==
  \A k \in 1 .. Len(got) :
    /\ got[k].n \in 1 .. Len(sent)
    /\ Answerable(sent[got[k].n]) /\ Fits(got[k], sent[got[k].n])

\* No request is answered twice.
AnsweredOnce ==
  \A k, l \in 1 .. Len(got) : got[k].n = got[l].n => k = l

\* The engine dispatches requests in the order they were made, though those of
\* an aggregated frame go back into the queue and overtake what is in it.
DispatchOrder ==
  \A k, l \in 1 .. Len(dispatched) : k < l => dispatched[k] < dispatched[l]

\* Once an announcement has been taken, the link's version is the lower of the
\* two ends' (so both ends work with the same), and the peer's services, time-out
\* and link service class are what it announced; and the list that ends the process
\* is one that is not well formed, or announces a version before 1.
Earlier(v, w) == v.major < w.major \/ (v.major = w.major /\ v.minor < w.minor)
LowerVersion(v, w) == IF Earlier(v, w) THEN v ELSE w

Underway(type) ==
  buf.type = type \/ \E k \in 1 .. Len(up) : up[k].type = type

AnnouncementTaken ==
  pax # <<>> /\ ~Underway("PAX") =>
    LET p == pax[Len(pax)] IN
    /\ params.version = LowerVersion(p.version, Defaults.version)
    /\ params.remote_lto = p.lto /\ params.remote_lsc = p.opt
    /\ {s \in 0 .. 15 : (params.remote_wks \div 2 ^ s) % 2 = 1}
         = (p.saps \cap 0 .. 15) \cup {0}

RefusalFounded ==
  fault =>
    \/ buf.data \in Malformed
    \/ \E j \in 1 .. Len(pax) :
         buf.data = llc_link_encode_parameters(pax[j]) /\ pax[j].version.major < 1

AnnouncedIsTaken == AnnouncementTaken /\ RefusalFounded

\* The MIU is not: llc_link_encode_parameters announces local_miu as the MIU
\* extension, and the reader adds 128 to an extension (Datagrams.cfg with this as an
\* INVARIANT).
MiuIsTaken ==
  pax # <<>> /\ ~Underway("PAX") => params.remote_miu = pax[Len(pax)].miu

\* A request for which a thread has been started, and which its service takes,
\* is answered in the end, unless an assertion ends the process.  (Answers are
\* never taken back, so it is enough that again and again none is owed.)
Owed ==
  {n \in started : Answerable(sent[n]) /\ \A k \in 1 .. Len(got) : got[k].n # n}

StartedIsAnswered == []<>(fault \/ Owed = {})

\* All the PDUs of an aggregated frame are dispatched.  False: the queue they go
\* back into holds two (DatagramsAggregated.cfg).
FramesAreTaken == []<>(fault \/ Len(dispatched) = Len(sent))

\* A logical data link whose service has ended is collected, as the comment in
\* the sweep says.  False: the service leaves its thread field set, and after
\* MaxSlot + 1 datagrams no more are served (DatagramsBusy.cfg with this
\* as its PROPERTY).
EndedIsCollected ==
  \A i \in Slot : (used[i] /\ server[i] = "none") ~> (fault \/ ~used[i])
===============================================================================
