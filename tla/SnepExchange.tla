----------------------------- MODULE SnepExchange -----------------------------
(***************************************************************************)
(* What travels over a connection of libllcp: snep-encode makes a request  *)
(* of a text file, snep-client (or npp-client, or a phone) sends it, and   *)
(* snep-server (or npp-server) stores the NDEF message for ndef-decode.    *)
(*                                                                         *)
(* A connection is taken as LlcConnections and LlcPair leave it: once open *)
(* it carries the information of a message whole, in order, unless the     *)
(* link goes; opening and closing are one step each.  A link lives as in   *)
(* LinkLifecycle: it may go at any time, and the server's main thread then *)
(* cancels its service threads, wherever they are, and exits.              *)
(***************************************************************************)
EXTENDS NdefCodec, FiniteSets

CONSTANTS
  Conns,           \* the connections one link may carry
  Texts,           \* what a text file may hold, its line breaks included
  Offers,          \* the ndef-encode command lines a phone's messages come from
  Miu,             \* the information one I PDU may hold
  Parts,           \* how many bytes of its request a phone may send first
  Leftovers,       \* what the server's buffer may hold where nothing was received
  MaxLinks,        \* bound: how often a link is set up
  ReceiptMayFail,  \* may snep-encode fail to open receipt_nfc?
  StoreMayFail     \* may writing or closing the server's file fail?

\* A MIUX counts the bytes beyond 128.  The server prints a message into 1024
\* bytes, four for each: one of more than 255, which takes a larger MIU, writes
\* beyond them, and what follows is undefined.
ASSUME MiuAssumption == Miu \in 128..261 /\ MaxLinks \in Nat
ASSUME PartsAssumption ==
  /\ Parts \subseteq 1..Miu
  /\ \A rest \in Leftovers : rest \in Seq(Byte) /\ Len(rest) <= 255

VARIABLES
  protocol,     \* "SNEP" or "NPP": the pair of programs in use
  peer,         \* who uses the link: "host", our client, or "phone"
  link,         \* "down", "up", or "lost": gone while the server still runs
  links,        \* how many links have been set up
  receipt,      \* the bytes of receipt_nfc
  receiptHolds, \* what they were made of, as ndef-decode would report it
  asked,        \* what snep-encode was last asked to encode
  client,       \* where each client is
  request,      \* the bytes it wants the server to have
  content,      \* what they were made of
  toServer, toClient,  \* messages on their way or in the queue of the receiver
  server,       \* where the service thread of each connection is
  buffer,       \* what the service thread has received
  stream,       \* ndef_stream: "open", "closed" (but not yet NULL) or "null"
  unflushed,    \* written to the stream, still in its buffer
  file          \* the server's output file

hostVars == <<receipt, receiptHolds, asked>>
clientVars == <<client, request, content>>
fileVars == <<stream, unflushed, file>>
vars == <<protocol, peer, link, links, hostVars, clientVars, toServer, toClient,
          server, buffer, fileVars>>

-----------------------------------------------------------------------------
(* The requests.                                                           *)

Locale == <<101, 110, 45, 85, 83>>    \* "en-US"

\* The lines of a text file one after the other, without what ends them.
openFile(text) ==
  LET InLine(character) == character \notin {10, 13}
  IN SelectSeq(text, InLine)

\* snep-encode: one text record.
textMessage(text) == messageToByteArray(<<createTextRecord(openFile(text), Locale)>>)
textReport(text) == <<Option("-t", openFile(text), Locale)>>

createSnepFrame(message) == <<16, 2>> \o BigEndian(Len(message), 4) \o message

nppFrame(message) ==
  <<1>> \o BigEndian(1, 4) \o <<1>> \o BigEndian(Len(message), 4) \o message

Frame(message) ==
  IF protocol = "SNEP" THEN createSnepFrame(message) ELSE nppFrame(message)

\* The message both clients hold ready: a smart poster for libnfc.org.
defaultMessage ==
  <<209, 2, 28, 83, 112, 145, 1, 9, 84, 2, 101, 110, 76, 105, 98, 110, 102, 99,
    81, 1, 11, 85, 3, 108, 105, 98, 110, 102, 99, 46, 111, 114, 103>>
defaultReport ==
  <<Option("-sp", <<>>, <<>>), Option("-t", <<76, 105, 98, 110, 102, 99>>, <<101, 110>>),
    Option("-u", <<104, 116, 116, 112, 58, 47, 47>>
                 \o <<108, 105, 98, 110, 102, 99, 46, 111, 114, 103>>, <<>>),
    Option("-s-", <<>>, <<>>)>>

\* What the options of a command line ask for: the records in their order,
\* the URI of a poster as its last record.
Depth(options, n) ==
  Cardinality({i \in 1..n : options[i].kind = "-sp"})
  - Cardinality({i \in 1..n : options[i].kind = "-s-"})
OpenedBy(options, n) ==
  CHOOSE i \in 1..n :
    /\ options[i].kind = "-sp" /\ Depth(options, i) = Depth(options, n) + 1
    /\ \A j \in (i + 1)..(n - 1) : Depth(options, j) > Depth(options, n)
Meant(options) ==
  LET upTo[n \in 0..Len(options)] ==
        IF n = 0 THEN <<>>
        ELSE upTo[n - 1] \o
          CASE options[n].kind = "-sp" -> <<Option("-sp", <<>>, <<>>)>>
            [] options[n].kind = "-s-" ->
                 <<Option("-u", options[OpenedBy(options, n)].value, <<>>), options[n]>>
            [] OTHER -> <<options[n]>>
  IN upTo[Len(options)]
Prepared ==
  {[bytes |-> ndef_encode(options), report |-> Meant(options)] : options \in Offers}

\* What the tools write are bytes, and no more than four bytes can count.
Ndef == {message \in Seq(Byte) : Len(message) \div 256^3 < 256}
ASSUME NdefAssumption ==
  /\ \A text \in Texts \cup {<<>>} : textMessage(text) \in Ndef
  /\ \A options \in Offers : ndef_encode(options) \in Ndef

-----------------------------------------------------------------------------
(* snep-encode and the clients.                                            *)

\* createSnepMessage: a file that cannot be read counts as an empty one; when
\* receipt_nfc cannot be opened nothing is written, and 0 is returned as ever.
CreateSnepMessage ==
  /\ link = "down" /\ protocol = "SNEP"
  /\ \E text \in Texts \cup {<<>>}, opened \in {TRUE, ~ReceiptMayFail} :
       /\ asked' = textReport(text)
       /\ IF opened
          THEN /\ receipt' = createSnepFrame(textMessage(text))
               /\ receiptHolds' = asked'
          ELSE UNCHANGED <<receipt, receiptHolds>>
  /\ UNCHANGED <<protocol, peer, link, links, clientVars, toServer, toClient,
                 server, buffer, fileVars>>

\* A device comes near; the server's main has opened its file afresh.
NewLink(who) ==
  /\ link = "down" /\ links < MaxLinks
  /\ link' = "up" /\ links' = links + 1 /\ peer' = who
  /\ client' = [c \in Conns |-> "idle"]
  /\ server' = [c \in Conns |-> "none"]
  /\ request' = [c \in Conns |-> <<>>]
  /\ content' = [c \in Conns |-> <<>>]
  /\ buffer' = [c \in Conns |-> <<>>]
  /\ toServer' = [c \in Conns |-> <<>>]
  /\ toClient' = [c \in Conns |-> <<>>]
  /\ stream' = "open" /\ unflushed' = <<>> /\ file' = <<>>
  /\ UNCHANGED <<protocol, hostVars>>

Connected(c, bytes, holds) ==
  /\ client[c] = "idle" /\ link = "up"
  /\ request' = [request EXCEPT ![c] = bytes]
  /\ content' = [content EXCEPT ![c] = holds]
  /\ client' = [client EXCEPT ![c] = "connected"]
  /\ server' = [server EXCEPT ![c] = "receiving"]
  /\ UNCHANGED <<protocol, peer, link, links, hostVars, toServer, toClient,
                 buffer, fileVars>>

\* main of the client: the file named on its command line, or the default.
\* It makes one connection.
HostConnects(c) ==
  /\ peer = "host" /\ \A d \in Conns : client[d] = "idle"
  /\ \/ Connected(c, Frame(defaultMessage), defaultReport)
     \/ protocol = "SNEP" /\ Connected(c, receipt, receiptHolds)

PhoneConnects(c) ==
  /\ peer = "phone"
  /\ \E message \in Prepared : Connected(c, Frame(message.bytes), message.report)

Set(field, c, where) == [field EXCEPT ![c] = where]

\* Mutant: the thread sends again and again.
HostSendsAgain(c) ==
  /\ client[c] = "connected" /\ peer = "host"
  /\ toServer' = [toServer EXCEPT
       ![c] = IF Len(request[c]) <= Miu /\ link = "up" THEN Append(@, request[c]) ELSE @]
  /\ UNCHANGED <<protocol, peer, link, links, hostVars, clientVars, toClient,
                 server, buffer, fileVars>>
\* The service thread of a client: the result of the send is not looked at,
\* so a request that does not fit is not sent and the client waits on.  What it
\* sends once the link is gone stays in its own queue.
HostSends(c) ==
  /\ client[c] = "connected" /\ peer = "host"
  /\ toServer' = [toServer EXCEPT
       ![c] = IF Len(request[c]) <= Miu /\ link = "up" THEN Append(@, request[c]) ELSE @]
  /\ client' = Set(client, c, IF protocol = "SNEP" THEN "waiting" ELSE "stopped")
  /\ UNCHANGED <<protocol, peer, link, links, hostVars, request, content, toClient,
                 server, buffer, fileVars>>

\* A phone sends the first part of its request, at most what fits, and the rest
\* only when told to continue; or it asks for a message of the server's.
PhoneSends(c) ==
  /\ client[c] = "connected" /\ peer = "phone" /\ link = "up"
  /\ \E message \in {First(request[c], n) : n \in Parts}
                    \cup (IF protocol = "SNEP" THEN {<<16, 1, 0, 0, 0, 0>>} ELSE {}) :
       toServer' = [toServer EXCEPT ![c] = Append(@, message)]
  /\ client' = Set(client, c, "waiting")
  /\ UNCHANGED <<protocol, peer, link, links, hostVars, request, content, toClient,
                 server, buffer, fileVars>>

\* Any answer is taken for success.
ClientReceives(c) ==
  /\ client[c] = "waiting" /\ toClient[c] # <<>>
  /\ client' = Set(client, c, "done")
  /\ toClient' = Set(toClient, c, Tail(toClient[c]))
  /\ UNCHANGED <<protocol, peer, link, links, hostVars, request, content, toServer,
                 server, buffer, fileVars>>

\* A phone closes its connection: the server's engine cancels the thread.
PhoneDisconnects(c) ==
  /\ peer = "phone" /\ link = "up" /\ client[c] \in {"waiting", "done"}
  /\ client' = Set(client, c, "stopped")
  /\ server' = Set(server, c, IF server[c] \in {"returned", "stopped"}
                              THEN server[c] ELSE "cancelled")
  /\ toServer' = Set(toServer, c, <<>>)
  /\ toClient' = Set(toClient, c, <<>>)
  /\ UNCHANGED <<protocol, peer, link, links, hostVars, request, content, buffer,
                 fileVars>>

\* It goes out of range, or the client's main deactivates it, or the daemon
\* kills the client.
LinkLost ==
  /\ link = "up" /\ link' = "lost"
  /\ UNCHANGED <<protocol, peer, links, hostVars, clientVars, toServer, toClient,
                 server, buffer, fileVars>>

-----------------------------------------------------------------------------
(* The service thread of the server.                                       *)

SnepPut(data) == data[2] = 2
\* Mutants: a part is enough; a message that just fills the request is short.
SnepWholeAny(data) == TRUE
SnepWholeStrict(data) == (Len(data) - 6) > Number32(data, 3)
\* The message has come whole, as the server finds it: it compares an int, the
\* bytes after the header, with a uint32_t, the bytes promised.  Of a PUT of
\* less than six bytes the difference is negative and becomes one of the five
\* greatest numbers; what is promised is read where nothing was received, and
\* exceeds it only if the bytes that were received do not stand against it.
SnepWhole(data) == Len(data) < 6 \/ ~((Len(data) - 6) < Number32(data, 3))
SnepPart(data) ==
  IF Len(data) < 6 THEN \A i \in 3..Len(data) : data[i] = 255
  ELSE Len(data) - 6 < Number32(data, 3)

SnepNext(data) ==
  IF Len(data) < 2 THEN {"returned"}
  ELSE IF ~SnepPut(data) THEN {"stopping"}
  ELSE {next \in {"answering", "returned"} :
          IF next = "answering" THEN SnepWhole(data) ELSE SnepPart(data)}

NppNext(data) ==
  IF \/ Len(data) < 10
     \/ data[1] # 1 \/ Number32(data, 2) # 1 \/ data[6] # 1
     \/ Len(data) - 10 < Number32(data, 7)
  THEN {"returned"} ELSE {"storing"}

\* A thread that returns leaves its connection open; one that stops ends it.
ServerReceives(c) ==
  /\ server[c] = "receiving" /\ toServer[c] # <<>>
  /\ buffer' = Set(buffer, c, Head(toServer[c]))
  /\ toServer' = Set(toServer, c, Tail(toServer[c]))
  /\ \E next \in IF protocol = "SNEP" THEN SnepNext(Head(toServer[c]))
                 ELSE NppNext(Head(toServer[c])) :
       server' = Set(server, c, next)
  /\ UNCHANGED <<protocol, peer, link, links, hostVars, clientVars, toClient, fileVars>>

\* Success is answered before the message is stored.
ServerAnswers(c) ==
  /\ server[c] = "answering"
  /\ toClient' = IF link = "up" /\ client[c] # "stopped"
                 THEN Set(toClient, c, Append(toClient[c], <<16, 129, 0, 0, 0, 0>>))
                 ELSE toClient
  /\ server' = Set(server, c, "storing")
  /\ UNCHANGED <<protocol, peer, link, links, hostVars, clientVars, toServer, buffer,
                 fileVars>>

ndefOf(data) ==
  IF protocol = "SNEP" THEN SubSeq(data, 7, 6 + Number32(data, 3))
  ELSE SubSeq(data, 11, 10 + Number32(data, 7))

\* A PUT too short to hold its own length, of which the stack supplies the rest.
Short(data) == protocol = "SNEP" /\ Len(data) \in 2..5
Stored(data) == IF Short(data) THEN Leftovers ELSE {ndefOf(data)}

\* Only the first message is stored: the stream is gone afterwards.
ServerStores(c) ==
  /\ server[c] = "storing"
  /\ IF stream = "null"
     THEN /\ server' = Set(server, c, "stopping")
          /\ UNCHANGED unflushed
     ELSE /\ server' = Set(server, c, "closing")
          /\ \E message \in Stored(buffer[c]), written \in {TRUE, ~StoreMayFail} :
               unflushed' = unflushed \o (IF written THEN message ELSE <<>>)
  /\ UNCHANGED <<protocol, peer, link, links, hostVars, clientVars, toServer, toClient,
                 buffer, stream, file>>

Flush(flushed) ==
  /\ file' = file \o (IF flushed THEN unflushed ELSE <<>>)
  /\ unflushed' = <<>>

\* fclose, whose result is not looked at.
ServerCloses(c) ==
  /\ server[c] = "closing"
  /\ server' = Set(server, c, "forgetting")
  /\ stream' = "closed"
  /\ \E flushed \in {TRUE, ~StoreMayFail} : Flush(flushed)
  /\ UNCHANGED <<protocol, peer, link, links, hostVars, clientVars, toServer, toClient,
                 buffer>>

\* ndef_stream = NULL
ServerForgets(c) ==
  /\ server[c] = "forgetting"
  /\ server' = Set(server, c, "stopping")
  /\ stream' = "null"
  /\ UNCHANGED <<protocol, peer, link, links, hostVars, clientVars, toServer, toClient,
                 buffer, unflushed, file>>

ServerStops(c) ==
  /\ server[c] = "stopping"
  /\ server' = Set(server, c, "stopped")
  /\ UNCHANGED <<protocol, peer, link, links, hostVars, clientVars, toServer, toClient,
                 buffer, fileVars>>

Running == {"receiving", "answering", "storing", "closing", "forgetting", "stopping"}

\* The link is gone: mac_link_free cancels the threads, at any point.
ServerCancelled(c) ==
  /\ link = "lost" /\ server[c] \in Running
  /\ server' = Set(server, c, "cancelled")
  /\ UNCHANGED <<protocol, peer, link, links, hostVars, clientVars, toServer, toClient,
                 buffer, fileVars>>

\* exit flushes what a cancelled thread has left in the stream.
ServerExits ==
  /\ link = "lost" /\ \A c \in Conns : server[c] \notin Running
  /\ link' = "down" /\ stream' = "null"
  /\ Flush(TRUE)
  /\ UNCHANGED <<protocol, peer, links, hostVars, clientVars, toServer, toClient,
                 server, buffer>>

-----------------------------------------------------------------------------
Init ==
  /\ protocol \in {"SNEP", "NPP"} /\ peer = "host"
  /\ link = "down" /\ links = 0
  /\ \E text \in Texts :    \* a receipt of an earlier run
       /\ receipt = createSnepFrame(textMessage(text))
       /\ receiptHolds = textReport(text) /\ asked = receiptHolds
  /\ client = [c \in Conns |-> "idle"] /\ server = [c \in Conns |-> "none"]
  /\ request = [c \in Conns |-> <<>>] /\ content = [c \in Conns |-> <<>>]
  /\ buffer = [c \in Conns |-> <<>>]
  /\ toServer = [c \in Conns |-> <<>>] /\ toClient = [c \in Conns |-> <<>>]
  /\ stream = "null" /\ unflushed = <<>> /\ file = <<>>

Server(c) == \/ ServerReceives(c) \/ ServerAnswers(c) \/ ServerStores(c)
             \/ ServerCloses(c) \/ ServerForgets(c) \/ ServerStops(c)

Next ==
  \/ CreateSnepMessage \/ LinkLost \/ ServerExits
  \/ NewLink("host") \/ NewLink("phone")
  \/ \E c \in Conns : \/ HostConnects(c) \/ HostSends(c) \/ ClientReceives(c)
                      \/ PhoneConnects(c) \/ PhoneSends(c) \/ PhoneDisconnects(c)
                      \/ Server(c) \/ ServerCancelled(c)

Spec == Init /\ [][Next]_vars

\* The threads of both sides are scheduled while they can run; nothing makes
\* a device come, go or close its connection.
FairSpec ==
  /\ Spec
  /\ \A c \in Conns : WF_vars(Server(c)) /\ WF_vars(HostSends(c) \/ ClientReceives(c))

-----------------------------------------------------------------------------
(* Properties.                                                             *)

Stages == {"none", "returned", "stopped", "cancelled"} \cup Running

\* The ranges of the variables: at most one message is on its way on each
\* side, and no more links than the bound.
TypeOK ==
  /\ protocol \in {"SNEP", "NPP"} /\ peer \in {"host", "phone"}
  /\ link \in {"down", "up", "lost"} /\ links \in 0..MaxLinks
  /\ client \in [Conns -> {"idle", "connected", "waiting", "done", "stopped"}]
  /\ server \in [Conns -> Stages]
  /\ stream \in {"open", "closed", "null"}
  /\ \A c \in Conns : /\ Len(toServer[c]) \in 0..1 /\ Len(toClient[c]) \in 0..1
                      /\ Len(buffer[c]) \in 0..Miu

\* What the server leaves in its file is one whole message of the peer it
\* served, and ndef-decode finds in it what the message was made of: the lines
\* of the file, joined, and the locale, or the records of the command line in
\* their order.  It holds wherever the thread was cancelled and whichever write
\* failed, unless a phone sent a PUT shorter than its own header.
StoredIntact ==
  link = "down" /\ file # <<>> =>
    \E c \in Conns : decodeNDEFMessage(file) = content[c] \/ Short(buffer[c])

\* A client that reports success has had its whole request received: a
\* request that came in part, or was never sent, is not answered, but for a
\* PUT of two to five bytes, which no client of ours sends.
DoneMeansReceived ==
  \A c \in Conns :
    client[c] = "done" =>
      buffer[c] = request[c] \/ (peer = "phone" /\ Short(buffer[c]))

\* A request of our client that fits in one I PDU gets its answer as long as
\* the link stays.
AnswerComes ==
  \A c \in Conns :
    (peer = "host" /\ client[c] = "waiting" /\ Len(request[c]) <= Miu)
      ~> (client[c] = "done" \/ link # "up")

\* Reading back a block of TLVs gives the blocks written, for the lengths up
\* to 127 and from 255, two to a buffer.
ReadsBack(lengths) ==
  \A n, m \in lengths :
    LET a == [i \in 1..n |-> 7]    b == [i \in 1..m |-> 9]
    IN tlvFromByteArray(tlvToByteArray(3, a) \o <<NullTlv>> \o tlvToByteArray(4, b)
                        \o <<Terminator>>)
       = <<<<3, a>>, <<4, b>>, <<Terminator, <<>>>>>>
TlvReadsBack == ReadsBack({1, 2, 127, 255, 256, 257})

-----------------------------------------------------------------------------
(* What a reader might expect and the code does not give.                  *)

\* A client that reports success: the message is in the server's file once
\* the server has ended.  (Success is answered first.)
DoneMeansStored ==
  \A c \in Conns : link = "down" /\ client[c] = "done" /\ ~StoreMayFail => file # <<>>

\* No part of a request is answered with success.  ("Less received bytes than
\* expected ?" does not see that a header may be missing too.)
DoneMeansWhole == \A c \in Conns : client[c] = "done" => buffer[c] = request[c]

\* No thread uses the stream another has closed.
NoUseAfterClose ==
  \A c \in Conns : server[c] \in {"storing", "closing"} => stream # "closed"

\* Every request of our client is answered while the link stays, long or not.
EveryRequestAnswered ==
  \A c \in Conns : (peer = "host" /\ client[c] = "waiting")
                     ~> (client[c] = "done" \/ link # "up")

\* What is stored is what snep-encode was last asked to encode, or the default.
StoredIsAsked ==
  link = "down" /\ peer = "host" /\ file # <<>> /\ client # [c \in Conns |-> "idle"] =>
    decodeNDEFMessage(file) \in {asked, defaultReport}

\* TLV blocks of any length are read back.
TlvReadsBackAll == ReadsBack({1, 127, 128, 254, 255})

\* A record of unknown type is read back.
UnknownReadsBack ==
  LET record == NDEFRecord(Empty, <<>>, <<>>, <<1, 2>>, FALSE)
  IN fromByteArray(toByteArray(record, MB + ME)) = record
=============================================================================
