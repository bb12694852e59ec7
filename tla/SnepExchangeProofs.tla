------------------------- MODULE SnepExchangeProofs -------------------------
(***************************************************************************)
(* Proofs about SnepExchange: a client that reports success has had its    *)
(* whole request received, and what the server stores is one whole message *)
(* or nothing, for any texts, messages, parts of them and MIU up to 261,   *)
(* wherever the link goes and the server's thread is cancelled; both but   *)
(* for a PUT that a phone cuts off within its header.                      *)
(***************************************************************************)
EXTENDS SnepExchange, SequenceTheorems, TLAPS

-----------------------------------------------------------------------------
(* Requests as sequences of bytes.                                         *)

\* Four bytes hold a length, most significant byte first.
LEMMA FourBytes ==
    ASSUME NEW n \in Nat, n \div 256^3 < 256
    PROVE  /\ BigEndian(n, 4) \in Seq(Byte) /\ Len(BigEndian(n, 4)) = 4
           /\ ((BigEndian(n, 4)[1] * 256 + BigEndian(n, 4)[2]) * 256
               + BigEndian(n, 4)[3]) * 256 + BigEndian(n, 4)[4] = n
  <1> DEFINE b == BigEndian(n, 4)
  <1>1. 256^0 = 1 /\ 256^1 = 256 /\ 256^2 = 65536 /\ 256^3 = 16777216
    BY SMT
  <1>2. /\ b[1] = (n \div 16777216) % 256 /\ b[2] = (n \div 65536) % 256
        /\ b[3] = (n \div 256) % 256 /\ b[4] = n % 256
    <2>1. \A i \in 1..4 : b[i] = (n \div 256^(4 - i)) % 256
      BY DEF BigEndian
    <2>2. /\ b[1] = (n \div 256^3) % 256 /\ b[2] = (n \div 256^2) % 256
          /\ b[3] = (n \div 256^1) % 256 /\ b[4] = (n \div 256^0) % 256
      BY <2>1
    <2>3. QED BY <2>2, <1>1, SMT
  <1>3. b \in Seq(Byte) /\ Len(b) = 4
    <2>1. b[1] \in Byte /\ b[2] \in Byte /\ b[3] \in Byte /\ b[4] \in Byte
      BY <1>2, SMT DEF Byte
    <2>2. b = [i \in 1..4 |-> b[i]]
      BY DEF BigEndian
    <2> HIDE DEF b
    <2>3. b \in [1..4 -> Byte]
      BY <2>1, <2>2
    <2>4. b \in Seq(Byte)
      BY <2>3, SeqDef
    <2>5. QED BY <2>3, <2>4, LenProperties
  <1> HIDE DEF b
  <1>4. ((b[1] * 256 + b[2]) * 256 + b[3]) * 256 + b[4] = n
    BY <1>1, <1>2, SMT
  <1>5. QED BY <1>3, <1>4 DEF b

\* A header and what follows it can be told apart.
LEMMA Joined ==
    ASSUME NEW h \in Seq(Byte), NEW m \in Seq(Byte)
    PROVE  /\ h \o m \in Seq(Byte) /\ Len(h \o m) = Len(h) + Len(m)
           /\ \A i \in 1..Len(h) : (h \o m)[i] = h[i]
           /\ \A i \in 1..Len(m) : (h \o m)[Len(h) + i] = m[i]
           /\ SubSeq(h \o m, Len(h) + 1, Len(h) + Len(m)) = m
  <1> DEFINE s == h \o m
             first == Len(h) + 1
             last == Len(h) + Len(m)
             t == SubSeq(s, first, last)
  <1>1. /\ s \in Seq(Byte) /\ Len(s) = last
        /\ Len(h) \in Nat /\ Len(m) \in Nat
        /\ \A i \in 1..Len(h) + Len(m) : s[i] = IF i <= Len(h) THEN h[i] ELSE m[i - Len(h)]
    BY ConcatProperties, LenProperties
  <1>2. first \in Int /\ last \in Int /\ last - first + 1 = Len(m)
    BY <1>1
  <1> HIDE DEF s
  <1>3. /\ \A i \in 1..Len(h) : s[i] = h[i]
        /\ \A i \in 1..Len(m) : s[Len(h) + i] = m[i]
    <2>1. ASSUME NEW i \in 1..Len(h)
          PROVE  s[i] = h[i]
      BY <1>1
    <2>2. ASSUME NEW i \in 1..Len(m)
          PROVE  s[Len(h) + i] = m[i]
      <3>1. /\ Len(h) + i \in 1..Len(h) + Len(m) /\ ~(Len(h) + i <= Len(h))
            /\ Len(h) + i - Len(h) = i
        BY <1>1
      <3>2. QED BY <1>1, <3>1
    <2>3. QED BY <2>1, <2>2
  <1>4. \A i \in first..last : s[i] \in Byte
    BY <1>1, ElementOfSeq
  <1>5. t = m
    <2> HIDE DEF first, last
    <2>1. /\ t \in Seq(Byte)
          /\ Len(t) = IF first <= last THEN last - first + 1 ELSE 0
          /\ \A i \in 1..last - first + 1 : t[i] = s[first + i - 1]
      BY <1>2, <1>4, SubSeqProperties
    <2> HIDE DEF t
    <2>2. Len(t) = Len(m)
      BY <1>1, <1>2, <2>1
    <2>3. ASSUME NEW i \in 1..Len(m)
          PROVE  t[i] = m[i]
      <3>1. first + i - 1 = Len(h) + i
        BY <1>1 DEF first
      <3>2. t[i] = s[first + i - 1]
        BY <1>2, <2>1
      <3>3. QED BY <1>3, <3>1, <3>2
    <2>4. QED BY <2>1, <2>2, <2>3, SeqEqual
  <1>6. QED BY <1>1, <1>3, <1>5 DEF s, t

LEMMA OneOrTwo ==
    /\ \A a \in Byte : <<a>> \in Seq(Byte) /\ Len(<<a>>) = 1 /\ <<a>>[1] = a
    /\ \A a, b \in Byte : /\ <<a, b>> \in Seq(Byte) /\ Len(<<a, b>>) = 2
                          /\ <<a, b>>[1] = a /\ <<a, b>>[2] = b
  OBVIOUS

\* The frames of both protocols: a header that counts the message, and the message.
LEMMA SnepFrame ==
    ASSUME NEW m \in Ndef
    PROVE  LET r == createSnepFrame(m) IN
           /\ r \in Seq(Byte) /\ Len(r) = 6 + Len(m) /\ r[2] = 2
           /\ Number32(r, 3) = Len(m)
           /\ SubSeq(r, 7, 6 + Len(m)) = m
  <1> DEFINE r == createSnepFrame(m)
             b == BigEndian(Len(m), 4)
             h == <<16, 2>> \o b
  <1>1. m \in Seq(Byte) /\ Len(m) \in Nat /\ Len(m) \div 256^3 < 256
    BY LenProperties DEF Ndef
  <1>2. /\ b \in Seq(Byte) /\ Len(b) = 4
        /\ ((b[1] * 256 + b[2]) * 256 + b[3]) * 256 + b[4] = Len(m)
    BY <1>1, FourBytes
  <1> HIDE DEF b
  <1>3. /\ <<16, 2>> \in Seq(Byte) /\ Len(<<16, 2>>) = 2 /\ <<16, 2>>[2] = 2
    <2>1. 16 \in Byte /\ 2 \in Byte
      BY DEF Byte
    <2>2. QED BY <2>1, OneOrTwo
  <1>4. /\ h \in Seq(Byte) /\ Len(h) = 6 /\ h[2] = 2
        /\ h[3] = b[1] /\ h[4] = b[2] /\ h[5] = b[3] /\ h[6] = b[4]
    <2> DEFINE g == <<16, 2>>
    <2>1. g \in Seq(Byte) /\ Len(g) = 2 /\ g[2] = 2
      BY <1>3
    <2>2. h = g \o b
      OBVIOUS
    <2> HIDE DEF g, h
    <2>3. /\ g \o b \in Seq(Byte) /\ Len(g \o b) = Len(g) + Len(b)
          /\ \A i \in 1..Len(g) : (g \o b)[i] = g[i]
          /\ \A i \in 1..Len(b) : (g \o b)[Len(g) + i] = b[i]
      BY <1>2, <2>1, Joined
    <2>4. QED BY <1>2, <2>1, <2>2, <2>3
  <1>5. r = h \o m
    BY DEF createSnepFrame, b
  <1> HIDE DEF h
  <1>6. /\ r \in Seq(Byte) /\ Len(r) = 6 + Len(m)
        /\ r[2] = 2 /\ r[3] = b[1] /\ r[4] = b[2] /\ r[5] = b[3] /\ r[6] = b[4]
        /\ SubSeq(r, 7, 6 + Len(m)) = m
    <2>1. /\ h \o m \in Seq(Byte) /\ Len(h \o m) = Len(h) + Len(m)
          /\ \A i \in 1..Len(h) : (h \o m)[i] = h[i]
          /\ SubSeq(h \o m, Len(h) + 1, Len(h) + Len(m)) = m
      BY <1>1, <1>4, Joined
    <2> HIDE DEF r
    <2>2. QED BY <1>1, <1>4, <1>5, <2>1
  <1> HIDE DEF r
  <1>7. Number32(r, 3) = Len(m)
    BY <1>1, <1>2, <1>6 DEF Number32
  <1>8. QED BY <1>6, <1>7 DEF r

LEMMA NppFrame ==
    ASSUME NEW m \in Ndef
    PROVE  LET r == nppFrame(m) IN
           /\ r \in Seq(Byte) /\ Len(r) = 10 + Len(m)
           /\ Number32(r, 7) = Len(m)
           /\ SubSeq(r, 11, 10 + Len(m)) = m
  <1> DEFINE r == nppFrame(m)
             b == BigEndian(Len(m), 4)
             one == BigEndian(1, 4)
             u == <<1>>
             g == u \o one
             k == g \o u
             h == k \o b
  <1>1. m \in Seq(Byte) /\ Len(m) \in Nat /\ Len(m) \div 256^3 < 256
    BY LenProperties DEF Ndef
  <1>2. /\ b \in Seq(Byte) /\ Len(b) = 4
        /\ ((b[1] * 256 + b[2]) * 256 + b[3]) * 256 + b[4] = Len(m)
    BY <1>1, FourBytes
  <1>3. one \in Seq(Byte) /\ Len(one) = 4
    <2>1. 1 \div 256^3 < 256
      BY SMT
    <2>2. QED BY <2>1, FourBytes
  <1>4. u \in Seq(Byte) /\ Len(u) = 1
    <2>1. 1 \in Byte
      BY DEF Byte
    <2>2. QED BY <2>1, OneOrTwo
  <1>5. r = h \o m
    BY DEF nppFrame
  <1> HIDE DEF b, one, u, r
  <1>6. g \in Seq(Byte) /\ Len(g) = 5
    <2>1. g \in Seq(Byte) /\ Len(g) = Len(u) + Len(one)
      BY <1>3, <1>4, Joined
    <2>2. QED BY <1>3, <1>4, <2>1
  <1> HIDE DEF g
  <1>7. k \in Seq(Byte) /\ Len(k) = 6
    <2>1. k \in Seq(Byte) /\ Len(k) = Len(g) + Len(u)
      BY <1>6, <1>4, Joined
    <2>2. QED BY <1>6, <1>4, <2>1
  <1> HIDE DEF k
  <1>8. /\ h \in Seq(Byte) /\ Len(h) = 10
        /\ h[7] = b[1] /\ h[8] = b[2] /\ h[9] = b[3] /\ h[10] = b[4]
    <2>1. /\ h \in Seq(Byte) /\ Len(h) = Len(k) + Len(b)
          /\ \A i \in 1..Len(b) : h[Len(k) + i] = b[i]
      BY <1>7, <1>2, Joined
    <2> HIDE DEF h
    <2>2. QED BY <1>7, <1>2, <2>1
  <1> HIDE DEF h
  <1>9. /\ r \in Seq(Byte) /\ Len(r) = 10 + Len(m)
        /\ r[7] = b[1] /\ r[8] = b[2] /\ r[9] = b[3] /\ r[10] = b[4]
        /\ SubSeq(r, 11, 10 + Len(m)) = m
    <2>1. /\ h \o m \in Seq(Byte) /\ Len(h \o m) = Len(h) + Len(m)
          /\ \A i \in 1..Len(h) : (h \o m)[i] = h[i]
          /\ SubSeq(h \o m, Len(h) + 1, Len(h) + Len(m)) = m
      BY <1>1, <1>8, Joined
    <2>2. QED BY <1>1, <1>8, <1>5, <2>1
  <1>10. Number32(r, 7) = Len(m)
    BY <1>1, <1>2, <1>9 DEF Number32
  <1>11. QED BY <1>9, <1>10 DEF r

\* The message the clients hold ready is one.
LEMMA DefaultMessage == defaultMessage \in Ndef
  <1>1. defaultMessage \in Seq(Byte) /\ Len(defaultMessage) = 33
    BY SMTT(60) DEF defaultMessage, Byte
  <1>2. 33 \div 256^3 < 256
    BY SMT
  <1>3. QED BY <1>1, <1>2 DEF Ndef

\* What is sent of a request first: a part of it from its start, and the whole
\* when nothing is missing.
LEMMA FirstPart ==
    ASSUME NEW r \in Seq(Byte), NEW n \in Nat
    PROVE  LET d == First(r, n) IN
           /\ d \in Seq(Byte) /\ Len(d) \in 0..n /\ Len(d) \in Nat /\ Len(d) <= Len(r)
           /\ \A i \in 1..Len(d) : d[i] = r[i]
           /\ d = r \/ (Len(d) = n /\ n < Len(r))
  <1> DEFINE last == IF n < Len(r) THEN n ELSE Len(r)
             d == SubSeq(r, 1, last)
  <1>1. /\ Len(r) \in Nat /\ last \in Nat /\ last <= Len(r) /\ last <= n
        /\ last = Len(r) \/ (last = n /\ n < Len(r))
    BY LenProperties
  <1>2. First(r, n) = d
    BY DEF First
  <1> HIDE DEF last
  <1>3. /\ d \in Seq(Byte) /\ Len(d) = last
        /\ \A i \in 1..last : d[i] = r[i]
    <2>1. \A i \in 1..last : r[i] \in Byte
      BY <1>1, ElementOfSeq
    <2>2. /\ d \in Seq(Byte) /\ Len(d) = IF 1 <= last THEN last - 1 + 1 ELSE 0
          /\ \A i \in 1..last - 1 + 1 : d[i] = r[1 + i - 1]
      BY <1>1, <2>1, SubSeqProperties
    <2> HIDE DEF d
    <2>3. QED BY <1>1, <2>2
  <1> HIDE DEF d
  <1>4. last = Len(r) => d = r
    <2>1. ASSUME last = Len(r)
          PROVE  d = r
      <3>1. Len(d) = Len(r) /\ \A i \in 1..Len(d) : d[i] = r[i]
        BY <1>1, <1>3, <2>1
      <3>2. QED BY <1>3, <3>1, SeqEqual
    <2>2. QED BY <2>1
  <1>5. QED BY <1>1, <1>2, <1>3, <1>4

\* Of the parts of a PUT the server answers those alone that end before the
\* header does.
LEMMA SnepWholeOnly ==
    ASSUME NEW m \in Ndef, NEW n \in Nat
    PROVE  LET d == First(createSnepFrame(m), n) IN
           /\ SnepNext(d) \subseteq {"answering", "returned"}
           /\ "answering" \in SnepNext(d) =>
                d = createSnepFrame(m) \/ (n < 6 /\ Len(d) \in 2..5)
  <1> DEFINE r == createSnepFrame(m)
             d == First(r, n)
  <1>1. /\ r \in Seq(Byte) /\ Len(r) = 6 + Len(m) /\ r[2] = 2
        /\ Number32(r, 3) = Len(m) /\ Len(m) \in Nat
    BY SnepFrame, LenProperties DEF Ndef
  <1> HIDE DEF r
  <1>2. /\ Len(d) \in 0..n /\ Len(d) \in Nat /\ \A i \in 1..Len(d) : d[i] = r[i]
        /\ d = r \/ (Len(d) = n /\ n < Len(r))
    BY <1>1, FirstPart
  <1> HIDE DEF d
  <1>3. CASE Len(d) < 2
    <2>1. SnepNext(d) = {"returned"}
      BY <1>3 DEF SnepNext
    <2>2. QED BY <2>1 DEF r, d
  <1>4. CASE Len(d) >= 2
    <2>1. 2 \in 1..Len(d)
      BY <1>2, <1>4
    <2>2. d[2] = 2
      BY <1>1, <1>2, <2>1
    <2>3. /\ SnepNext(d) \subseteq {"answering", "returned"}
          /\ "answering" \in SnepNext(d) => SnepWhole(d)
      BY <1>2, <1>4, <2>2 DEF SnepNext, SnepPut
    <2>4. CASE Len(d) < 6
      <3>1. d # r
        BY <1>1, <2>4
      <3>2. Len(d) = n /\ Len(d) \in Nat
        BY <1>2, <3>1
      <3>3. n < 6 /\ Len(d) \in 2..5
        BY <1>4, <2>4, <3>2
      <3>4. QED BY <2>3, <3>3 DEF r, d
    <2>5. CASE Len(d) >= 6
      <3>1. 3 \in 1..Len(d) /\ 4 \in 1..Len(d) /\ 5 \in 1..Len(d) /\ 6 \in 1..Len(d)
        BY <1>2, <2>5
      <3>2. d[3] = r[3] /\ d[4] = r[4] /\ d[5] = r[5] /\ d[6] = r[6]
        BY <1>2, <3>1
      <3>3. Number32(d, 3) = Number32(r, 3)
        BY <1>1, <1>2, <2>5, <3>2 DEF Number32
      <3>4. SnepWhole(d) => d = r
        BY <1>1, <1>2, <2>5, <3>3 DEF SnepWhole
      <3>5. QED BY <2>3, <3>4 DEF r, d
    <2>6. QED BY <1>2, <2>4, <2>5
  <1>5. QED BY <1>2, <1>3, <1>4

LEMMA NppWholeOnly ==
    ASSUME NEW m \in Ndef, NEW n \in Nat
    PROVE  LET d == First(nppFrame(m), n) IN
           /\ NppNext(d) \subseteq {"storing", "returned"}
           /\ "storing" \in NppNext(d) => d = nppFrame(m)
  <1> DEFINE r == nppFrame(m)
             d == First(r, n)
  <1>1. /\ r \in Seq(Byte) /\ Len(r) = 10 + Len(m)
        /\ Number32(r, 7) = Len(m) /\ Len(m) \in Nat
    BY NppFrame, LenProperties DEF Ndef
  <1> HIDE DEF r
  <1>2. /\ Len(d) \in 0..n /\ Len(d) \in Nat /\ \A i \in 1..Len(d) : d[i] = r[i]
        /\ d = r \/ (Len(d) = n /\ n < Len(r))
    BY <1>1, FirstPart
  <1> HIDE DEF d
  <1>3. /\ NppNext(d) \subseteq {"storing", "returned"}
        /\ "storing" \in NppNext(d) =>
             ~(Len(d) < 10) /\ ~(Len(d) - 10 < Number32(d, 7))
    BY DEF NppNext
  <1>4. ASSUME ~(Len(d) < 10), ~(Len(d) - 10 < Number32(d, 7))
        PROVE  d = r
    <2>1. 7 \in 1..Len(d) /\ 8 \in 1..Len(d) /\ 9 \in 1..Len(d) /\ 10 \in 1..Len(d)
      BY <1>2, <1>4
    <2>2. d[7] = r[7] /\ d[8] = r[8] /\ d[9] = r[9] /\ d[10] = r[10]
      BY <1>2, <2>1
    <2>3. Number32(d, 7) = Number32(r, 7)
      BY <1>1, <1>2, <1>4, <2>2 DEF Number32
    <2>4. QED BY <1>1, <1>2, <1>4, <2>3
  <1>5. QED BY <1>3, <1>4 DEF r, d

\* A request for a message of the server's.
Get == <<16, 1, 0, 0, 0, 0>>
LEMMA GetIsNoPut == Len(Get) = 6 /\ SnepNext(Get) = {"stopping"} /\ Get # <<>>
  BY DEF Get, SnepNext, SnepPut

-----------------------------------------------------------------------------
Success == <<16, 129, 0, 0, 0, 0>>
Clients == {"idle", "connected", "waiting", "done", "stopped"}

\* The messages there are, each with what it was made of.
Made ==
  {<<textMessage(text), textReport(text)>> : text \in Texts \cup {<<>>}}
  \cup {<<ndef_encode(options), Meant(options)>> : options \in Offers}
  \cup {<<defaultMessage, defaultReport>>}

Typed ==
  /\ protocol \in {"SNEP", "NPP"} /\ peer \in {"host", "phone"}
  /\ link \in {"down", "up", "lost"} /\ links \in 0..MaxLinks
  /\ client \in [Conns -> Clients] /\ server \in [Conns -> Stages]
  /\ stream \in {"open", "closed", "null"}
  /\ request \in [Conns -> Seq(Byte)] /\ buffer \in [Conns -> Seq(Byte)]
  /\ DOMAIN content = Conns /\ DOMAIN toServer = Conns /\ DOMAIN toClient = Conns

\* The receipt is a whole frame, and what it is said to hold is in it.
Receipt ==
  \E e \in Made : receipt = createSnepFrame(e[1]) /\ receiptHolds = e[2]

\* One connection: what its two threads have of the request.
Untouched(c) ==
  /\ server[c] = "none"
  /\ toServer[c] = <<>> /\ toClient[c] = <<>> /\ buffer[c] = <<>>
Requested(c) ==
  \E e \in Made : request[c] = Frame(e[1]) /\ content[c] = e[2]
Sizes == IF peer = "phone" THEN Parts ELSE {Miu}
Carried(c) ==
  /\ \/ toServer[c] = <<>>
     \/ \E n \in Sizes : toServer[c] = <<First(request[c], n)>>
     \/ protocol = "SNEP" /\ toServer[c] = <<Get>>
  /\ toClient[c] \in {<<>>, <<Success>>}
  /\ \/ buffer[c] \in {<<>>, Get}
     \/ \E n \in Sizes : buffer[c] = First(request[c], n)
Received(c) == buffer[c] = request[c] \/ (peer = "phone" /\ Short(buffer[c]))
InStep(c) ==
  /\ client[c] = "connected" =>
       toServer[c] = <<>> /\ toClient[c] = <<>> /\ server[c] \in {"receiving", "cancelled"}
  /\ server[c] \in {"receiving", "answering"} =>
       toClient[c] = <<>> /\ client[c] # "done"
  /\ server[c] \in {"answering", "storing"} => Received(c)
  /\ toClient[c] # <<>> \/ client[c] = "done" => Received(c)
ConnInv(c) ==
  /\ IF client[c] = "idle" THEN Untouched(c) ELSE Requested(c)
  /\ Carried(c)
  /\ InStep(c)

IInv == Typed /\ Receipt /\ \A c \in Conns : ConnInv(c)

LEMMA MadeMembers ==
    /\ \A text \in Texts \cup {<<>>} : <<textMessage(text), textReport(text)>> \in Made
    /\ \A options \in Offers : <<ndef_encode(options), Meant(options)>> \in Made
    /\ <<defaultMessage, defaultReport>> \in Made
  BY DEF Made

\* receipt_nfc after a run of snep-encode.
LEMMA NewReceipt ==
    ASSUME NEW text \in Texts \cup {<<>>}
    PROVE  \E e \in Made : /\ createSnepFrame(textMessage(text)) = createSnepFrame(e[1])
                           /\ textReport(text) = e[2]
  <1> DEFINE e == <<textMessage(text), textReport(text)>>
  <1>1. e \in Made /\ e[1] = textMessage(text) /\ e[2] = textReport(text)
    BY MadeMembers
  <1>2. QED BY <1>1

LEMMA MadeAreMessages == \A e \in Made : e[1] \in Ndef
  BY NdefAssumption, DefaultMessage DEF Made

LEMMA FrameIsSeq ==
    ASSUME NEW m \in Ndef
    PROVE  Frame(m) \in Seq(Byte)
  BY SnepFrame, NppFrame DEF Frame

LEMMA RequestIsFrame ==
    ASSUME NEW c \in Conns, Requested(c)
    PROVE  \E m \in Ndef : request[c] = Frame(m)
  BY MadeAreMessages DEF Requested

\* A connection whose state a step leaves alone stays as it is.
AsItWas(c) ==
  /\ protocol' = protocol /\ peer' = peer
  /\ client'[c] = client[c] /\ server'[c] = server[c]
  /\ request'[c] = request[c] /\ content'[c] = content[c]
  /\ toServer'[c] = toServer[c] /\ toClient'[c] = toClient[c] /\ buffer'[c] = buffer[c]

LEMMA LeftAlone ==
    ASSUME NEW c \in Conns, ConnInv(c), AsItWas(c)
    PROVE  ConnInv(c)'
  <1>1. Untouched(c)' = Untouched(c)
    BY DEF AsItWas, Untouched
  <1>2. Requested(c)' = Requested(c)
    BY DEF AsItWas, Requested, Frame
  <1>3. Carried(c)' = Carried(c)
    BY DEF AsItWas, Carried, Sizes
  <1>4. InStep(c)' = InStep(c)
    BY DEF AsItWas, InStep, Received, Short
  <1>5. QED BY <1>1, <1>2, <1>3, <1>4 DEF ConnInv, AsItWas

LEMMA InitInv == Init => IInv
  <1> SUFFICES ASSUME Init
               PROVE  IInv
    OBVIOUS
  <1> USE DEF Init
  <1>1. Typed
    BY EmptySeq, MiuAssumption DEF Typed, Clients, Stages
  <1>2. Receipt
    <2>1. PICK text \in Texts : receipt = createSnepFrame(textMessage(text))
                               /\ receiptHolds = textReport(text)
      OBVIOUS
    <2>2. QED BY <2>1, NewReceipt DEF Receipt
  <1>3. ASSUME NEW c \in Conns
        PROVE  ConnInv(c)
    BY DEF ConnInv, Untouched, Carried, InStep, Received, Short
  <1>4. QED BY <1>1, <1>2, <1>3 DEF IInv

LEMMA SizesBounded == \A n \in Sizes : n \in Nat /\ n \in 0..Miu
  BY MiuAssumption, PartsAssumption DEF Sizes

LEMMA FirstIsSeq ==
    ASSUME Typed, NEW c \in Conns, NEW n \in Sizes
    PROVE  First(request[c], n) \in Seq(Byte)
  BY FirstPart, SizesBounded DEF Typed

LEMMA GetIsSeq == Get \in Seq(Byte)
  BY DEF Get, Byte

-----------------------------------------------------------------------------
(* The steps.                                                              *)

LEMMA StepCreate == IInv /\ CreateSnepMessage => IInv'
  <1> SUFFICES ASSUME IInv, CreateSnepMessage
               PROVE  IInv'
    OBVIOUS
  <1> USE DEF CreateSnepMessage, clientVars, fileVars
  <1>1. Typed'
    BY DEF IInv, Typed
  <1>2. Receipt'
    <2>1. PICK text \in Texts \cup {<<>>}, opened \in {TRUE, ~ReceiptMayFail} :
            IF opened
            THEN receipt' = createSnepFrame(textMessage(text)) /\ receiptHolds' = textReport(text)
            ELSE UNCHANGED <<receipt, receiptHolds>>
      OBVIOUS
    <2>2. CASE opened
      BY <2>1, <2>2, NewReceipt DEF Receipt
    <2>3. CASE ~opened
      BY <2>1, <2>3 DEF IInv, Receipt
    <2>4. QED BY <2>2, <2>3
  <1>3. \A c \in Conns : ConnInv(c)'
    BY LeftAlone DEF IInv, AsItWas
  <1>4. QED BY <1>1, <1>2, <1>3 DEF IInv

LEMMA StepNewLink ==
    ASSUME IInv, NEW who \in {"host", "phone"}, NewLink(who)
    PROVE  IInv'
  <1> USE DEF NewLink, hostVars
  <1>1. Typed'
    BY EmptySeq, MiuAssumption DEF IInv, Typed, Clients, Stages
  <1>2. Receipt'
    BY DEF IInv, Receipt
  <1>3. ASSUME NEW c \in Conns
        PROVE  ConnInv(c)'
    BY DEF ConnInv, Untouched, Carried, InStep, Received, Short
  <1>4. QED BY <1>1, <1>2, <1>3 DEF IInv

\* Both ways of connecting ask for a message there is.
LEMMA StepConnected ==
    ASSUME IInv, NEW c \in Conns, NEW e \in Made, Connected(c, Frame(e[1]), e[2])
    PROVE  IInv'
  <1> USE DEF Connected, hostVars, fileVars
  <1>1. Frame(e[1]) \in Seq(Byte)
    BY MadeAreMessages, FrameIsSeq
  <1>2. Typed'
    <2>1. request' \in [Conns -> Seq(Byte)]
      BY <1>1 DEF IInv, Typed
    <2>2. DOMAIN content' = Conns
      BY DEF IInv, Typed
    <2>3. QED BY <2>1, <2>2 DEF IInv, Typed, Clients, Stages, Running
  <1>3. Receipt'
    BY DEF IInv, Receipt
  <1>4. ConnInv(c)'
    <2>1. /\ client[c] = "idle" /\ Untouched(c)
      BY DEF IInv, ConnInv
    <2>2. /\ client'[c] = "connected" /\ server'[c] = "receiving"
          /\ request'[c] = Frame(e[1]) /\ content'[c] = e[2]
          /\ toServer'[c] = <<>> /\ toClient'[c] = <<>> /\ buffer'[c] = <<>>
          /\ protocol' = protocol
      BY <2>1 DEF IInv, Typed, Untouched
    <2>3. Requested(c)'
      BY <2>2 DEF Requested, Frame
    <2>5. Carried(c)' /\ InStep(c)'
      BY <2>2 DEF Carried, InStep, Sizes, Received, Short
    <2>6. QED BY <2>2, <2>3, <2>5 DEF ConnInv
  <1>5. ASSUME NEW d \in Conns, d # c
        PROVE  ConnInv(d)'
    <2>1. AsItWas(d)
      BY <1>5 DEF AsItWas, IInv, Typed
    <2>2. QED BY <2>1, LeftAlone DEF IInv
  <1>6. QED BY <1>2, <1>3, <1>4, <1>5 DEF IInv

LEMMA StepHostConnects ==
    ASSUME IInv, NEW c \in Conns, HostConnects(c)
    PROVE  IInv'
  <1>1. CASE Connected(c, Frame(defaultMessage), defaultReport)
    <2>1. <<defaultMessage, defaultReport>> \in Made
      BY MadeMembers
    <2>2. QED BY <1>1, <2>1, StepConnected
  <1>2. CASE protocol = "SNEP" /\ Connected(c, receipt, receiptHolds)
    <2>1. PICK e \in Made : receipt = createSnepFrame(e[1]) /\ receiptHolds = e[2]
      BY DEF IInv, Receipt
    <2>2. Connected(c, Frame(e[1]), e[2])
      BY <1>2, <2>1 DEF Frame
    <2>3. QED BY <2>2, StepConnected
  <1>3. QED BY <1>1, <1>2 DEF HostConnects

LEMMA StepPhoneConnects ==
    ASSUME IInv, NEW c \in Conns, PhoneConnects(c)
    PROVE  IInv'
  <1>1. PICK options \in Offers : Connected(c, Frame(ndef_encode(options)), Meant(options))
    BY DEF PhoneConnects, Prepared
  <1>2. <<ndef_encode(options), Meant(options)>> \in Made
    BY MadeMembers
  <1>3. QED BY <1>1, <1>2, StepConnected

\* Of the client: sending, receiving, closing.
LEMMA StepHostSends ==
    ASSUME IInv, NEW c \in Conns, HostSends(c)
    PROVE  IInv'
  <1> USE DEF HostSends, Set, hostVars, fileVars
  <1> DEFINE to == IF protocol = "SNEP" THEN "waiting" ELSE "stopped"
             fits == Len(request[c]) <= Miu /\ link = "up"
  <1>1. Typed'
    BY DEF IInv, Typed, Clients
  <1>2. Receipt'
    BY DEF IInv, Receipt
  <1>3. ConnInv(c)'
    <2>1. /\ Requested(c) /\ Carried(c) /\ InStep(c) /\ client[c] = "connected"
          /\ toServer[c] = <<>> /\ toClient[c] = <<>>
          /\ server[c] \in {"receiving", "cancelled"}
      BY DEF IInv, ConnInv, InStep
    <2>2. /\ client'[c] = to /\ request' = request /\ content' = content
          /\ toServer'[c] = IF fits THEN Append(<<>>, request[c]) ELSE <<>>
          /\ toClient'[c] = <<>> /\ buffer' = buffer /\ server' = server
          /\ protocol' = protocol /\ peer' = peer
      BY <2>1 DEF IInv, Typed
    <2>3. fits => request[c] = First(request[c], Miu)
      <3>1. request[c] \in Seq(Byte) /\ Len(request[c]) \in Nat
        BY LenProperties DEF IInv, Typed
      <3>2. Miu \in Nat
        BY MiuAssumption
      <3>3. ASSUME fits
            PROVE  request[c] = First(request[c], Miu)
        <4>1. ~(Miu < Len(request[c]))
          BY <3>1, <3>2, <3>3
        <4>2. QED BY <3>1, <3>2, <4>1, FirstPart
      <3>4. QED BY <3>3
    <2>4. toServer'[c] = <<>> \/ \E n \in Sizes : toServer'[c] = <<First(request[c], n)>>
      <3>1. Append(<<>>, request[c]) = <<request[c]>>
        OBVIOUS
      <3>2. Miu \in Sizes
        BY DEF Sizes
      <3>3. QED BY <2>2, <2>3, <3>1, <3>2
    <2>5. Requested(c)' /\ client'[c] # "idle"
      BY <2>1, <2>2 DEF Requested, Frame
    <2>6. Carried(c)' /\ InStep(c)'
      BY <2>1, <2>2, <2>4 DEF Carried, InStep, Sizes, Received, Short
    <2>7. QED BY <2>5, <2>6 DEF ConnInv
  <1>4. ASSUME NEW d \in Conns, d # c
        PROVE  ConnInv(d)'
    <2>1. AsItWas(d)
      BY <1>4 DEF AsItWas, IInv, Typed
    <2>2. QED BY <2>1, LeftAlone DEF IInv
  <1>5. QED BY <1>1, <1>2, <1>3, <1>4 DEF IInv

LEMMA StepPhoneSends ==
    ASSUME IInv, NEW c \in Conns, PhoneSends(c)
    PROVE  IInv'
  <1> USE DEF PhoneSends, Set, hostVars, fileVars
  <1>1. Typed'
    BY DEF IInv, Typed, Clients
  <1>2. Receipt'
    BY DEF IInv, Receipt
  <1>3. ConnInv(c)'
    <2>1. /\ Requested(c) /\ Carried(c) /\ InStep(c) /\ client[c] = "connected"
          /\ toServer[c] = <<>> /\ toClient[c] = <<>>
          /\ server[c] \in {"receiving", "cancelled"}
      BY DEF IInv, ConnInv, InStep
    <2>2. /\ client'[c] = "waiting" /\ request' = request /\ content' = content
          /\ toClient'[c] = <<>> /\ buffer' = buffer /\ server' = server
          /\ protocol' = protocol /\ peer' = peer
      BY <2>1 DEF IInv, Typed
    <2>3. \/ \E n \in Sizes : toServer'[c] = <<First(request[c], n)>>
          \/ protocol = "SNEP" /\ toServer'[c] = <<Get>>
      <3>1. PICK message \in {First(request[c], n) : n \in Parts}
                    \cup (IF protocol = "SNEP" THEN {Get} ELSE {}) :
              toServer' = [toServer EXCEPT ![c] = Append(@, message)]
        BY DEF Get
      <3>2. toServer'[c] = Append(<<>>, message)
        BY <2>1, <3>1 DEF IInv, Typed
      <3>3. Append(<<>>, message) = <<message>>
        OBVIOUS
      <3>4. Sizes = Parts
        BY DEF Sizes
      <3>5. QED BY <3>1, <3>2, <3>3, <3>4
    <2>4. Requested(c)' /\ client'[c] # "idle"
      BY <2>1, <2>2 DEF Requested, Frame
    <2>5. Carried(c)' /\ InStep(c)'
      BY <2>1, <2>2, <2>3 DEF Carried, InStep, Sizes, Received, Short
    <2>6. QED BY <2>4, <2>5 DEF ConnInv
  <1>4. ASSUME NEW d \in Conns, d # c
        PROVE  ConnInv(d)'
    <2>1. AsItWas(d)
      <3>1. toServer'[d] = toServer[d]
        BY <1>4 DEF IInv, Typed
      <3>2. QED BY <1>4, <3>1 DEF AsItWas, IInv, Typed
    <2>2. QED BY <2>1, LeftAlone DEF IInv
  <1>5. QED BY <1>1, <1>2, <1>3, <1>4 DEF IInv

LEMMA StepClientReceives ==
    ASSUME IInv, NEW c \in Conns, ClientReceives(c)
    PROVE  IInv'
  <1> USE DEF ClientReceives, Set, hostVars, fileVars
  <1>1. Typed'
    BY DEF IInv, Typed, Clients
  <1>2. Receipt'
    BY DEF IInv, Receipt
  <1>3. ConnInv(c)'
    <2>1. /\ Requested(c) /\ Carried(c) /\ InStep(c) /\ client[c] = "waiting"
          /\ toClient[c] = <<Success>>
      BY DEF IInv, ConnInv, Carried
    <2>2. /\ client'[c] = "done" /\ toClient'[c] = <<>>
          /\ request' = request /\ content' = content /\ toServer' = toServer
          /\ buffer' = buffer /\ server' = server /\ protocol' = protocol
          /\ peer' = peer
      <3>1. Tail(<<Success>>) = <<>>
        OBVIOUS
      <3>2. QED BY <2>1, <3>1 DEF IInv, Typed
    <2>3. toClient[c] # <<>>
      OBVIOUS
    <2>4. Received(c) /\ server[c] \notin {"receiving", "answering"}
      BY <2>1, <2>3 DEF InStep
    <2>5. Requested(c)' /\ client'[c] # "idle"
      BY <2>1, <2>2 DEF Requested, Frame
    <2>6. Carried(c)' /\ InStep(c)'
      BY <2>1, <2>2, <2>4 DEF Carried, InStep, Sizes, Received, Short
    <2>7. QED BY <2>5, <2>6 DEF ConnInv
  <1>4. ASSUME NEW d \in Conns, d # c
        PROVE  ConnInv(d)'
    <2>1. AsItWas(d)
      BY <1>4 DEF AsItWas, IInv, Typed
    <2>2. QED BY <2>1, LeftAlone DEF IInv
  <1>5. QED BY <1>1, <1>2, <1>3, <1>4 DEF IInv

LEMMA StepPhoneDisconnects ==
    ASSUME IInv, NEW c \in Conns, PhoneDisconnects(c)
    PROVE  IInv'
  <1> USE DEF PhoneDisconnects, Set, hostVars, fileVars
  <1>1. Typed'
    BY DEF IInv, Typed, Clients, Stages
  <1>2. Receipt'
    BY DEF IInv, Receipt
  <1>3. ConnInv(c)'
    <2>1. Requested(c) /\ Carried(c)
      BY DEF IInv, ConnInv
    <2>2. /\ client'[c] = "stopped" /\ toClient'[c] = <<>> /\ toServer'[c] = <<>>
          /\ request' = request /\ content' = content
          /\ buffer' = buffer /\ protocol' = protocol /\ peer' = peer
          /\ server'[c] \in {"returned", "stopped", "cancelled"}
      BY DEF IInv, Typed
    <2>3. Requested(c)' /\ client'[c] # "idle"
      BY <2>1, <2>2 DEF Requested, Frame
    <2>4. Carried(c)' /\ InStep(c)'
      BY <2>1, <2>2 DEF Carried, InStep, Sizes, Received, Short
    <2>5. QED BY <2>3, <2>4 DEF ConnInv
  <1>4. ASSUME NEW d \in Conns, d # c
        PROVE  ConnInv(d)'
    <2>1. AsItWas(d)
      BY <1>4 DEF AsItWas, IInv, Typed
    <2>2. QED BY <2>1, LeftAlone DEF IInv
  <1>5. QED BY <1>1, <1>2, <1>3, <1>4 DEF IInv

\* The two ends of a link.
LEMMA StepLinkEnds == IInv /\ (LinkLost \/ ServerExits) => IInv'
  <1> SUFFICES ASSUME IInv, LinkLost \/ ServerExits
               PROVE  IInv'
    OBVIOUS
  <1> USE DEF LinkLost, ServerExits, hostVars, clientVars, fileVars
  <1>1. Typed'
    BY DEF IInv, Typed
  <1>2. Receipt'
    BY DEF IInv, Receipt
  <1>3. \A c \in Conns : ConnInv(c)'
    BY LeftAlone DEF IInv, AsItWas
  <1>4. QED BY <1>1, <1>2, <1>3 DEF IInv

-----------------------------------------------------------------------------
(* The service thread.                                                     *)

LEMMA StepReceives ==
    ASSUME IInv, NEW c \in Conns, ServerReceives(c)
    PROVE  IInv'
  <1> USE DEF ServerReceives, Set, hostVars, clientVars, fileVars
  <1> DEFINE data == Head(toServer[c])
             next == IF protocol = "SNEP" THEN SnepNext(data) ELSE NppNext(data)
  <1>1. /\ server[c] = "receiving" /\ client[c] # "idle" /\ client[c] # "done"
        /\ Requested(c) /\ Carried(c) /\ InStep(c) /\ toClient[c] = <<>>
    BY DEF IInv, ConnInv, Untouched, InStep
  <1>2. /\ \/ \E n \in Sizes : data = First(request[c], n)
           \/ protocol = "SNEP" /\ data = Get
        /\ Tail(toServer[c]) = <<>>
    <2>1. \/ \E n \in Sizes : toServer[c] = <<First(request[c], n)>>
          \/ protocol = "SNEP" /\ toServer[c] = <<Get>>
      BY <1>1 DEF Carried
    <2>2. \A x : Head(<<x>>) = x /\ Tail(<<x>>) = <<>>
      OBVIOUS
    <2>3. QED BY <2>1, <2>2
  <1> PICK to \in next : server' = [server EXCEPT ![c] = to]
    OBVIOUS
  <1> HIDE DEF data
  <1> DEFINE Taken == /\ to \in {"answering", "storing", "returned", "stopping"}
                      /\ to \in {"answering", "storing"} =>
                           data = request[c] \/ (peer = "phone" /\ Short(data))
  <1>3. Taken
    <2>1. PICK m \in Ndef : request[c] = Frame(m)
      BY <1>1, RequestIsFrame
    <2>2. CASE protocol = "SNEP" /\ data = Get
      BY <2>2, GetIsNoPut
    <2>3. ASSUME NEW n \in Sizes, protocol = "SNEP", data = First(request[c], n)
          PROVE  Taken
      <3>1. request[c] = createSnepFrame(m) /\ n \in Nat
        BY <2>1, <2>3, SizesBounded DEF Frame
      <3>2. /\ SnepNext(data) \subseteq {"answering", "returned"}
            /\ "answering" \in SnepNext(data) =>
                 data = request[c] \/ (n < 6 /\ Len(data) \in 2..5)
        BY <2>3, <3>1, SnepWholeOnly
      <3>3. n < 6 => peer = "phone"
        BY MiuAssumption DEF Sizes
      <3>4. QED BY <2>3, <3>2, <3>3 DEF Short
    <2>4. ASSUME NEW n \in Sizes, protocol # "SNEP", data = First(request[c], n)
          PROVE  Taken
      <3>1. request[c] = nppFrame(m) /\ n \in Nat
        BY <2>1, <2>4, SizesBounded DEF Frame
      <3>2. /\ NppNext(data) \subseteq {"storing", "returned"}
            /\ "storing" \in NppNext(data) => data = request[c]
        BY <2>4, <3>1, NppWholeOnly
      <3>3. QED BY <2>4, <3>2
    <2>5. QED BY <1>2, <2>2, <2>3, <2>4
  <1>4. buffer' = [buffer EXCEPT ![c] = data] /\ toServer' = [toServer EXCEPT ![c] = <<>>]
    BY <1>2 DEF data
  <1> HIDE DEF next
  <1>5. Typed'
    <2>1. data \in Seq(Byte)
      BY <1>2, FirstIsSeq, GetIsSeq DEF IInv
    <2>2. to \in Stages
      BY <1>3 DEF Stages, Running
    <2>3. QED BY <1>4, <2>1, <2>2 DEF IInv, Typed
  <1>6. Receipt'
    BY DEF IInv, Receipt
  <1>7. ConnInv(c)'
    <2>1. /\ server'[c] = to /\ buffer'[c] = data /\ toServer'[c] = <<>>
          /\ client' = client /\ request' = request /\ content' = content
          /\ toClient' = toClient /\ protocol' = protocol /\ peer' = peer
      BY <1>4 DEF IInv, Typed
    <2>2. client[c] # "connected"
      <3>1. toServer[c] # <<>>
        OBVIOUS
      <3>2. QED BY <1>1, <3>1 DEF InStep
    <2>3. Requested(c)'
      BY <1>1, <2>1 DEF Requested, Frame
    <2>4. Carried(c)' /\ InStep(c)'
      BY <1>1, <1>2, <1>3, <2>1, <2>2 DEF Carried, InStep, Sizes, Received, Short
    <2>5. QED BY <1>1, <2>1, <2>3, <2>4 DEF ConnInv
  <1>8. ASSUME NEW d \in Conns, d # c
        PROVE  ConnInv(d)'
    <2>1. AsItWas(d)
      BY <1>4, <1>8 DEF AsItWas, IInv, Typed
    <2>2. QED BY <2>1, LeftAlone DEF IInv
  <1>9. QED BY <1>5, <1>6, <1>7, <1>8 DEF IInv

LEMMA StepAnswers ==
    ASSUME IInv, NEW c \in Conns, ServerAnswers(c)
    PROVE  IInv'
  <1> USE DEF ServerAnswers, Set, hostVars, clientVars, fileVars
  <1>1. Typed'
    BY DEF IInv, Typed, Stages, Running
  <1>2. Receipt'
    BY DEF IInv, Receipt
  <1>3. ConnInv(c)'
    <2>1. /\ server[c] = "answering" /\ client[c] \notin {"idle", "done", "connected"}
          /\ Requested(c) /\ Carried(c) /\ InStep(c)
          /\ toClient[c] = <<>> /\ Received(c)
      BY DEF IInv, ConnInv, Untouched, InStep
    <2>2. /\ client' = client /\ request' = request /\ content' = content
          /\ toServer' = toServer /\ buffer' = buffer /\ protocol' = protocol
          /\ peer' = peer
          /\ server'[c] = "storing"
          /\ toClient'[c] \in {<<>>, <<Success>>}
      <3>1. toClient'[c] = <<>> \/ toClient'[c] = Append(<<>>, Success)
        BY <2>1 DEF IInv, Typed, Success
      <3>2. Append(<<>>, Success) = <<Success>>
        OBVIOUS
      <3>3. QED BY <3>1, <3>2 DEF IInv, Typed
    <2>3. Requested(c)'
      BY <2>1, <2>2 DEF Requested, Frame
    <2>4. Carried(c)' /\ InStep(c)'
      BY <2>1, <2>2 DEF Carried, InStep, Sizes, Received, Short
    <2>5. QED BY <2>1, <2>2, <2>3, <2>4 DEF ConnInv
  <1>4. ASSUME NEW d \in Conns, d # c
        PROVE  ConnInv(d)'
    <2>1. AsItWas(d)
      BY <1>4 DEF AsItWas, IInv, Typed
    <2>2. QED BY <2>1, LeftAlone DEF IInv
  <1>5. QED BY <1>1, <1>2, <1>3, <1>4 DEF IInv

\* The later stages, and the ends of the thread, touch nothing of a connection
\* but where its thread is.
Later == {"closing", "forgetting", "stopping", "stopped", "cancelled"}
LEMMA StepLater ==
    ASSUME IInv, NEW c \in Conns, NEW to \in Later,
           server[c] \in Running, server[c] # "receiving" \/ to = "cancelled",
           server' = [server EXCEPT ![c] = to], stream' \in {"open", "closed", "null"},
           UNCHANGED <<protocol, peer, link, links, hostVars, clientVars, toServer,
                       toClient, buffer>>
    PROVE  IInv'
  <1> USE DEF hostVars, clientVars
  <1>1. Typed'
    BY DEF IInv, Typed, Later, Stages, Running
  <1>2. Receipt'
    BY DEF IInv, Receipt
  <1>3. ConnInv(c)'
    <2>1. /\ client[c] # "idle" /\ Requested(c) /\ Carried(c) /\ InStep(c)
          /\ client[c] = "connected" => to = "cancelled"
      BY DEF IInv, ConnInv, Untouched, InStep, Running
    <2>2. server'[c] = to
      BY DEF IInv, Typed
    <2>3. Requested(c)'
      BY <2>1 DEF Requested, Frame
    <2>4. Carried(c)' /\ InStep(c)'
      BY <2>1, <2>2 DEF Carried, InStep, Sizes, Received, Short, Later
    <2>5. QED BY <2>1, <2>3, <2>4 DEF ConnInv
  <1>4. ASSUME NEW d \in Conns, d # c
        PROVE  ConnInv(d)'
    <2>1. AsItWas(d)
      BY <1>4 DEF AsItWas, IInv, Typed
    <2>2. QED BY <2>1, LeftAlone DEF IInv
  <1>5. QED BY <1>1, <1>2, <1>3, <1>4 DEF IInv

LEMMA StepEnds ==
    ASSUME IInv, NEW c \in Conns,
           \/ ServerStores(c) \/ ServerCloses(c) \/ ServerForgets(c)
           \/ ServerStops(c) \/ ServerCancelled(c)
    PROVE  IInv'
  <1> DEFINE Quiet == UNCHANGED <<protocol, peer, link, links, hostVars, clientVars, toServer,
                                 toClient, buffer>>
  <1>1. stream \in {"open", "closed", "null"}
    BY DEF IInv, Typed
  <1>2. ASSUME ServerStores(c)
        PROVE  IInv'
    <2>1. /\ server[c] = "storing" /\ Quiet /\ stream' = stream
          /\ \E to \in {"closing", "stopping"} : server' = [server EXCEPT ![c] = to]
      BY <1>2 DEF ServerStores, Set
    <2>2. QED BY <1>1, <2>1, StepLater DEF Later, Running
  <1>3. ASSUME ServerCloses(c)
        PROVE  IInv'
    <2>1. /\ server[c] = "closing" /\ Quiet /\ stream' = "closed"
          /\ server' = [server EXCEPT ![c] = "forgetting"]
      BY <1>3 DEF ServerCloses, Set
    <2>2. QED BY <2>1, StepLater DEF Later, Running
  <1>4. ASSUME ServerForgets(c)
        PROVE  IInv'
    <2>1. /\ server[c] = "forgetting" /\ Quiet /\ stream' = "null"
          /\ server' = [server EXCEPT ![c] = "stopping"]
      BY <1>4 DEF ServerForgets, Set
    <2>2. QED BY <2>1, StepLater DEF Later, Running
  <1>5. ASSUME ServerStops(c)
        PROVE  IInv'
    <2>1. /\ server[c] = "stopping" /\ Quiet /\ stream' = stream
          /\ server' = [server EXCEPT ![c] = "stopped"]
      BY <1>5 DEF ServerStops, Set, fileVars
    <2>2. QED BY <1>1, <2>1, StepLater DEF Later, Running
  <1>6. ASSUME ServerCancelled(c)
        PROVE  IInv'
    <2>1. /\ server[c] \in Running /\ Quiet /\ stream' = stream
          /\ server' = [server EXCEPT ![c] = "cancelled"]
      BY <1>6 DEF ServerCancelled, Set, fileVars
    <2>2. QED BY <1>1, <2>1, StepLater DEF Later
  <1>7. QED BY <1>2, <1>3, <1>4, <1>5, <1>6

LEMMA Stutter == IInv /\ UNCHANGED vars => IInv'
  <1> SUFFICES ASSUME IInv, UNCHANGED vars
               PROVE  IInv'
    OBVIOUS
  <1> USE DEF vars, hostVars, clientVars, fileVars
  <1>1. Typed'
    BY DEF IInv, Typed
  <1>2. Receipt'
    BY DEF IInv, Receipt
  <1>3. \A c \in Conns : ConnInv(c)'
    BY LeftAlone DEF IInv, AsItWas
  <1>4. QED BY <1>1, <1>2, <1>3 DEF IInv

LEMMA NextInv == IInv /\ [Next]_vars => IInv'
  <1> SUFFICES ASSUME IInv, [Next]_vars
               PROVE  IInv'
    OBVIOUS
  <1>1. CASE CreateSnepMessage
    BY <1>1, StepCreate
  <1>2. CASE LinkLost \/ ServerExits
    BY <1>2, StepLinkEnds
  <1>3. CASE NewLink("host") \/ NewLink("phone")
    BY <1>3, StepNewLink
  <1>4. ASSUME NEW c \in Conns,
               \/ HostConnects(c) \/ HostSends(c) \/ ClientReceives(c)
               \/ PhoneConnects(c) \/ PhoneSends(c) \/ PhoneDisconnects(c)
               \/ Server(c) \/ ServerCancelled(c)
        PROVE  IInv'
    BY <1>4, StepHostConnects, StepHostSends, StepClientReceives, StepPhoneConnects,
       StepPhoneSends, StepPhoneDisconnects, StepReceives, StepAnswers, StepEnds DEF Server
  <1>5. CASE UNCHANGED vars
    BY <1>5, Stutter
  <1>6. QED BY <1>1, <1>2, <1>3, <1>4, <1>5 DEF Next

\* At every moment each connection's two threads agree on how much of its
\* request has gone over.
THEOREM Invariance == Spec => []IInv
  BY InitInv, NextInv, PTL DEF Spec

\* The variables keep their ranges: whatever texts and messages are sent, however
\* many connections a link carries, no more than one message is on its way in
\* either direction of one, and the server's buffer holds no more than an I PDU.
THEOREM TypeCorrect == Spec => []TypeOK
  <1>1. IInv => TypeOK
    <2> SUFFICES ASSUME IInv
                 PROVE  TypeOK
      OBVIOUS
    <2>1. ASSUME NEW c \in Conns
          PROVE  Len(toServer[c]) \in 0..1 /\ Len(toClient[c]) \in 0..1
      <3>1. Len(<<>>) = 0 /\ \A x : Len(<<x>>) = 1
        OBVIOUS
      <3>2. /\ toServer[c] = <<>> \/ \E x : toServer[c] = <<x>>
            /\ toClient[c] = <<>> \/ \E x : toClient[c] = <<x>>
        BY DEF IInv, ConnInv, Carried
      <3>3. /\ Len(toServer[c]) = 0 \/ Len(toServer[c]) = 1
            /\ Len(toClient[c]) = 0 \/ Len(toClient[c]) = 1
        BY <3>1, <3>2
      <3>4. QED BY <3>3
    <2>2. ASSUME NEW c \in Conns
          PROVE  Len(buffer[c]) \in 0..Miu
      <3>1. /\ Len(<<>>) = 0 /\ Len(Get) = 6 /\ Miu \in Nat /\ Miu >= 128
        BY GetIsNoPut, MiuAssumption
      <3>2. \A n \in Sizes : Len(First(request[c], n)) \in 0..Miu
        BY <3>1, FirstPart, SizesBounded DEF IInv, Typed
      <3>3. buffer[c] \in {<<>>, Get} \/ \E n \in Sizes : buffer[c] = First(request[c], n)
        BY DEF IInv, ConnInv, Carried
      <3>4. CASE buffer[c] = <<>>
        BY <3>1, <3>4
      <3>5. CASE buffer[c] = Get
        <4>1. Len(buffer[c]) = 6
          BY <3>1, <3>5
        <4>2. QED BY <3>1, <4>1
      <3>6. CASE \E n \in Sizes : buffer[c] = First(request[c], n)
        BY <3>2, <3>6
      <3>7. QED BY <3>3, <3>4, <3>5, <3>6
    <2>3. QED BY <2>1, <2>2 DEF IInv, Typed, TypeOK, Clients
  <1>2. QED BY <1>1, Invariance, PTL

\* A client reports success only for a request that the server holds whole: of the
\* parts that a phone may send, of any length, the server answers those alone that
\* are a PUT cut off within its header, and nothing for a request that was never
\* sent, for any MIU from the default to 261 and any number of connections.
THEOREM DoneIsReceived == Spec => []DoneMeansReceived
  <1>1. IInv => DoneMeansReceived
    BY DEF IInv, ConnInv, InStep, Received, DoneMeansReceived
  <1>2. QED BY <1>1, Invariance, PTL

-----------------------------------------------------------------------------
(* The file.                                                               *)

\* ndef-decode tells from a message what it was made of.
RoundTrip == \A e \in Made : decodeNDEFMessage(e[1]) = e[2]

\* With one connection, the stream and the file have the message of its request
\* (of a PUT cut off within its header: what lay in the buffer) or nothing, and
\* one of them has nothing.
Kept(c) == IF Short(buffer[c]) THEN Leftovers ELSE {ndefOf(request[c])}
Filed(c) ==
  /\ {file, unflushed} \subseteq {<<>>} \cup Kept(c)
  /\ file = <<>> \/ unflushed = <<>>
  /\ server[c] \in {"none", "receiving", "answering", "storing"} =>
       file = <<>> /\ unflushed = <<>>
  /\ server[c] = "closing" => file = <<>>
  /\ link = "down" => unflushed = <<>> /\ server[c] \notin Running

LEMMA StoredPart ==
    ASSUME NEW m \in Ndef
    PROVE  ndefOf(Frame(m)) = m /\ m \in Seq(Byte)
  <1>1. m \in Seq(Byte)
    BY DEF Ndef
  <1>2. CASE protocol = "SNEP"
    BY <1>1, <1>2, SnepFrame DEF ndefOf, Frame
  <1>3. CASE protocol # "SNEP"
    BY <1>1, <1>3, NppFrame DEF ndefOf, Frame
  <1>4. QED BY <1>2, <1>3

\* A step that leaves the file and the request alone, and takes the thread no
\* earlier than it was.
LEMMA FileAlone ==
    ASSUME NEW c \in Conns, Filed(c),
           UNCHANGED <<protocol, request, file, unflushed>>,
           UNCHANGED buffer \/ (server[c] = "receiving" /\ link' # "down"),
           link' = link \/ (link # "down" /\ link' # "down"),
           \/ server'[c] = server[c]
           \/ /\ link # "down"
              /\ \/ server[c] \in {"receiving", "answering"}
                 \/ server'[c] \in {"forgetting", "stopping", "stopped", "cancelled", "returned"}
    PROVE  Filed(c)'
  <1>1. file \in {<<>>} \cup Kept(c)' /\ unflushed \in {<<>>} \cup Kept(c)'
    <2>1. CASE UNCHANGED buffer
      <3>1. Kept(c)' = Kept(c)
        BY <2>1 DEF Kept, Short, ndefOf
      <3>2. QED BY <3>1 DEF Filed
    <2>2. CASE server[c] = "receiving"
      BY <2>2 DEF Filed
    <2>3. QED BY <2>1, <2>2
  <1>2. QED BY <1>1 DEF Filed

\* What a thread may write of a request it has received.
LEMMA KeptIsStored ==
    ASSUME NEW c \in Conns, IInv, Requested(c)
    PROVE  /\ \A message \in Kept(c) : message \in Seq(Byte)
           /\ Received(c) => Stored(buffer[c]) = Kept(c)
  <1>1. PICK m \in Ndef : request[c] = Frame(m)
    BY RequestIsFrame
  <1>2. ndefOf(request[c]) \in Seq(Byte)
    BY <1>1, StoredPart
  <1>3. \A message \in Kept(c) : message \in Seq(Byte)
    BY <1>2, PartsAssumption DEF Kept
  <1>4. CASE Short(buffer[c])
    BY <1>3, <1>4 DEF Stored, Kept
  <1>5. CASE ~Short(buffer[c])
    BY <1>3, <1>5 DEF Stored, Kept, Received
  <1>6. QED BY <1>3, <1>4, <1>5

LEMMA FileNext ==
    ASSUME NEW k, Conns = {k}, IInv, Filed(k), [Next]_vars
    PROVE  Filed(k)'
  <1> USE DEF hostVars, clientVars, fileVars, Set
  <1>1. k \in Conns /\ (client[k] = "idle" => server[k] = "none")
    BY DEF IInv, ConnInv, Untouched
  <1>2. Typed /\ DOMAIN server = Conns /\ DOMAIN request = Conns
    BY DEF IInv, Typed
  <1>3. link = "down" => server[k] \notin Running
    BY DEF Filed
  <1>4. ASSUME CreateSnepMessage \/ LinkLost \/ UNCHANGED vars
        PROVE  Filed(k)'
    BY <1>1, <1>4, FileAlone DEF CreateSnepMessage, LinkLost, vars
  <1>5. ASSUME ServerExits
        PROVE  Filed(k)'
    <2>1. /\ Kept(k)' = Kept(k) /\ server[k] \notin Running
          /\ file' = file \o unflushed /\ unflushed' = <<>> /\ server' = server
      BY <1>1, <1>5 DEF ServerExits, Flush, Kept, Short, ndefOf
    <2>2. file' \in {<<>>} \cup Kept(k)
      <3>1. CASE client[k] = "idle"
        <4>1. file = <<>> /\ unflushed = <<>>
          BY <1>1, <3>1 DEF Filed
        <4>2. QED BY <2>1, <4>1
      <3>2. CASE client[k] # "idle"
        <4>1. \A message \in Kept(k) : message \in Seq(Byte)
          BY <1>1, <3>2, KeptIsStored DEF IInv, ConnInv
        <4>2. /\ file \in {<<>>} \cup Kept(k) /\ unflushed \in {<<>>} \cup Kept(k)
              /\ file = <<>> \/ unflushed = <<>>
          BY DEF Filed
        <4>3. CASE unflushed = <<>>
          <5>1. file \in Seq(Byte)
            BY <4>1, <4>2, EmptySeq
          <5>2. QED BY <2>1, <4>2, <4>3, <5>1, ConcatEmptySeq
        <4>4. CASE file = <<>>
          <5>1. unflushed \in Seq(Byte)
            BY <4>1, <4>2, EmptySeq
          <5>2. QED BY <2>1, <4>2, <4>4, <5>1, ConcatEmptySeq
        <4>5. QED BY <4>2, <4>3, <4>4
      <3>3. QED BY <3>1, <3>2
    <2>3. (file = <<>> /\ unflushed = <<>>) => file' = <<>>
      BY <2>1
    <2>4. QED BY <2>1, <2>2, <2>3 DEF Filed, Running
  <1>6. ASSUME NEW who \in {"host", "phone"}, NewLink(who)
        PROVE  Filed(k)'
    BY <1>1, <1>6 DEF NewLink, Filed
  <1>7. ASSUME NEW bytes, NEW holds, Connected(k, bytes, holds)
        PROVE  Filed(k)'
    BY <1>1, <1>2, <1>7 DEF Connected, Filed
  <1>8. ASSUME HostSends(k) \/ PhoneSends(k) \/ ClientReceives(k)
        PROVE  Filed(k)'
    BY <1>1, <1>8, FileAlone DEF HostSends, PhoneSends, ClientReceives
  <1>9. ASSUME PhoneDisconnects(k)
        PROVE  Filed(k)'
    BY <1>1, <1>2, <1>9, FileAlone DEF PhoneDisconnects
  <1>10. ASSUME ServerReceives(k) \/ ServerAnswers(k) \/ ServerForgets(k) \/ ServerStops(k)
                \/ ServerCancelled(k)
        PROVE  Filed(k)'
    <2>1. link # "down"
      BY <1>3, <1>10 DEF ServerReceives, ServerAnswers, ServerForgets, ServerStops,
         ServerCancelled, Running
    <2>2. QED BY <1>1, <1>2, <1>10, <2>1, FileAlone
       DEF ServerReceives, ServerAnswers, ServerForgets, ServerStops, ServerCancelled
  <1>11. ASSUME ServerStores(k)
        PROVE  Filed(k)'
    <2>1. /\ server[k] = "storing" /\ Received(k) /\ Requested(k)
          /\ file = <<>> /\ unflushed = <<>> /\ link # "down"
      BY <1>1, <1>3, <1>11 DEF ServerStores, IInv, ConnInv, InStep, Untouched, Filed, Running
    <2>2. /\ \A message \in Kept(k) : message \in Seq(Byte)
          /\ Stored(buffer[k]) = Kept(k) /\ Kept(k)' = Kept(k)
      BY <1>1, <1>11, <2>1, KeptIsStored DEF ServerStores, Kept, Short, ndefOf
    <2>3. /\ server'[k] \in {"stopping", "closing"} /\ file' = <<>> /\ link' = link
          /\ \/ unflushed' \in {<<>>, <<>> \o <<>>}
             \/ \E message \in Kept(k) : unflushed' = <<>> \o message
      BY <1>1, <1>2, <1>11, <2>1, <2>2 DEF ServerStores
    <2>4. unflushed' \in {<<>>} \cup Kept(k)
      BY <2>2, <2>3, ConcatEmptySeq, EmptySeq
    <2>5. QED BY <2>1, <2>2, <2>3, <2>4 DEF Filed
  <1>12. ASSUME ServerCloses(k)
        PROVE  Filed(k)'
    <2>1. /\ server[k] = "closing" /\ Requested(k) /\ file = <<>> /\ link # "down"
          /\ unflushed \in {<<>>} \cup Kept(k)
      BY <1>1, <1>3, <1>12 DEF ServerCloses, IInv, ConnInv, Untouched, Filed, Running
    <2>2. /\ \A message \in Kept(k) : message \in Seq(Byte)
          /\ Kept(k)' = Kept(k)
      BY <1>1, <1>12, <2>1, KeptIsStored DEF ServerCloses, Kept, Short, ndefOf
    <2>3. /\ server'[k] = "forgetting" /\ unflushed' = <<>> /\ link' = link
          /\ file' \in {<<>> \o <<>>, <<>> \o unflushed}
      BY <1>1, <1>2, <1>12, <2>1 DEF ServerCloses, Flush
    <2>4. file' \in {<<>>} \cup Kept(k)
      BY <2>1, <2>2, <2>3, ConcatEmptySeq, EmptySeq
    <2>5. QED BY <2>1, <2>2, <2>3, <2>4 DEF Filed
  <1>13. QED
    BY <1>1, <1>4, <1>5, <1>6, <1>7, <1>8, <1>9, <1>10, <1>11, <1>12
       DEF Next, HostConnects, PhoneConnects, Server

\* With one connection to a link, and messages from which ndef-decode tells what
\* they were made of: what the server leaves in its file is nothing or all of the
\* message the peer it served wanted it to have (of a text file: its lines joined),
\* unless a phone cut its PUT off within the header.  It holds wherever the thread
\* was cancelled, with any write failing, for any texts, any messages, any parts a
\* phone may send of them and any MIU up to 261.
THEOREM StoredIsIntact ==
    ASSUME NEW k, Conns = {k}, RoundTrip
    PROVE  Spec => []StoredIntact
  <1>1. Init => Filed(k)
    BY DEF Init, Filed, Running
  <1>2. IInv /\ Filed(k) /\ [Next]_vars => Filed(k)'
    BY FileNext
  <1>3. IInv /\ Filed(k) => StoredIntact
    <2> SUFFICES ASSUME IInv, Filed(k), link = "down", file # <<>>
                 PROVE  decodeNDEFMessage(file) = content[k] \/ Short(buffer[k])
      BY DEF StoredIntact
    <2>1. Requested(k)
      BY DEF IInv, ConnInv, Untouched, Filed
    <2>2. PICK e \in Made : request[k] = Frame(e[1]) /\ content[k] = e[2]
      BY <2>1 DEF Requested
    <2>3. ~Short(buffer[k]) => file = e[1]
      BY <2>2, MadeAreMessages, StoredPart DEF Filed, Kept
    <2>4. QED BY <2>2, <2>3 DEF RoundTrip
  <1>4. QED BY <1>1, <1>2, <1>3, Invariance, PTL DEF Spec
=============================================================================
