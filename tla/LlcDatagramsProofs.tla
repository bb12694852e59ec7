------------------------- MODULE LlcDatagramsProofs -------------------------
(***************************************************************************)
(* Proofs about LlcDatagrams: requests are dispatched in the order they    *)
(* were made, no request is answered twice, every answer is true, and the  *)
(* variables keep their types, for any table, services, peers and bounds;  *)
(* and what a peer announces is what the link knows of it, through the     *)
(* bytes of the list and whatever else is in the queue.                    *)
(***************************************************************************)
EXTENDS LlcDatagrams, SequenceTheorems, FiniteSetTheorems, TLAPS

\* Of some natural numbers one is the least: the sets of those up to each are
\* finite, and one of these sets has none of the others within it.
LEMMA LeastNatural ==
    ASSUME NEW S, S \subseteq Nat, S # {}
    PROVE  \E m \in S : \A n \in S : m <= n
  <1> DEFINE UpTo(n) == {x \in Nat : x \in S /\ x <= n}
             All == {UpTo(n) : n \in S}
  <1>1. All \subseteq FiniteSubsetsOf(Nat) /\ All # {}
    <2>1. ASSUME NEW n \in Nat
          PROVE  UpTo(n) \in SUBSET Nat /\ IsFiniteSet(UpTo(n))
      <3>1. \A x \in UpTo(n) : x <= n
        OBVIOUS
      <3>2. UpTo(n) \in SUBSET Nat
        OBVIOUS
      <3> HIDE DEF UpTo
      <3>3. QED BY <3>1, <3>2, FS_BoundedSetOfNaturals
    <2>2. QED BY <2>1 DEF FiniteSubsetsOf
  <1>2. PICK X \in All : \A Y \in All : ~(<<Y, X>> \in StrictSubsetOrdering(Nat))
    <2> HIDE DEF All
    <2>1. IsWellFoundedOn(StrictSubsetOrdering(Nat), FiniteSubsetsOf(Nat))
      BY FS_StrictSubsetOrderingWellFounded
    <2>2. QED BY <1>1, <2>1, WFMin, Zenon
  <1>3. PICK m \in S : X = UpTo(m)
    OBVIOUS
  <1>4. ASSUME NEW n \in S, n < m
        PROVE  FALSE
    <2>0. n \in Nat /\ m \in Nat
      OBVIOUS
    <2>1. /\ UpTo(n) \subseteq UpTo(m) /\ UpTo(m) \subseteq Nat
          /\ m \in UpTo(m) /\ m \notin UpTo(n)
      BY <1>4, <2>0
    <2>2. UpTo(n) \in All
      OBVIOUS
    <2> HIDE DEF UpTo, All
    <2>3. <<UpTo(n), UpTo(m)>> \in StrictSubsetOrdering(Nat)
      BY <2>1 DEF StrictSubsetOrdering
    <2>4. QED BY <1>2, <1>3, <2>2, <2>3
  <1>5. QED BY <1>4

(***************************************************************************)
(* The messages: the requests a peer may ever make, the frames it sends    *)
(* them in, and the answers there are to them.                             *)
(***************************************************************************)
AnyRequest == UNION {Requests(n) : n \in Nat \ {0}}
AnyAnswer  == {Answer(r) : r \in {q \in AnyRequest : Answerable(q)}}
Lists      == Malformed \cup {llc_link_encode_parameters(p) : p \in Announcers}
Frame ==
       AnyRequest \cup {Symm}
  \cup {Pdu("AGF", 0, 0, rs) : rs \in Seq(AnyRequest)}
  \cup {Pdu("PAX", 0, 0, list) : list \in Lists}

TypeInv ==
  /\ sent \in Seq(AnyRequest) /\ \A k \in 1 .. Len(sent) : sent[k].n = k
  /\ up \in Seq(Frame) /\ urgent \in Seq(AnyRequest) /\ parts \in Seq(AnyRequest)
  /\ buf \in Frame \cup {None} /\ out \in AnyAnswer \cup {None}
  /\ down \in Seq(AnyAnswer) /\ got \in Seq(AnyAnswer)
  /\ slot \in 0 .. MaxSlot + 1
  /\ used \in [Slot -> BOOLEAN] /\ thread \in [Slot -> BOOLEAN]
  /\ linkUp \in [Slot -> Seq(AnyRequest)] /\ linkDown \in [Slot -> Seq(AnyAnswer)]
  /\ server \in [Slot -> {"none", "waiting", "working"}]
  /\ held \in [Slot -> AnyRequest \cup {None}]
  /\ dispatched \in Seq(Nat)

(***************************************************************************)
(* The requests on their way to the engine: in its buffer, put back, still *)
(* to be put back, and in the frames behind those.                         *)
(***************************************************************************)
SetOf(s) == {s[j] : j \in 1 .. Len(s)}
Carried(f) ==
  {r \in AnyRequest : \/ f.type = "AGF" /\ r \in SetOf(f.data)
                      \/ IsDatagram(f) /\ r = f}
UpSet   == UNION {Carried(up[j]) : j \in 1 .. Len(up)}
Waiting == Carried(buf) \cup SetOf(urgent) \cup SetOf(parts) \cup UpSet

Before(S, T)  == \A r \in S, q \in T : r.n < q.n
Increasing(s) == \A j, k \in 1 .. Len(s) : j < k => s[j].n < s[k].n
Sorted(f)     == f.type = "AGF" => Increasing(f.data)

\* The engine's hands are empty but between reception and dispatch, and while it
\* takes a frame apart; it takes a frame only when nothing is put back.
HandsInv ==
  /\ pc \in {"dispatch", "crashed"} \/ buf = None
  /\ pc = "aggregate" \/ parts = <<>>
  /\ buf.type = "AGF" => urgent = <<>>

(***************************************************************************)
(* The requests come in the order of their numbers: those dispatched, the  *)
(* one in the buffer, those put back, those to be put back, those behind.  *)
(***************************************************************************)
OrderInv ==
  /\ DispatchOrder
  /\ \A k \in 1 .. Len(dispatched) :
       dispatched[k] \in 1 .. Len(sent) /\ \A r \in Waiting : dispatched[k] < r.n
  /\ Before(Carried(buf), SetOf(urgent) \cup SetOf(parts) \cup UpSet)
  /\ Before(SetOf(urgent), SetOf(parts) \cup UpSet)
  /\ Before(SetOf(parts), UpSet)
  /\ \A j, k \in 1 .. Len(up) : j < k => Before(Carried(up[j]), Carried(up[k]))
  /\ Sorted(buf) /\ Increasing(urgent) /\ Increasing(parts)
  /\ \A j \in 1 .. Len(up) : Sorted(up[j])

(***************************************************************************)
(* What is under way is what the peer asked, and the answers are to that.  *)
(***************************************************************************)
Real(r)    == r.n \in 1 .. Len(sent) /\ sent[r.n] = r
Genuine(a) == /\ a.n \in 1 .. Len(sent)
              /\ Answerable(sent[a.n]) /\ a = Answer(sent[a.n])

RealInv ==
  /\ \A r \in Waiting : Real(r)
  /\ \A i \in Slot : /\ \A r \in SetOf(linkUp[i]) : Real(r)
                     /\ \A a \in SetOf(linkDown[i]) : Genuine(a)
                     /\ held[i] # None => Real(held[i])
  /\ out # None => Genuine(out)
  /\ \A a \in SetOf(down) \cup SetOf(got) : Genuine(a)

(***************************************************************************)
(* A request that was dispatched is in one place at most: with the service *)
(* of one slot, or, as an answer, in a slot's queue, in the engine's       *)
(* buffer, on its way to the peer or with the peer.                        *)
(***************************************************************************)
InSlot(i, n) ==
  \/ \E r \in SetOf(linkUp[i]) : r.n = n
  \/ \E a \in SetOf(linkDown[i]) : a.n = n
  \/ held[i] # None /\ held[i].n = n
SlotP(i) ==
  /\ Len(linkUp[i]) <= 1 /\ Len(linkDown[i]) <= 1
  /\ linkUp[i] = <<>> \/ linkDown[i] = <<>>
  /\ server[i] = "working" => linkUp[i] = <<>> /\ linkDown[i] = <<>>
  /\ server[i] = "waiting" => linkDown[i] = <<>>
  /\ server[i] # "working" => held[i] = None
  /\ server[i] # "none" => used[i] /\ thread[i]

Done(n) == \E k \in 1 .. Len(dispatched) : dispatched[k] = n
Told(n) == (\E a \in SetOf(down) : a.n = n) \/ (\E a \in SetOf(got) : a.n = n)
Distinct(s) == \A j, k \in 1 .. Len(s) : s[j].n = s[k].n => j = k

OnceInv ==
  /\ \A i \in Slot : SlotP(i)
  /\ \A i \in Slot, n \in Nat : InSlot(i, n) =>
       /\ Done(n) /\ ~Told(n) /\ (out # None => out.n # n)
       /\ \A j \in Slot : InSlot(j, n) => i = j
  /\ out # None => Done(out.n) /\ ~Told(out.n)
  /\ \A n \in Nat : Told(n) => Done(n)
  /\ Distinct(down) /\ Distinct(got)
  /\ \A a \in SetOf(down), b \in SetOf(got) : a.n # b.n
-----------------------------------------------------------------------------
\* The first free slot is a free slot; the next used one is not past the end.
LEMMA FirstFreeIsFree ==
    ASSUME Free # {}
    PROVE  FirstFree \in Slot /\ ~used[FirstFree]
  <1>1. Free \in SUBSET Nat
    BY DatagramsAssumption DEF Free, Slot
  <1>2. \E i \in Free : \A j \in Free : i <= j
    BY <1>1, LeastNatural
  <1>3. FirstFree \in Free
    BY <1>2 DEF FirstFree
  <1>4. QED BY <1>3 DEF Free

LEMMA NextUsedInRange ==
    ASSUME NEW inUse, NEW i \in 0 .. MaxSlot + 1
    PROVE  NextUsed(inUse, i) \in 0 .. MaxSlot + 1
  <1> DEFINE S == {k \in i .. MaxSlot + 1 : k <= MaxSlot => inUse[k]}
  <1>1. MaxSlot \in Nat
    BY DatagramsAssumption
  <1>2. S \in SUBSET Nat /\ MaxSlot + 1 \in S
    BY <1>1
  <1>3. PICK k \in S : \A n \in S : k <= n
    BY <1>2, LeastNatural
  <1>4. \A j \in i .. k - 1 : j \in i .. MaxSlot + 1 /\ j \notin S /\ j <= MaxSlot
    BY <1>1, <1>3
  <1>5. \E m \in i .. MaxSlot + 1 : /\ m <= MaxSlot => inUse[m]
                                    /\ \A j \in i .. m - 1 : ~inUse[j]
    BY <1>3, <1>4
  <1>6. NextUsed(inUse, i) \in i .. MaxSlot + 1
    BY <1>5 DEF NextUsed
  <1>7. QED BY <1>1, <1>6

(***************************************************************************)
(* Facts about the messages.                                               *)
(***************************************************************************)
LEMMA PduFields ==
    ASSUME NEW type, NEW sap, NEW n, NEW data
    PROVE  /\ Pdu(type, sap, n, data).type = type /\ Pdu(type, sap, n, data).sap = sap
           /\ Pdu(type, sap, n, data).n = n /\ Pdu(type, sap, n, data).data = data
  BY DEF Pdu

LEMMA RequestFacts ==
    /\ \A m \in Nat \ {0} : \A r \in Requests(m) : r.n = m /\ r \in AnyRequest
    /\ \A r \in AnyRequest :
         /\ r.n \in Nat \ {0} /\ r \in Requests(r.n)
         /\ r.type \in {"SNL", "UI"} /\ IsDatagram(r) /\ r # None
  <1>1. ASSUME NEW m \in Nat \ {0}, NEW r \in Requests(m)
        PROVE  r.n = m /\ r.type \in {"SNL", "UI"}
    BY PduFields DEF Requests
  <1>2. ASSUME NEW m \in Nat \ {0}, NEW r \in Requests(m) PROVE r \in AnyRequest
    BY DEF AnyRequest
  <1>3. ASSUME NEW r \in AnyRequest
        PROVE  /\ r.n \in Nat \ {0} /\ r \in Requests(r.n)
               /\ r.type \in {"SNL", "UI"}
    <2>1. PICK m \in Nat \ {0} : r \in Requests(m)
      BY DEF AnyRequest
    <2>2. QED BY <1>1, <2>1
  <1>4. None.type = "none"
    BY PduFields DEF None
  <1>5. QED BY <1>1, <1>2, <1>3, <1>4 DEF IsDatagram

LEMMA FrameFacts ==
    /\ None.type = "none" /\ Symm.type = "SYMM" /\ ~IsDatagram(None) /\ ~IsDatagram(Symm)
    /\ \A f \in Frame \cup {None} :
         /\ f.type = "AGF" => f.data \in Seq(AnyRequest)
         /\ IsDatagram(f) => f \in AnyRequest
  <1>1. None.type = "none" /\ Symm.type = "SYMM"
    BY PduFields DEF None, Symm
  <1>2. ASSUME NEW f \in {Pdu("AGF", 0, 0, rs) : rs \in Seq(AnyRequest)}
        PROVE  f.type = "AGF" /\ f.data \in Seq(AnyRequest)
    BY <1>2, PduFields
  <1>3. ASSUME NEW f \in {Pdu("PAX", 0, 0, list) : list \in Lists}
        PROVE  f.type = "PAX"
    BY <1>3, PduFields
  <1>4. QED BY <1>1, <1>2, <1>3, RequestFacts DEF Frame, IsDatagram

LEMMA AnswerFacts ==
    /\ \A r : Answer(r).n = r.n
    /\ \A a \in AnyAnswer : a.n \in Nat \ {0} /\ a # None
  <1>1. ASSUME NEW r PROVE Answer(r).n = r.n /\ Answer(r).type \in {"SNL", "UI"}
    BY PduFields DEF Answer
  <1>2. None.type = "none"
    BY FrameFacts
  <1>3. QED BY <1>1, <1>2, RequestFacts DEF AnyAnswer

LEMMA CarriedFacts ==
    /\ Carried(None) = {} /\ Carried(Symm) = {}
    /\ \A r \in AnyRequest : Carried(r) = {r} /\ Sorted(r)
    /\ \A f \in Frame \cup {None} : f.type = "AGF" => Carried(f) = SetOf(f.data)
    /\ \A f : f.type = "PAX" \/ f.type = "SYMM" => Carried(f) = {} /\ Sorted(f)
    /\ Sorted(None)
  <1>1. \A r \in AnyRequest : r.type \in {"SNL", "UI"} /\ IsDatagram(r)
    BY RequestFacts
  <1>2. \A f \in Frame \cup {None} : f.type = "AGF" => SetOf(f.data) \subseteq AnyRequest
    BY FrameFacts DEF SetOf
  <1>3. None.type = "none" /\ Symm.type = "SYMM"
    BY FrameFacts
  <1>4. \A r \in AnyRequest : Carried(r) = {r} /\ Sorted(r)
    BY <1>1 DEF Carried, Sorted
  <1>5. \A f \in Frame \cup {None} : f.type = "AGF" => Carried(f) = SetOf(f.data)
    BY <1>2 DEF Carried, IsDatagram
  <1>6. \A f : f.type = "PAX" \/ f.type = "SYMM" \/ f.type = "none" => Carried(f) = {} /\ Sorted(f)
    BY DEF Carried, Sorted, IsDatagram
  <1>7. QED BY <1>3, <1>4, <1>5, <1>6

(***************************************************************************)
(* The queues as sets and in order.                                        *)
(***************************************************************************)
LEMMA Appended ==
    ASSUME NEW S, NEW s \in Seq(S), NEW x \in S
    PROVE  /\ Append(s, x) \in Seq(S) /\ Len(Append(s, x)) = Len(s) + 1 /\ Len(s) \in Nat
           /\ \A j \in 1 .. Len(s) : Append(s, x)[j] = s[j]
           /\ Append(s, x)[Len(s) + 1] = x
           /\ SetOf(Append(s, x)) = SetOf(s) \cup {x}
  <1>1. /\ Append(s, x) \in Seq(S) /\ Len(Append(s, x)) = Len(s) + 1 /\ Len(s) \in Nat
        /\ \A j \in 1 .. Len(s) : Append(s, x)[j] = s[j]
        /\ Append(s, x)[Len(s) + 1] = x
    OBVIOUS
  <1>2. \A j : j \in 1 .. Len(s) + 1 <=> j \in 1 .. Len(s) \/ j = Len(s) + 1
    BY <1>1
  <1>3. QED BY <1>1, <1>2 DEF SetOf

LEMMA HeadTaken ==
    ASSUME NEW S, NEW s \in Seq(S), s # <<>>
    PROVE  /\ Head(s) \in S /\ Tail(s) \in Seq(S) /\ Len(Tail(s)) = Len(s) - 1
           /\ Len(s) \in Nat /\ Len(s) >= 1 /\ Head(s) = s[1]
           /\ \A j \in 1 .. Len(s) - 1 : Tail(s)[j] = s[j + 1] /\ j + 1 \in 1 .. Len(s)
           /\ SetOf(s) = {Head(s)} \cup SetOf(Tail(s))
  <1>1. /\ Head(s) \in S /\ Tail(s) \in Seq(S) /\ Len(Tail(s)) = Len(s) - 1
        /\ Len(s) \in Nat /\ Len(s) >= 1 /\ Head(s) = s[1]
        /\ \A j \in 1 .. Len(s) - 1 : Tail(s)[j] = s[j + 1] /\ j + 1 \in 1 .. Len(s)
    OBVIOUS
  <1>2. \A j \in 1 .. Len(s) : j = 1 \/ (j - 1 \in 1 .. Len(s) - 1 /\ Tail(s)[j - 1] = s[j])
    <2>1. ASSUME NEW j \in 1 .. Len(s), j # 1
          PROVE  j - 1 \in 1 .. Len(s) - 1 /\ (j - 1) + 1 = j
      BY <1>1, <2>1
    <2>2. QED BY <1>1, <2>1
  <1>3. QED BY <1>1, <1>2 DEF SetOf

LEMMA SortedQueues ==
    ASSUME NEW s \in Seq(AnyRequest), Increasing(s)
    PROVE  /\ s # <<>> => Increasing(Tail(s)) /\ Before({Head(s)}, SetOf(Tail(s)))
           /\ \A x \in AnyRequest : Before(SetOf(s), {x}) => Increasing(Append(s, x))
  <1>1. ASSUME s # <<>> PROVE Increasing(Tail(s)) /\ Before({Head(s)}, SetOf(Tail(s)))
    <2>1. /\ Len(Tail(s)) = Len(s) - 1 /\ Len(s) \in Nat /\ Len(s) >= 1 /\ Head(s) = s[1]
          /\ \A j \in 1 .. Len(s) - 1 : Tail(s)[j] = s[j + 1] /\ j + 1 \in 1 .. Len(s)
      BY <1>1, HeadTaken
    <2>2. Increasing(Tail(s))
      BY <2>1 DEF Increasing
    <2>3. \A j \in 1 .. Len(s) - 1 : s[1].n < Tail(s)[j].n
      BY <2>1 DEF Increasing
    <2>4. QED BY <2>1, <2>2, <2>3 DEF Before, SetOf
  <1>2. ASSUME NEW x \in AnyRequest, Before(SetOf(s), {x}) PROVE Increasing(Append(s, x))
    <2>1. /\ Len(Append(s, x)) = Len(s) + 1 /\ Len(s) \in Nat
          /\ \A j \in 1 .. Len(s) : Append(s, x)[j] = s[j]
          /\ Append(s, x)[Len(s) + 1] = x
      BY Appended
    <2>2. \A j \in 1 .. Len(s) : s[j].n < x.n
      BY <1>2 DEF Before, SetOf
    <2>3. QED BY <2>1, <2>2 DEF Increasing
  <1>3. QED BY <1>1, <1>2
-----------------------------------------------------------------------------
(***************************************************************************)
(* What the peer's steps do: requests are added to those made, and a frame *)
(* with those to the queue.                                                *)
(***************************************************************************)
Extends == /\ Len(sent) <= Len(sent')
           /\ \A k \in 1 .. Len(sent) : sent'[k] = sent[k]
Fresh(f) == \A r \in Carried(f) : r.n \in Len(sent) + 1 .. Len(sent') /\ sent'[r.n] = r

LEMMA MacStep ==
    ASSUME TypeInv, Mac
    PROVE  /\ sent' \in Seq(AnyRequest) /\ \A k \in 1 .. Len(sent') : sent'[k].n = k
           /\ Extends
           /\ \E f \in Frame : up' = Append(up, f) /\ Fresh(f) /\ Sorted(f)
           /\ UNCHANGED <<urgent, down, engine, table, queues, serve, fault, got>>
  <1>1. sent \in Seq(AnyRequest) /\ Len(sent) \in Nat /\ \A k \in 1 .. Len(sent) : sent[k].n = k
    BY DEF TypeInv
  <1>2. ASSUME NEW f \in Frame, f.type \in {"PAX", "SYMM"}, Carry(f), UNCHANGED sent
        PROVE  /\ sent' \in Seq(AnyRequest) /\ \A k \in 1 .. Len(sent') : sent'[k].n = k
               /\ Extends /\ up' = Append(up, f) /\ Fresh(f) /\ Sorted(f)
               /\ UNCHANGED <<urgent, down, engine, table, queues, serve, fault, got>>
    <2>1. Carried(f) = {} /\ Sorted(f)
      BY <1>2, CarriedFacts
    <2>2. QED BY <1>1, <1>2, <2>1 DEF Extends, Fresh, Carry
  <1>3. CASE PeerIdle
    <2>1. Symm \in Frame /\ Symm.type = "SYMM"
      BY FrameFacts DEF Frame
    <2>2. QED BY <1>2, <1>3, <2>1 DEF PeerIdle, peer
  <1>4. CASE PeerAnnounces
    <2>1. ASSUME NEW list \in Lists
          PROVE  Pdu("PAX", 0, 0, list) \in Frame /\ Pdu("PAX", 0, 0, list).type = "PAX"
      BY PduFields DEF Frame
    <2>2. PICK list \in Lists : Carry(Pdu("PAX", 0, 0, list)) /\ UNCHANGED sent
      BY <1>4 DEF PeerAnnounces, Lists
    <2>3. QED BY <1>2, <2>1, <2>2
  <1>5. CASE PeerAsks
    <2>1. PICK r \in Requests(Len(sent) + 1) : sent' = Append(sent, r) /\ Carry(r)
      BY <1>5 DEF PeerAsks
    <2>2. r \in AnyRequest /\ r.n = Len(sent) + 1 /\ Carried(r) = {r} /\ Sorted(r) /\ r \in Frame
      BY <1>1, RequestFacts, CarriedFacts DEF Frame
    <2>3. /\ sent' \in Seq(AnyRequest) /\ Len(sent') = Len(sent) + 1
          /\ \A k \in 1 .. Len(sent) : sent'[k] = sent[k]
          /\ sent'[Len(sent) + 1] = r
      BY <1>1, <2>1, <2>2
    <2>4. \A k \in 1 .. Len(sent') : sent'[k].n = k
      BY <1>1, <2>2, <2>3
    <2>5. Extends /\ Fresh(r)
      BY <1>1, <2>2, <2>3 DEF Extends, Fresh
    <2>6. QED BY <2>1, <2>2, <2>3, <2>4, <2>5 DEF Carry
  <1>6. CASE PeerAggregates
    <2>0. PICK k \in 1 .. MaxFrame :
              \E rs \in [1 .. k -> UNION {Requests(Len(sent) + j) : j \in 1 .. k}] :
                  /\ \A j \in 1 .. k : rs[j].n = Len(sent) + j
                  /\ sent' = sent \o rs
                  /\ Carry(Pdu("AGF", 0, 0, rs))
      BY <1>6 DEF PeerAggregates
    <2>1. PICK rs \in [1 .. k -> UNION {Requests(Len(sent) + j) : j \in 1 .. k}] :
              /\ \A j \in 1 .. k : rs[j].n = Len(sent) + j
              /\ sent' = sent \o rs
              /\ Carry(Pdu("AGF", 0, 0, rs))
      BY <2>0
    <2>2. k \in Nat
      BY DatagramsAssumption
    <2>3. \A j \in 1 .. k : rs[j] \in AnyRequest
      <3>1. \A j \in 1 .. k : Len(sent) + j \in Nat \ {0}
        BY <1>1, <2>2
      <3>2. ASSUME NEW j \in 1 .. k PROVE rs[j] \in AnyRequest
        <4>1. PICK i \in 1 .. k : rs[j] \in Requests(Len(sent) + i)
          OBVIOUS
        <4>2. QED BY <3>1, <4>1, RequestFacts
      <3>3. QED BY <3>2
    <2>4. rs \in Seq(AnyRequest) /\ Len(rs) = k
      BY <2>2, <2>3
    <2>5. /\ sent' \in Seq(AnyRequest) /\ Len(sent') = Len(sent) + k
          /\ \A j \in 1 .. Len(sent) : sent'[j] = sent[j]
          /\ \A j \in 1 .. k : sent'[Len(sent) + j] = rs[j]
      BY <1>1, <2>1, <2>2, <2>4
    <2>6. \A j \in 1 .. Len(sent') : sent'[j].n = j
      <3>1. ASSUME NEW j \in 1 .. Len(sent'), j > Len(sent) PROVE sent'[j].n = j
        <4>1. j - Len(sent) \in 1 .. k /\ Len(sent) + (j - Len(sent)) = j
          BY <1>1, <2>2, <2>5, <3>1
        <4>2. QED BY <2>1, <2>5, <4>1
      <3>2. ASSUME NEW j \in 1 .. Len(sent'), ~(j > Len(sent)) PROVE sent'[j].n = j
        <4>1. j \in 1 .. Len(sent)
          BY <1>1, <2>5, <3>2
        <4>2. QED BY <1>1, <2>5, <4>1
      <3>3. QED BY <3>1, <3>2
    <2> DEFINE f == Pdu("AGF", 0, 0, rs)
    <2>7. f.type = "AGF" /\ f.data = rs /\ f \in Frame
      BY <2>4, PduFields DEF Frame
    <2>8. Carried(f) = SetOf(rs)
      BY <2>7, CarriedFacts
    <2>9. Fresh(f)
      BY <1>1, <2>1, <2>2, <2>4, <2>5, <2>8 DEF Fresh, SetOf
    <2>10. Sorted(f)
      <3>1. \A j \in 1 .. k : rs[j].n = Len(sent) + j
        BY <2>1
      <3>2. Increasing(rs)
        BY <1>1, <2>2, <2>4, <3>1 DEF Increasing
      <3>3. QED BY <2>7, <3>2 DEF Sorted
    <2>11. Extends
      BY <1>1, <2>2, <2>5 DEF Extends
    <2>12. QED BY <2>1, <2>5, <2>6, <2>7, <2>9, <2>10, <2>11 DEF Carry
  <1>7. QED BY <1>3, <1>4, <1>5, <1>6 DEF Mac

-----------------------------------------------------------------------------
(***************************************************************************)
(* The types.                                                              *)
(***************************************************************************)
LEMMA TypeInit == Init => TypeInv
  BY DatagramsAssumption DEF Init, TypeInv, Slot

LEMMA TypeNext == ASSUME TypeInv, [Next]_vars PROVE TypeInv'
  <1>0. MaxSlot \in Nat /\ \A i \in Slot : i \in 0 .. MaxSlot + 1 /\ i + 1 \in 0 .. MaxSlot + 1
    BY DatagramsAssumption DEF Slot
  <1>1. CASE Mac
    <2>1. /\ sent' \in Seq(AnyRequest) /\ \A k \in 1 .. Len(sent') : sent'[k].n = k
          /\ UNCHANGED <<urgent, down, engine, table, queues, serve, fault, got>>
      BY <1>1, MacStep
    <2>2. PICK f \in Frame : up' = Append(up, f)
      BY <1>1, MacStep
    <2>3. up' \in Seq(Frame)
      BY <2>2 DEF TypeInv
    <2>4. QED BY <2>1, <2>3 DEF TypeInv, engine, table, queues, serve
  <1>2. CASE PeerReceives
    BY <1>2 DEF PeerReceives, TypeInv, peer, engine, table, queues, serve
  <1>3. CASE Receive
    <2>1. AnyRequest \subseteq Frame
      BY DEF Frame
    <2>2. up \in Seq(Frame) /\ urgent \in Seq(AnyRequest)
      BY DEF TypeInv
    <2>3. up' \in Seq(Frame) /\ urgent' \in Seq(AnyRequest) /\ buf' \in Frame
      BY <1>3, <2>1, <2>2, HeadTaken DEF Receive
    <2>4. QED BY <1>3, <2>3 DEF Receive, TypeInv, peer, table, queues, serve
  <1>4. CASE Symmetry \/ Configure \/ AllPutBack \/ Ignore
    <2>1. buf.type \in {"SNL", "UI"} => buf.n \in Nat
      BY FrameFacts, RequestFacts DEF TypeInv, IsDatagram
    <2>2. 0 \in 0 .. MaxSlot + 1
      BY <1>0
    <2>3. NextUsed(used, 0) \in 0 .. MaxSlot + 1
      BY <2>2, NextUsedInRange
    <2>4. CASE Symmetry
      BY <2>3, <2>4 DEF Symmetry, Sweep, TypeInv, peer, table, queues, serve
    <2>5. CASE Configure
      BY <2>3, <2>5 DEF Configure, Sweep, TypeInv, peer, table, queues, serve
    <2>6. CASE AllPutBack
      BY <2>3, <2>6 DEF AllPutBack, Sweep, TypeInv, peer, table, queues, serve
    <2>7. CASE Ignore
      BY <2>1, <2>3, <2>7 DEF Ignore, IsDatagram, Sweep, TypeInv, peer, table, queues, serve
    <2>8. QED BY <1>4, <2>4, <2>5, <2>6, <2>7
  <1>5. CASE Disaggregate
    <2>1. buf.data \in Seq(AnyRequest)
      BY <1>5, FrameFacts DEF Disaggregate, TypeInv
    <2>2. QED BY <1>5, <2>1 DEF Disaggregate, TypeInv, peer, table, queues, serve
  <1>6. CASE PutBack
    BY <1>6 DEF PutBack, TypeInv, peer, table, queues, serve
  <1>7. CASE Spawn
    <2>1. buf \in AnyRequest /\ buf.n \in Nat /\ FirstFree \in Slot
      BY <1>7, FrameFacts, RequestFacts, FirstFreeIsFree DEF Spawn, TypeInv
    <2>2. 0 \in 0 .. MaxSlot + 1
      BY <1>0
    <2>3. slot' \in 0 .. MaxSlot + 1
      BY <1>7, <2>2, NextUsedInRange DEF Spawn, Sweep
    <2>4. used' \in [Slot -> BOOLEAN] /\ thread' \in [Slot -> BOOLEAN]
      BY <1>7 DEF Spawn, TypeInv
    <2>5. /\ linkUp' \in [Slot -> Seq(AnyRequest)] /\ linkDown' \in [Slot -> Seq(AnyAnswer)]
          /\ server' \in [Slot -> {"none", "waiting", "working"}]
      <3>1. PICK i \in Slot :
                /\ linkUp' = [linkUp EXCEPT ![i] = <<buf>>]
                /\ linkDown' = [linkDown EXCEPT ![i] = <<>>]
                /\ server' = [server EXCEPT ![i] = "waiting"] \/ UNCHANGED server
        BY <1>7, <2>1 DEF Spawn
      <3>2. <<buf>> \in Seq(AnyRequest) /\ <<>> \in Seq(AnyAnswer)
        BY <2>1
      <3>3. QED BY <3>1, <3>2 DEF TypeInv
    <2>6. QED BY <1>7, <2>1, <2>3, <2>4, <2>5 DEF Spawn, Sweep, TypeInv, peer
  <1>8. CASE TakeAnswer \/ PassQuiet \/ EndOfTable
    <2>1. slot <= MaxSlot => slot \in Slot
      BY <1>0 DEF TypeInv, Slot
    <2>2. CASE TakeAnswer
      <3>1. /\ linkDown[slot] \in Seq(AnyAnswer) /\ linkDown[slot] # <<>> /\ slot \in Slot
            /\ linkDown' = [linkDown EXCEPT ![slot] = Tail(@)]
        BY <2>1, <2>2 DEF TakeAnswer, TypeInv
      <3>2. /\ Head(linkDown[slot]) \in AnyAnswer /\ Tail(linkDown[slot]) \in Seq(AnyAnswer)
        BY <3>1
      <3>3. linkDown' \in [Slot -> Seq(AnyAnswer)]
        BY <3>1, <3>2 DEF TypeInv
      <3>4. out' \in AnyAnswer \cup {None} /\ slot' \in 0 .. MaxSlot + 1
        BY <1>0, <2>2, <3>2 DEF TakeAnswer, SweepConnections
      <3>5. QED BY <2>2, <3>3, <3>4 DEF TakeAnswer, TypeInv, peer, table, serve
    <2>3. CASE PassQuiet
      <3>1. slot \in Slot /\ slot' = NextUsed(used, slot + 1) /\ slot + 1 \in 0 .. MaxSlot + 1
        BY <1>0, <2>1, <2>3 DEF PassQuiet
      <3>2. slot' \in 0 .. MaxSlot + 1
        BY <3>1, NextUsedInRange
      <3>3. used' \in [Slot -> BOOLEAN] /\ linkUp' \in [Slot -> Seq(AnyRequest)]
        BY <2>3, <3>1 DEF PassQuiet, TypeInv
      <3>4. QED BY <2>3, <3>2, <3>3 DEF PassQuiet, TypeInv, peer, serve
    <2>4. CASE EndOfTable
      BY <1>0, <2>4 DEF EndOfTable, SweepConnections, TypeInv, peer, table, queues, serve
    <2>5. QED BY <1>8, <2>2, <2>3, <2>4
  <1>9. CASE Send
    <2>1. down' \in Seq(AnyAnswer) /\ out' = None
      <3>1. down' = down \/ (out \in AnyAnswer /\ down' = Append(down, out))
        BY <1>9 DEF Send, TypeInv
      <3>2. down \in Seq(AnyAnswer) /\ out' = None
        BY <1>9 DEF Send, TypeInv
      <3>3. QED BY <3>1, <3>2
    <2>2. QED BY <1>9, <2>1 DEF Send, TypeInv, peer, table, queues, serve
  <1>10. ASSUME NEW i \in Slot, Server(i) PROVE TypeInv'
    <2>1. CASE ServerReceives(i)
      BY <2>1 DEF ServerReceives, TypeInv, peer, engine, table
    <2>2. ASSUME SdpAnswers(i) \/ EchoAnswers(i)
          PROVE  Answerable(held[i]) => Answer(held[i]) \in AnyAnswer
      <3>1. server[i] = "working" /\ held[i].sap \in {SdpSap, EchoSap}
        BY <2>2 DEF SdpAnswers, EchoAnswers
      <3>2. None.sap = 0
        BY PduFields DEF None
      <3>3. EchoSap # 0 /\ SdpSap # 0
        BY DatagramsAssumption DEF SdpSap
      <3>4. held[i] \in AnyRequest
        BY <3>1, <3>2, <3>3 DEF TypeInv
      <3>5. QED BY <3>4 DEF AnyAnswer
    <2>3. CASE SdpAnswers(i)
      <3>1. linkDown' \in [Slot -> Seq(AnyAnswer)]
        BY <2>2, <2>3 DEF SdpAnswers, TypeInv
      <3>2. QED BY <2>3, <3>1 DEF SdpAnswers, Stops, TypeInv, peer, engine, table
    <2>4. CASE EchoAnswers(i)
      <3>1. Answerable(held[i])
        BY <2>4 DEF EchoAnswers, Answerable
      <3>2. down' \in Seq(AnyAnswer)
        BY <2>2, <2>4, <3>1 DEF EchoAnswers, TypeInv
      <3>3. QED BY <2>4, <3>2 DEF EchoAnswers, Stops, TypeInv, peer, engine, table, queues
    <2>5. QED BY <1>10, <2>1, <2>3, <2>4 DEF Server
  <1>11. CASE UNCHANGED vars
    BY <1>11 DEF TypeInv, vars, peer, engine, table, queues, serve
  <1>12. QED
    BY <1>1, <1>2, <1>3, <1>4, <1>5, <1>6, <1>7, <1>8, <1>9, <1>10, <1>11 DEF Next, Engine

-----------------------------------------------------------------------------
(***************************************************************************)
(* The engine's hands.                                                     *)
(***************************************************************************)
LEMMA HandsNext == ASSUME TypeInv, HandsInv, [Next]_vars PROVE HandsInv'
  <1>0. /\ None.type # "AGF" /\ (\A r \in AnyRequest : r.type # "AGF")
        /\ pc = "sweep" => buf = None /\ parts = <<>>
        /\ pc = "send" => buf = None /\ parts = <<>>
        /\ pc = "receive" => buf = None /\ parts = <<>>
        /\ pc = "dispatch" => parts = <<>>
        /\ pc = "aggregate" => buf = None
    BY FrameFacts, RequestFacts DEF HandsInv
  <1>1. CASE Mac
    BY <1>1, MacStep DEF HandsInv, engine
  <1>2. CASE Receive
    <2>1. urgent # <<>> => Head(urgent) \in AnyRequest
      BY HeadTaken DEF TypeInv
    <2>2. QED BY <1>0, <1>2, <2>1 DEF Receive, HandsInv
  <1>3. CASE Symmetry \/ Configure \/ AllPutBack \/ Ignore \/ Spawn
    BY <1>0, <1>3 DEF Symmetry, Configure, AllPutBack, Ignore, Spawn, Sweep, HandsInv
  <1>4. CASE Disaggregate \/ PutBack
    BY <1>0, <1>4 DEF Disaggregate, PutBack, HandsInv
  <1>5. CASE TakeAnswer \/ PassQuiet \/ EndOfTable \/ Send
    BY <1>0, <1>5 DEF TakeAnswer, PassQuiet, EndOfTable, Send, SweepConnections, HandsInv
  <1>6. CASE PeerReceives \/ \E i \in Slot : Server(i)
    BY <1>6 DEF PeerReceives, Server, ServerReceives, SdpAnswers, EchoAnswers, engine, HandsInv
  <1>7. CASE UNCHANGED vars
    BY <1>7 DEF HandsInv, vars, engine
  <1>8. QED BY <1>1, <1>2, <1>3, <1>4, <1>5, <1>6, <1>7 DEF Next, Engine

-----------------------------------------------------------------------------
(***************************************************************************)
(* The frames behind, when one is added and when one is taken.             *)
(***************************************************************************)
LEMMA FrameAdded ==
    ASSUME TypeInv, NEW f \in Frame, up' = Append(up, f)
    PROVE  UpSet' = UpSet \cup Carried(f)
  <1>1. /\ Len(up') = Len(up) + 1 /\ Len(up) \in Nat
        /\ \A j \in 1 .. Len(up) : up'[j] = up[j]
        /\ up'[Len(up) + 1] = f
    BY Appended DEF TypeInv
  <1>2. \A j : j \in 1 .. Len(up') <=> j \in 1 .. Len(up) \/ j = Len(up) + 1
    BY <1>1
  <1>3. QED BY <1>1, <1>2 DEF UpSet

LEMMA FrameTaken ==
    ASSUME TypeInv, up # <<>>, up' = Tail(up)
    PROVE  /\ Head(up) \in Frame /\ 1 \in 1 .. Len(up) /\ Head(up) = up[1]
           /\ \A j \in 1 .. Len(up') : /\ up'[j] = up[j + 1]
                                       /\ j + 1 \in 1 .. Len(up) /\ 1 < j + 1
           /\ Len(up') \in Nat
           /\ UpSet = Carried(Head(up)) \cup UpSet'
  <1>1. /\ Head(up) \in Frame /\ Len(up') = Len(up) - 1
        /\ Len(up) \in Nat /\ Len(up) >= 1 /\ Head(up) = up[1]
        /\ \A j \in 1 .. Len(up) - 1 : up'[j] = up[j + 1] /\ j + 1 \in 1 .. Len(up)
    BY HeadTaken DEF TypeInv
  <1>2. \A j \in 1 .. Len(up) : j = 1 \/ (j - 1 \in 1 .. Len(up') /\ up'[j - 1] = up[j])
    <2>1. ASSUME NEW j \in 1 .. Len(up), j # 1
          PROVE  j - 1 \in 1 .. Len(up') /\ (j - 1) + 1 = j
      BY <1>1, <2>1
    <2>2. QED BY <1>1, <2>1
  <1>3. UpSet = Carried(Head(up)) \cup UpSet'
    BY <1>1, <1>2 DEF UpSet
  <1>4. QED BY <1>1, <1>3

\* No step but the peer's adds to what waits for the engine, and what it adds has
\* the next numbers.
LEMMA WaitingNext ==
    ASSUME TypeInv, HandsInv, [Next]_vars
    PROVE  /\ Extends /\ Len(sent') \in Nat /\ Len(sent) \in Nat
           /\ \A r \in Waiting' \ Waiting : r.n \in Len(sent) + 1 .. Len(sent') /\ sent'[r.n] = r
  <1>0. Len(sent) \in Nat
    BY DEF TypeInv
  <1>1. CASE Mac
    <2>1. Extends /\ sent' \in Seq(AnyRequest) /\ UNCHANGED <<urgent, engine>>
      BY <1>1, MacStep
    <2>2. PICK f \in Frame : up' = Append(up, f) /\ Fresh(f)
      BY <1>1, MacStep
    <2>3. UpSet' = UpSet \cup Carried(f)
      BY <2>2, FrameAdded
    <2>4. Waiting' \ Waiting \subseteq Carried(f)
      BY <2>1, <2>3 DEF Waiting, engine
    <2>5. QED BY <1>0, <2>1, <2>2, <2>4 DEF Fresh
  <1>2. ASSUME sent' = sent, Waiting' \subseteq Waiting
        PROVE  /\ Extends /\ Len(sent') \in Nat /\ Len(sent) \in Nat
               /\ \A r \in Waiting' \ Waiting :
                     r.n \in Len(sent) + 1 .. Len(sent') /\ sent'[r.n] = r
    BY <1>0, <1>2 DEF Extends
  <1>3. CASE Receive
    <2>1. sent' = sent /\ parts' = parts /\ Carried(buf) \cup {} \subseteq Carried(buf)
      BY <1>3 DEF Receive, peer
    <2>2. CASE urgent # <<>>
      <3>1. /\ Head(urgent) \in AnyRequest /\ SetOf(urgent) = {Head(urgent)} \cup SetOf(Tail(urgent))
        BY <2>2, HeadTaken DEF TypeInv
      <3>2. buf' = Head(urgent) /\ urgent' = Tail(urgent) /\ up' = up
        BY <1>3, <2>2 DEF Receive
      <3>3. Carried(buf') \subseteq SetOf(urgent) /\ SetOf(urgent') \subseteq SetOf(urgent) /\ UpSet' = UpSet
        BY <3>1, <3>2, CarriedFacts DEF UpSet
      <3>4. Waiting' \subseteq Waiting
        BY <2>1, <3>3 DEF Waiting
      <3>5. QED BY <1>2, <2>1, <3>4
    <2>3. CASE urgent = <<>>
      <3>1. up # <<>> /\ buf' = Head(up) /\ up' = Tail(up) /\ urgent' = urgent
        BY <1>3, <2>3 DEF Receive
      <3>2. UpSet = Carried(buf') \cup UpSet'
        BY <3>1, FrameTaken
      <3>3. Waiting' \subseteq Waiting
        BY <2>1, <3>1, <3>2 DEF Waiting
      <3>4. QED BY <1>2, <2>1, <3>3
    <2>4. QED BY <2>2, <2>3
  <1>4. CASE Disaggregate
    <2>1. /\ buf.type = "AGF" /\ parts' = buf.data /\ buf' = None
          /\ UNCHANGED <<sent, up, urgent>>
      BY <1>4 DEF Disaggregate, peer
    <2>2. Carried(buf) = SetOf(parts') /\ Carried(buf') = {}
      BY <2>1, CarriedFacts DEF TypeInv
    <2>3. Waiting' \subseteq Waiting
      BY <2>1, <2>2 DEF Waiting, UpSet
    <2>4. QED BY <1>2, <2>1, <2>3
  <1>5. CASE PutBack
    <2>1. /\ parts # <<>> /\ parts' = Tail(parts) /\ UNCHANGED <<sent, up, buf>>
          /\ urgent' = urgent \/ urgent' = Append(urgent, Head(parts))
      BY <1>5 DEF PutBack, peer
    <2>2. Head(parts) \in AnyRequest /\ SetOf(parts) = {Head(parts)} \cup SetOf(parts')
      BY <2>1, HeadTaken DEF TypeInv
    <2>3. SetOf(urgent') \subseteq SetOf(urgent) \cup {Head(parts)}
      <3>1. urgent \in Seq(AnyRequest)
        BY DEF TypeInv
      <3>2. SetOf(Append(urgent, Head(parts))) = SetOf(urgent) \cup {Head(parts)}
        BY <2>2, <3>1, Appended
      <3>3. QED BY <2>1, <3>2
    <2>4. Waiting' \subseteq Waiting
      BY <2>1, <2>2, <2>3 DEF Waiting, UpSet
    <2>5. QED BY <1>2, <2>1, <2>4
  <1>6. CASE Symmetry \/ Configure \/ AllPutBack \/ Ignore \/ Spawn
    <2>1. (buf' = None \/ buf' = buf) /\ UNCHANGED <<sent, up, urgent, parts>>
      BY <1>6 DEF Symmetry, Configure, AllPutBack, Ignore, Spawn, Sweep, peer
    <2>2. Carried(buf') \subseteq Carried(buf)
      BY <2>1, CarriedFacts
    <2>3. Waiting' \subseteq Waiting
      BY <2>1, <2>2 DEF Waiting, UpSet
    <2>4. QED BY <1>2, <2>1, <2>3
  <1>7. CASE UNCHANGED <<sent, up, urgent, buf, parts>>
    <2>1. Waiting' = Waiting
      BY <1>7 DEF Waiting, UpSet
    <2>2. QED BY <1>2, <1>7, <2>1
  <1>8. CASE TakeAnswer \/ PassQuiet \/ EndOfTable \/ Send \/ PeerReceives \/ \E i \in Slot : Server(i)
    BY <1>7, <1>8 DEF TakeAnswer, PassQuiet, EndOfTable, Send, PeerReceives,
       Server, ServerReceives, SdpAnswers, EchoAnswers, peer, engine
  <1>9. CASE UNCHANGED vars
    BY <1>7, <1>9 DEF vars, peer, engine
  <1>10. QED BY <1>1, <1>3, <1>4, <1>5, <1>6, <1>8, <1>9 DEF Next, Engine

-----------------------------------------------------------------------------
(***************************************************************************)
(* The order of the requests.                                              *)
(***************************************************************************)
LEMMA OrderInit == Init => HandsInv /\ OrderInv
  <1> SUFFICES ASSUME Init PROVE HandsInv /\ OrderInv
    OBVIOUS
  <1>1. /\ urgent = <<>> /\ parts = <<>> /\ up = <<>> /\ dispatched = <<>> /\ buf = None
        /\ Len(<<>>) = 0 /\ None.type = "none"
    BY FrameFacts DEF Init
  <1>2. SetOf(urgent) = {} /\ SetOf(parts) = {} /\ UpSet = {} /\ Carried(buf) = {}
    BY <1>1, CarriedFacts DEF SetOf, UpSet
  <1>3. Increasing(urgent) /\ Increasing(parts) /\ Sorted(buf)
    BY <1>1 DEF Increasing, Sorted
  <1>4. HandsInv
    BY <1>1 DEF HandsInv
  <1>5. QED BY <1>1, <1>2, <1>3, <1>4 DEF OrderInv, Before, DispatchOrder

\* Numbers that are added after those made so far keep the order.
LEMMA OrderMac == ASSUME TypeInv, HandsInv, RealInv, OrderInv, Mac PROVE OrderInv'
  <1>1. Extends /\ sent' \in Seq(AnyRequest) /\ UNCHANGED <<urgent, engine>>
    BY MacStep
  <1>2. PICK f \in Frame : up' = Append(up, f) /\ Fresh(f) /\ Sorted(f)
    BY MacStep
  <1>3. UpSet' = UpSet \cup Carried(f)
    BY <1>2, FrameAdded
  <1>4. /\ Len(up') = Len(up) + 1 /\ Len(up) \in Nat
        /\ \A j \in 1 .. Len(up) : up'[j] = up[j]
        /\ up'[Len(up) + 1] = f
    BY <1>2, Appended DEF TypeInv
  <1>5. Len(sent) \in Nat /\ Len(sent') \in Nat /\ Len(sent) <= Len(sent')
    BY <1>1 DEF TypeInv, Extends
  <1>6. UNCHANGED <<buf, parts, urgent, dispatched>>
    BY <1>1 DEF engine
  <1>7. \A r \in Carried(f) : r.n \in Nat /\ r.n > Len(sent)
    BY <1>2, <1>5 DEF Fresh
  <1>8. \A r \in Waiting : r.n \in Nat /\ r.n <= Len(sent)
    BY <1>5 DEF RealInv, Real
  <1>9. \A S : S \subseteq Waiting => Before(S, Carried(f))
    BY <1>5, <1>7, <1>8 DEF Before
  <1>10. /\ Before(Carried(buf), Carried(f)) /\ Before(SetOf(urgent), Carried(f))
         /\ Before(SetOf(parts), Carried(f))
         /\ \A j \in 1 .. Len(up) : Before(Carried(up[j]), Carried(f))
    BY <1>9 DEF Waiting, UpSet
  <1>11. /\ Before(Carried(buf), SetOf(urgent) \cup SetOf(parts) \cup UpSet)'
         /\ Before(SetOf(urgent), SetOf(parts) \cup UpSet)'
         /\ Before(SetOf(parts), UpSet)'
    BY <1>3, <1>6, <1>10 DEF OrderInv, Before
  <1>12. \A j, k \in 1 .. Len(up') : j < k => Before(Carried(up'[j]), Carried(up'[k]))
    <2> TAKE j, k \in 1 .. Len(up')
    <2> HAVE j < k
    <2>1. j \in 1 .. Len(up) /\ (k \in 1 .. Len(up) \/ k = Len(up) + 1)
      BY <1>4
    <2>2. QED BY <1>4, <1>10, <2>1 DEF OrderInv
  <1>13. \A j \in 1 .. Len(up') : Sorted(up'[j])
    <2> TAKE j \in 1 .. Len(up')
    <2>1. j \in 1 .. Len(up) \/ j = Len(up) + 1
      BY <1>4
    <2>2. QED BY <1>2, <1>4, <2>1 DEF OrderInv
  <1>14. \A k \in 1 .. Len(dispatched) :
            dispatched[k] \in 1 .. Len(sent') /\ \A r \in Waiting' : dispatched[k] < r.n
    <2> TAKE k \in 1 .. Len(dispatched)
    <2>1. dispatched[k] \in 1 .. Len(sent) /\ \A r \in Waiting : dispatched[k] < r.n
      BY DEF OrderInv
    <2>2. Waiting' = Waiting \cup Carried(f)
      BY <1>3, <1>6 DEF Waiting
    <2>3. QED BY <1>5, <1>7, <2>1, <2>2
  <1>15. QED BY <1>6, <1>11, <1>12, <1>13, <1>14 DEF OrderInv, DispatchOrder

\* What is taken out of the buffer, dispatched or not, has been the first.
LEMMA OrderDispatch ==
    ASSUME TypeInv, OrderInv, pc = "dispatch" \/ pc = "aggregate",
           buf' = None \/ buf' = buf, UNCHANGED <<sent, up, urgent, parts>>,
           \/ dispatched' = dispatched
           \/ IsDatagram(buf) /\ buf' = None /\ dispatched' = Append(dispatched, buf.n)
              /\ buf.n \in 1 .. Len(sent)
    PROVE  OrderInv'
  <1>1. Carried(None) = {} /\ Sorted(None)
    BY CarriedFacts
  <1>2. UpSet' = UpSet
    BY DEF UpSet
  <1>3. Carried(buf') \subseteq Carried(buf) /\ Sorted(buf')
    BY <1>1 DEF OrderInv
  <1>4. /\ Before(Carried(buf), SetOf(urgent) \cup SetOf(parts) \cup UpSet)'
        /\ Before(SetOf(urgent), SetOf(parts) \cup UpSet)'
        /\ Before(SetOf(parts), UpSet)'
    BY <1>2, <1>3 DEF OrderInv, Before
  <1>5. Waiting' \subseteq Waiting
    BY <1>2, <1>3 DEF Waiting
  <1>6. CASE dispatched' = dispatched
    <2>1. DispatchOrder' /\ \A k \in 1 .. Len(dispatched') :
            dispatched'[k] \in 1 .. Len(sent') /\ \A r \in Waiting' : dispatched'[k] < r.n
      BY <1>5, <1>6 DEF OrderInv, DispatchOrder
    <2>2. QED BY <1>3, <1>4, <2>1 DEF OrderInv
  <1>7. CASE IsDatagram(buf) /\ buf' = None /\ dispatched' = Append(dispatched, buf.n)
             /\ buf.n \in 1 .. Len(sent)
    <2>1. buf \in AnyRequest /\ buf.n \in Nat
      BY <1>7, FrameFacts, RequestFacts DEF TypeInv
    <2>2. Carried(buf) = {buf} /\ buf \in Waiting
      BY <2>1, CarriedFacts DEF Waiting
    <2>3. /\ Len(dispatched') = Len(dispatched) + 1 /\ Len(dispatched) \in Nat
          /\ \A k \in 1 .. Len(dispatched) : dispatched'[k] = dispatched[k]
          /\ dispatched'[Len(dispatched) + 1] = buf.n
      BY <1>7, <2>1 DEF TypeInv
    <2>4. \A k \in 1 .. Len(dispatched) : dispatched[k] < buf.n
      BY <2>2 DEF OrderInv
    <2>5. DispatchOrder'
      <3> SUFFICES ASSUME NEW j \in 1 .. Len(dispatched'), NEW k \in 1 .. Len(dispatched'), j < k
                   PROVE  dispatched'[j] < dispatched'[k]
        BY DEF DispatchOrder
      <3>1. j \in 1 .. Len(dispatched) /\ (k \in 1 .. Len(dispatched) \/ k = Len(dispatched) + 1)
        BY <2>3
      <3>2. QED BY <2>3, <2>4, <3>1 DEF OrderInv, DispatchOrder
    <2>6. Waiting' = SetOf(urgent) \cup SetOf(parts) \cup UpSet
      BY <1>1, <1>2, <1>7 DEF Waiting
    <2>7. \A r \in Waiting' : buf.n < r.n
      BY <2>2, <2>6 DEF OrderInv, Before
    <2>8. ASSUME NEW k \in 1 .. Len(dispatched')
          PROVE  dispatched'[k] \in 1 .. Len(sent') /\ \A r \in Waiting' : dispatched'[k] < r.n
      <3>1. k \in 1 .. Len(dispatched) \/ k = Len(dispatched) + 1
        BY <2>3
      <3>2. CASE k \in 1 .. Len(dispatched)
        BY <1>5, <2>3, <3>2 DEF OrderInv
      <3>3. CASE k = Len(dispatched) + 1
        BY <1>7, <2>3, <2>7, <3>3
      <3>4. QED BY <3>1, <3>2, <3>3
    <2>9. QED BY <1>3, <1>4, <2>5, <2>8 DEF OrderInv
  <1>8. QED BY <1>6, <1>7

\* The engine takes the first one.
LEMMA OrderReceive == ASSUME TypeInv, HandsInv, OrderInv, Receive PROVE OrderInv'
  <1>0. /\ urgent \in Seq(AnyRequest) /\ parts = <<>> /\ buf = None
        /\ UNCHANGED <<sent, parts, dispatched>>
        /\ SetOf(parts) = {} /\ Carried(buf) = {}
    BY CarriedFacts DEF TypeInv, HandsInv, Receive, peer, SetOf
  <1>1. CASE urgent # <<>>
    <2>1. buf' = Head(urgent) /\ urgent' = Tail(urgent) /\ up' = up
      BY <1>1 DEF Receive
    <2>2. /\ Head(urgent) \in AnyRequest /\ SetOf(urgent) = {Head(urgent)} \cup SetOf(urgent')
          /\ Increasing(urgent') /\ Before({Head(urgent)}, SetOf(urgent'))
      BY <1>0, <1>1, <2>1, HeadTaken, SortedQueues DEF OrderInv
    <2>3. Carried(buf') = {Head(urgent)} /\ Sorted(buf') /\ UpSet' = UpSet
      BY <2>1, <2>2, CarriedFacts DEF UpSet
    <2>4. /\ Before(Carried(buf), SetOf(urgent) \cup SetOf(parts) \cup UpSet)'
          /\ Before(SetOf(urgent), SetOf(parts) \cup UpSet)'
          /\ Before(SetOf(parts), UpSet)'
      BY <1>0, <2>2, <2>3 DEF OrderInv, Before
    <2>5. Waiting' \subseteq Waiting
      BY <1>0, <2>2, <2>3 DEF Waiting
    <2>6. QED BY <1>0, <2>1, <2>2, <2>3, <2>4, <2>5 DEF OrderInv, DispatchOrder
  <1>2. CASE urgent = <<>>
    <2>1. up # <<>> /\ buf' = Head(up) /\ up' = Tail(up) /\ urgent' = urgent
      BY <1>2 DEF Receive
    <2>2. /\ 1 \in 1 .. Len(up) /\ Head(up) = up[1]
          /\ \A j \in 1 .. Len(up') : /\ up'[j] = up[j + 1]
                                      /\ j + 1 \in 1 .. Len(up) /\ 1 < j + 1
          /\ Len(up') \in Nat
          /\ UpSet = Carried(buf') \cup UpSet'
      BY <2>1, FrameTaken
    <2>3. SetOf(urgent) = {}
      BY <1>2 DEF SetOf
    <2>4. Before(Carried(buf'), UpSet')
      <3>1. \A j \in 1 .. Len(up') : Before(Carried(up[1]), Carried(up'[j]))
        BY <2>2 DEF OrderInv
      <3>2. QED BY <2>1, <2>2, <3>1 DEF Before, UpSet
    <2>5. /\ Before(Carried(buf), SetOf(urgent) \cup SetOf(parts) \cup UpSet)'
          /\ Before(SetOf(urgent), SetOf(parts) \cup UpSet)'
          /\ Before(SetOf(parts), UpSet)'
      BY <1>0, <2>1, <2>3, <2>4 DEF Before
    <2>6. \A j, k \in 1 .. Len(up') : j < k => Before(Carried(up'[j]), Carried(up'[k]))
      <3> TAKE j, k \in 1 .. Len(up')
      <3> HAVE j < k
      <3>1. j + 1 < k + 1
        BY <2>2
      <3>2. QED BY <2>2, <3>1 DEF OrderInv
    <2>7. Sorted(buf') /\ \A j \in 1 .. Len(up') : Sorted(up'[j])
      BY <2>1, <2>2 DEF OrderInv
    <2>8. Waiting' \subseteq Waiting
      BY <1>0, <2>1, <2>2 DEF Waiting
    <2>9. QED BY <1>0, <2>1, <2>5, <2>6, <2>7, <2>8 DEF OrderInv, DispatchOrder
  <1>3. QED BY <1>1, <1>2

\* Nothing is put back when a frame is taken apart, and its PDUs are put back in
\* their order or lost.
LEMMA OrderDisaggregate ==
    ASSUME TypeInv, HandsInv, OrderInv, Disaggregate \/ PutBack
    PROVE  OrderInv'
  <1>1. CASE Disaggregate
    <2>1. /\ buf.type = "AGF" /\ parts' = buf.data /\ buf' = None /\ parts = <<>>
          /\ UNCHANGED <<sent, up, urgent, dispatched>> /\ urgent = <<>>
      BY <1>1 DEF Disaggregate, HandsInv, peer
    <2>2. Carried(buf) = SetOf(parts') /\ Carried(buf') = {} /\ Sorted(buf')
      BY <2>1, CarriedFacts DEF TypeInv
    <2>3. SetOf(urgent') = {} /\ UpSet' = UpSet
      BY <2>1 DEF SetOf, UpSet
    <2>4. Increasing(parts')
      BY <2>1 DEF OrderInv, Sorted
    <2>5. /\ Before(Carried(buf), SetOf(urgent) \cup SetOf(parts) \cup UpSet)'
          /\ Before(SetOf(urgent), SetOf(parts) \cup UpSet)'
          /\ Before(SetOf(parts), UpSet)'
      BY <2>2, <2>3 DEF OrderInv, Before
    <2>6. Waiting' \subseteq Waiting
      BY <2>2, <2>3 DEF Waiting
    <2>7. QED BY <2>1, <2>2, <2>4, <2>5, <2>6 DEF OrderInv, DispatchOrder
  <1>2. CASE PutBack
    <2>1. /\ parts # <<>> /\ parts' = Tail(parts)
          /\ UNCHANGED <<sent, up, buf, dispatched>> /\ buf = None
          /\ urgent' = urgent \/ urgent' = Append(urgent, Head(parts))
      BY <1>2 DEF PutBack, HandsInv, peer
    <2>2. urgent \in Seq(AnyRequest) /\ parts \in Seq(AnyRequest)
      BY DEF TypeInv
    <2>3. /\ Head(parts) \in AnyRequest /\ SetOf(parts) = {Head(parts)} \cup SetOf(parts')
          /\ Increasing(parts') /\ Before({Head(parts)}, SetOf(parts'))
      BY <2>1, <2>2, HeadTaken, SortedQueues DEF OrderInv
    <2>4. Before(SetOf(urgent), {Head(parts)})
      BY <2>3 DEF OrderInv, Before
    <2>5. Increasing(urgent') /\ SetOf(urgent') \subseteq SetOf(urgent) \cup {Head(parts)}
      <3>0. Increasing(urgent)
        BY DEF OrderInv
      <3>1. /\ Increasing(Append(urgent, Head(parts)))
            /\ SetOf(Append(urgent, Head(parts))) = SetOf(urgent) \cup {Head(parts)}
        <4>1. Increasing(Append(urgent, Head(parts)))
          BY <2>2, <2>3, <2>4, <3>0, SortedQueues
        <4>2. SetOf(Append(urgent, Head(parts))) = SetOf(urgent) \cup {Head(parts)}
          BY <2>2, <2>3, Appended
        <4>3. QED BY <4>1, <4>2
      <3>2. QED BY <2>1, <3>0, <3>1
    <2>6. UpSet' = UpSet /\ Carried(buf') = {}
      BY <2>1, CarriedFacts DEF UpSet
    <2>7. /\ Before(Carried(buf), SetOf(urgent) \cup SetOf(parts) \cup UpSet)'
          /\ Before(SetOf(urgent), SetOf(parts) \cup UpSet)'
          /\ Before(SetOf(parts), UpSet)'
      BY <2>3, <2>5, <2>6 DEF OrderInv, Before
    <2>8. Waiting' \subseteq Waiting
      BY <2>3, <2>5, <2>6 DEF Waiting
    <2>9. QED BY <2>1, <2>3, <2>5, <2>7, <2>8 DEF OrderInv, DispatchOrder
  <1>3. QED BY <1>1, <1>2

LEMMA OrderNext ==
    ASSUME TypeInv, HandsInv, RealInv, OrderInv, [Next]_vars
    PROVE  OrderInv'
  <1>1. CASE Symmetry \/ Configure \/ AllPutBack \/ Ignore \/ Spawn
    <2>1. IsDatagram(buf) => buf.n \in 1 .. Len(sent)
      <3>1. IsDatagram(buf) => buf \in Waiting
        BY FrameFacts, CarriedFacts DEF TypeInv, Waiting
      <3>2. QED BY <3>1 DEF RealInv, Real
    <2>2. /\ pc = "dispatch" \/ pc = "aggregate"
          /\ buf' = None \/ buf' = buf
          /\ UNCHANGED <<sent, up, urgent, parts>>
      BY <1>1 DEF Symmetry, Configure, AllPutBack, Ignore, Spawn, Sweep, peer
    <2>3. \/ dispatched' = dispatched
          \/ IsDatagram(buf) /\ buf' = None /\ dispatched' = Append(dispatched, buf.n)
      BY <1>1 DEF Symmetry, Configure, AllPutBack, Ignore, Spawn, Sweep
    <2>4. QED BY <2>1, <2>2, <2>3, OrderDispatch
  <1>2. CASE UNCHANGED <<sent, up, urgent, buf, parts, dispatched>>
    BY <1>2 DEF OrderInv, DispatchOrder, Waiting, UpSet
  <1>3. CASE TakeAnswer \/ PassQuiet \/ EndOfTable \/ Send \/ PeerReceives \/ \E i \in Slot : Server(i)
    BY <1>2, <1>3 DEF TakeAnswer, PassQuiet, EndOfTable, Send, PeerReceives,
       Server, ServerReceives, SdpAnswers, EchoAnswers, peer, engine
  <1>4. CASE UNCHANGED vars
    BY <1>2, <1>4 DEF vars, peer, engine
  <1>5. QED BY <1>1, <1>3, <1>4, OrderMac, OrderReceive, OrderDisaggregate DEF Next, Engine

-----------------------------------------------------------------------------
(***************************************************************************)
(* The truth of what is under way.                                         *)
(***************************************************************************)
LEMMA StaysReal ==
    ASSUME TypeInv, Extends, Len(sent') \in Nat
    PROVE  /\ \A r : Real(r) => Real(r)'
           /\ \A a : Genuine(a) => Genuine(a)'
  <1>1. Len(sent) \in Nat
    BY DEF TypeInv
  <1>2. \A k \in 1 .. Len(sent) : k \in 1 .. Len(sent') /\ sent'[k] = sent[k]
    BY <1>1 DEF Extends
  <1>3. QED BY <1>2 DEF Real, Genuine

LEMMA RealInit == Init => RealInv
  <1> SUFFICES ASSUME Init PROVE RealInv
    OBVIOUS
  <1>1. /\ urgent = <<>> /\ parts = <<>> /\ up = <<>> /\ buf = None /\ out = None
        /\ down = <<>> /\ got = <<>> /\ Len(<<>>) = 0
        /\ \A i \in Slot : linkUp[i] = <<>> /\ linkDown[i] = <<>> /\ held[i] = None
    BY DEF Init
  <1>2. Waiting = {}
    BY <1>1, CarriedFacts DEF Waiting, SetOf, UpSet
  <1>3. QED BY <1>1, <1>2 DEF RealInv, SetOf

\* The service thread of a slot: what it holds is a request, and its answer is true.
LEMMA ServiceAnswers ==
    ASSUME TypeInv, RealInv, NEW i \in Slot, SdpAnswers(i) \/ EchoAnswers(i),
           Answerable(held[i])
    PROVE  /\ held[i] # None /\ held[i] \in AnyRequest
           /\ Answer(held[i]) \in AnyAnswer /\ Genuine(Answer(held[i]))
           /\ Answer(held[i]).n = held[i].n
  <1>1. held[i].sap \in {SdpSap, EchoSap}
    BY DEF SdpAnswers, EchoAnswers
  <1>2. None.sap = 0
    BY PduFields DEF None
  <1>3. EchoSap # 0 /\ SdpSap # 0
    BY DatagramsAssumption DEF SdpSap
  <1>4. held[i] # None /\ held[i] \in AnyRequest
    BY <1>1, <1>2, <1>3 DEF TypeInv
  <1>5. Real(held[i])
    BY <1>4 DEF RealInv
  <1>6. Answer(held[i]).n = held[i].n
    BY AnswerFacts
  <1>7. Genuine(Answer(held[i]))
    BY <1>5, <1>6 DEF Real, Genuine
  <1>8. QED BY <1>4, <1>6, <1>7 DEF AnyAnswer

LEMMA RealNext ==
    ASSUME TypeInv, TypeInv', HandsInv, RealInv, [Next]_vars
    PROVE  RealInv'
  <1>1. /\ Extends /\ Len(sent') \in Nat /\ Len(sent) \in Nat
        /\ \A r \in Waiting' \ Waiting : r.n \in Len(sent) + 1 .. Len(sent') /\ sent'[r.n] = r
    BY WaitingNext
  <1>2. /\ \A r : Real(r) => Real(r)'
        /\ \A a : Genuine(a) => Genuine(a)'
    BY <1>1, StaysReal
  <1>3. \A r \in Waiting' : Real(r)'
    <2> TAKE r \in Waiting'
    <2>1. CASE r \in Waiting
      BY <1>2, <2>1 DEF RealInv
    <2>2. CASE r \notin Waiting
      BY <1>1, <2>2 DEF Real
    <2>3. QED BY <2>1, <2>2
  <1> DEFINE SlotsReal == \A i \in Slot :
                 /\ \A r \in SetOf(linkUp[i]) : Real(r)
                 /\ \A a \in SetOf(linkDown[i]) : Genuine(a)
                 /\ held[i] # None => Real(held[i])
  <1> DEFINE OutReal == out # None => Genuine(out)
  <1> DEFINE EndReal == \A a \in SetOf(down) \cup SetOf(got) : Genuine(a)
  <1>4. SlotsReal /\ EndReal /\ OutReal
    BY DEF RealInv
  <1>5. SetOf(<<>>) = {}
    BY DEF SetOf
  <1>6. UNCHANGED <<linkUp, linkDown, held>> => SlotsReal'
    BY <1>2, <1>4
  <1>7. UNCHANGED <<down, got>> => EndReal'
    BY <1>2, <1>4
  <1>8. out' = out \/ out' = None => OutReal'
    BY <1>2, <1>4
  <1>9. SlotsReal' /\ EndReal' /\ OutReal'
    <2>1. CASE Mac
      BY <1>6, <1>7, <1>8, <2>1, MacStep DEF engine, queues, serve
    <2>2. CASE Receive \/ Symmetry \/ Configure \/ Disaggregate \/ PutBack \/ AllPutBack \/ Ignore
      BY <1>6, <1>7, <1>8, <2>2 DEF Receive, Symmetry, Configure, Disaggregate, PutBack,
         AllPutBack, Ignore, Sweep, queues, serve
    <2>3. CASE Spawn
      <3>1. buf \in AnyRequest /\ FirstFree \in Slot
        BY <2>3, FrameFacts, FirstFreeIsFree DEF Spawn, TypeInv
      <3>2. PICK i \in Slot : /\ linkUp' = [linkUp EXCEPT ![i] = <<buf>>]
                              /\ linkDown' = [linkDown EXCEPT ![i] = <<>>]
        BY <2>3, <3>1 DEF Spawn
      <3>3. Real(buf) /\ SetOf(<<buf>>) = {buf}
        <4>1. buf \in Waiting
          BY <3>1, CarriedFacts DEF Waiting
        <4>2. QED BY <4>1 DEF RealInv, SetOf
      <3>4. UNCHANGED <<down, got, held>> /\ out' = None
        BY <2>3 DEF Spawn, Sweep
      <3>5. \A j \in Slot : /\ linkUp'[j] = linkUp[j] \/ linkUp'[j] = <<buf>>
                            /\ linkDown'[j] = linkDown[j] \/ linkDown'[j] = <<>>
        BY <3>2 DEF TypeInv
      <3>6. SlotsReal'
        BY <1>2, <1>4, <1>5, <3>3, <3>4, <3>5
      <3>7. QED BY <1>7, <1>8, <3>4, <3>6
    <2>4. CASE TakeAnswer
      <3>1. /\ slot \in Slot /\ linkDown[slot] \in Seq(AnyAnswer) /\ linkDown[slot] # <<>>
            /\ linkDown' = [linkDown EXCEPT ![slot] = Tail(@)]
            /\ out' = None \/ out' = Head(linkDown[slot])
            /\ UNCHANGED <<down, got, linkUp, held>>
        BY <2>4, DatagramsAssumption DEF TakeAnswer, SweepConnections, TypeInv, Slot, serve
      <3>2. SetOf(linkDown[slot]) = {Head(linkDown[slot])} \cup SetOf(Tail(linkDown[slot]))
        BY <3>1, HeadTaken
      <3>3. \A j \in Slot : SetOf(linkDown'[j]) \subseteq SetOf(linkDown[j])
        BY <3>1, <3>2 DEF TypeInv
      <3>4. SlotsReal'
        BY <1>2, <1>4, <3>1, <3>3
      <3>5. QED BY <1>2, <1>4, <1>7, <3>1, <3>2, <3>4
    <2>5. CASE PassQuiet
      <3>1. /\ slot \in Slot /\ UNCHANGED <<down, got, linkDown, held, out>>
            /\ linkUp' = [linkUp EXCEPT ![slot] = IF thread[slot] THEN @ ELSE <<>>]
        BY <2>5, DatagramsAssumption DEF PassQuiet, TypeInv, Slot, serve
      <3>2. \A j \in Slot : linkUp'[j] = linkUp[j] \/ linkUp'[j] = <<>>
        BY <3>1 DEF TypeInv
      <3>3. SlotsReal'
        BY <1>2, <1>4, <1>5, <3>1, <3>2
      <3>4. QED BY <1>7, <1>8, <3>1, <3>3
    <2>6. CASE EndOfTable
      BY <1>6, <1>7, <1>8, <2>6 DEF EndOfTable, SweepConnections, queues, serve
    <2>7. CASE Send
      <3>1. /\ UNCHANGED <<got, linkUp, linkDown, held>> /\ out' = None
            /\ down' = down \/ (out # None /\ down' = Append(down, out))
        BY <2>7 DEF Send, queues, serve
      <3>2. down \in Seq(AnyAnswer) /\ (out # None => out \in AnyAnswer)
        BY DEF TypeInv
      <3>3. out # None => SetOf(Append(down, out)) = SetOf(down) \cup {out}
        BY <3>2, Appended
      <3>4. EndReal'
        <4>1. \A a \in SetOf(down') : a \in SetOf(down) \/ (a = out /\ out # None)
          BY <3>1, <3>3
        <4>2. SetOf(got') = SetOf(got)
          BY <3>1
        <4>3. QED BY <1>2, <1>4, <4>1, <4>2
      <3>5. QED BY <1>6, <1>8, <3>1, <3>4
    <2>8. CASE PeerReceives
      <3>1. /\ down # <<>> /\ got' = Append(got, Head(down)) /\ down' = Tail(down)
            /\ UNCHANGED <<linkUp, linkDown, held, out>>
        BY <2>8 DEF PeerReceives, engine, queues, serve
      <3>2. down \in Seq(AnyAnswer) /\ got \in Seq(AnyAnswer)
        BY DEF TypeInv
      <3>3. Head(down) \in AnyAnswer /\ SetOf(down) = {Head(down)} \cup SetOf(down')
        BY <3>1, <3>2, HeadTaken
      <3>4. SetOf(got') = SetOf(got) \cup {Head(down)}
        BY <3>1, <3>2, <3>3, Appended
      <3>5. EndReal'
        BY <1>2, <1>4, <3>3, <3>4
      <3>6. QED BY <1>6, <1>8, <3>1, <3>5
    <2>9. ASSUME NEW i \in Slot, Server(i) PROVE SlotsReal' /\ EndReal' /\ OutReal'
      <3>1. CASE ServerReceives(i)
        <4>1. /\ linkUp[i] # <<>> /\ linkUp[i] \in Seq(AnyRequest)
              /\ held' = [held EXCEPT ![i] = Head(linkUp[i])]
              /\ linkUp' = [linkUp EXCEPT ![i] = Tail(@)]
              /\ UNCHANGED <<down, got, linkDown, out>>
          BY <3>1 DEF ServerReceives, TypeInv, engine
        <4>2. SetOf(linkUp[i]) = {Head(linkUp[i])} \cup SetOf(Tail(linkUp[i]))
          BY <4>1, HeadTaken
        <4>3. \A j \in Slot : /\ SetOf(linkUp'[j]) \subseteq SetOf(linkUp[j])
                              /\ held'[j] = held[j] \/ held'[j] \in SetOf(linkUp[j])
          BY <4>1, <4>2 DEF TypeInv
        <4>4. SlotsReal'
          BY <1>2, <1>4, <4>1, <4>3
        <4>5. QED BY <1>7, <1>8, <4>1, <4>4
      <3>2. CASE SdpAnswers(i)
        <4>1. /\ linkDown' = [linkDown EXCEPT ![i] =
                               IF Answerable(held[i]) THEN Append(@, Answer(held[i])) ELSE @]
              /\ held' = [held EXCEPT ![i] = None]
              /\ UNCHANGED <<down, got, linkUp, out>>
          BY <3>2 DEF SdpAnswers, Stops, engine
        <4>2. Answerable(held[i]) =>
                /\ Genuine(Answer(held[i]))
                /\ SetOf(Append(linkDown[i], Answer(held[i])))
                     = SetOf(linkDown[i]) \cup {Answer(held[i])}
          <5>1. ASSUME Answerable(held[i])
                PROVE  Genuine(Answer(held[i])) /\ Answer(held[i]) \in AnyAnswer
            BY <3>2, <5>1, ServiceAnswers
          <5>2. linkDown[i] \in Seq(AnyAnswer)
            BY DEF TypeInv
          <5>3. QED BY <5>1, <5>2, Appended
        <4>3. \A j \in Slot : /\ \A a \in SetOf(linkDown'[j]) : a \in SetOf(linkDown[j]) \/ Genuine(a)
                              /\ held'[j] = held[j] \/ held'[j] = None
          BY <4>1, <4>2 DEF TypeInv
        <4>4. SlotsReal'
          BY <1>2, <1>4, <4>1, <4>3
        <4>5. QED BY <1>7, <1>8, <4>1, <4>4
      <3>3. CASE EchoAnswers(i)
        <4>1. /\ Answerable(held[i]) /\ down' = Append(down, Answer(held[i]))
              /\ held' = [held EXCEPT ![i] = None]
              /\ UNCHANGED <<got, linkUp, linkDown, out>>
          BY <3>3 DEF EchoAnswers, Answerable, Stops, engine, queues
        <4>2. Genuine(Answer(held[i])) /\ SetOf(down') = SetOf(down) \cup {Answer(held[i])}
          BY <3>3, <4>1, ServiceAnswers, Appended DEF TypeInv
        <4>3. \A j \in Slot : held'[j] = held[j] \/ held'[j] = None
          BY <4>1 DEF TypeInv
        <4>4. SlotsReal' /\ EndReal'
          BY <1>2, <1>4, <4>1, <4>2, <4>3
        <4>5. QED BY <1>8, <4>1, <4>4
      <3>4. QED BY <2>9, <3>1, <3>2, <3>3 DEF Server
    <2>10. CASE UNCHANGED vars
      BY <1>6, <1>7, <1>8, <2>10 DEF vars, engine, queues, serve
    <2>11. QED
      BY <2>1, <2>2, <2>3, <2>4, <2>5, <2>6, <2>7, <2>8, <2>9, <2>10 DEF Next, Engine
  <1>10. QED BY <1>3, <1>9 DEF RealInv

-----------------------------------------------------------------------------
(***************************************************************************)
(* A request is in one place.                                              *)
(***************************************************************************)
LEMMA OnceInit == Init => OnceInv
  <1> SUFFICES ASSUME Init PROVE OnceInv
    OBVIOUS
  <1>1. /\ out = None /\ down = <<>> /\ got = <<>> /\ Len(<<>>) = 0 /\ SetOf(<<>>) = {}
        /\ \A i \in Slot : /\ linkUp[i] = <<>> /\ linkDown[i] = <<>> /\ held[i] = None
                           /\ server[i] = "none"
    BY DEF Init, SetOf
  <1>2. \A i \in Slot : SlotP(i) /\ \A n \in Nat : ~InSlot(i, n)
    BY <1>1 DEF SlotP, InSlot
  <1>3. \A n \in Nat : ~Told(n)
    BY <1>1 DEF Told
  <1>4. Distinct(down) /\ Distinct(got)
    BY <1>1 DEF Distinct
  <1>5. QED BY <1>1, <1>2, <1>3, <1>4 DEF OnceInv

SameSlot(j) ==
  /\ linkUp'[j] = linkUp[j] /\ linkDown'[j] = linkDown[j] /\ held'[j] = held[j]
  /\ server'[j] = server[j] /\ used'[j] = used[j] /\ thread'[j] = thread[j]

LEMMA SlotUntouched ==
    ASSUME NEW j, SameSlot(j)
    PROVE  (SlotP(j) => SlotP(j)') /\ \A n : InSlot(j, n)' => InSlot(j, n)
  BY DEF SameSlot, SlotP, InSlot

\* Dispatching only adds to what is dispatched.
LEMMA DoneStays == ASSUME TypeInv, [Next]_vars PROVE \A n : Done(n) => Done(n)'
  <1>1. CASE dispatched' = dispatched
    BY <1>1 DEF Done
  <1>2. CASE Ignore \/ Spawn
    <2>1. buf.n \in Nat /\ dispatched' = Append(dispatched, buf.n) /\ dispatched \in Seq(Nat)
      BY <1>2, FrameFacts, RequestFacts DEF Ignore, Spawn, TypeInv
    <2>2. /\ Len(dispatched') = Len(dispatched) + 1 /\ Len(dispatched) \in Nat
          /\ \A k \in 1 .. Len(dispatched) : dispatched'[k] = dispatched[k]
      BY <2>1
    <2>3. \A k \in 1 .. Len(dispatched) : k \in 1 .. Len(dispatched')
      BY <2>2
    <2>4. QED BY <2>2, <2>3 DEF Done
  <1>3. CASE Mac
    BY <1>1, <1>3, MacStep DEF engine
  <1>4. CASE Receive \/ Symmetry \/ Configure \/ Disaggregate \/ PutBack \/ AllPutBack
    BY <1>1, <1>4 DEF Receive, Symmetry, Configure, Disaggregate, PutBack, AllPutBack
  <1>5. CASE TakeAnswer \/ PassQuiet \/ EndOfTable \/ Send \/ PeerReceives \/ \E i \in Slot : Server(i)
    BY <1>1, <1>5 DEF TakeAnswer, PassQuiet, EndOfTable, Send, PeerReceives,
       Server, ServerReceives, SdpAnswers, EchoAnswers, engine
  <1>6. CASE UNCHANGED vars
    BY <1>1, <1>6 DEF vars, engine
  <1>7. QED BY <1>2, <1>3, <1>4, <1>5, <1>6 DEF Next, Engine

\* Nothing is said, and no slot gets anything.
LEMMA NothingNew ==
    ASSUME OnceInv, \A n : Done(n) => Done(n)',
           \A i \in Slot : SlotP(i)' /\ \A n \in Nat : InSlot(i, n)' => InSlot(i, n),
           UNCHANGED <<down, got>>, out' = out \/ out' = None
    PROVE  OnceInv'
  <1>1. \A n : Told(n)' <=> Told(n)
    BY DEF Told
  <1>2. \A i \in Slot, n \in Nat : InSlot(i, n)' =>
          /\ Done(n)' /\ ~Told(n)' /\ (out' # None => out'.n # n)
          /\ \A j \in Slot : InSlot(j, n)' => i = j
    BY <1>1 DEF OnceInv
  <1>3. (out # None => Done(out.n) /\ ~Told(out.n))'
    <2>1. ASSUME out' # None PROVE Done(out.n)' /\ ~Told(out.n)'
      <3>1. out' = out /\ Done(out.n) /\ ~Told(out.n)
        BY <2>1 DEF OnceInv
      <3>2. QED BY <1>1, <3>1
    <2>2. QED BY <2>1
  <1>4. (\A n \in Nat : Told(n)' => Done(n)') /\ Distinct(down') /\ Distinct(got')
    BY <1>1 DEF OnceInv
  <1>5. \A a \in SetOf(down'), b \in SetOf(got') : a.n # b.n
    BY DEF OnceInv
  <1>6. QED BY <1>2, <1>3, <1>4, <1>5 DEF OnceInv

\* One more answer is on its way to the peer, from where it was before.
LEMMA OneMoreTold ==
    ASSUME TypeInv, OnceInv, \A n : Done(n) => Done(n)',
           NEW a \in AnyAnswer, down' = Append(down, a), got' = got, out' \in {None, out},
           Done(a.n), ~Told(a.n), out' # None => out'.n # a.n,
           \A i \in Slot : /\ SlotP(i)'
                           /\ \A n \in Nat : InSlot(i, n)' => InSlot(i, n) /\ n # a.n
    PROVE  OnceInv'
  <1>1. down \in Seq(AnyAnswer) /\ got \in Seq(AnyAnswer) /\ a.n \in Nat
    BY AnswerFacts DEF TypeInv
  <1>2. /\ Len(down') = Len(down) + 1 /\ Len(down) \in Nat
        /\ \A j \in 1 .. Len(down) : down'[j] = down[j]
        /\ down'[Len(down) + 1] = a
        /\ SetOf(down') = SetOf(down) \cup {a}
    BY <1>1, Appended
  <1>3. \A n : Told(n)' <=> Told(n) \/ n = a.n
    BY <1>2 DEF Told
  <1>4. \A i \in Slot, n \in Nat : InSlot(i, n)' =>
          /\ Done(n)' /\ ~Told(n)' /\ (out' # None => out'.n # n)
          /\ \A j \in Slot : InSlot(j, n)' => i = j
    BY <1>3 DEF OnceInv
  <1>5. (out # None => Done(out.n) /\ ~Told(out.n))'
    <2>1. ASSUME out' # None PROVE Done(out.n)' /\ ~Told(out.n)'
      <3>1. out' = out /\ Done(out.n) /\ ~Told(out.n) /\ out.n # a.n
        BY <2>1 DEF OnceInv
      <3>2. QED BY <1>3, <3>1
    <2>2. QED BY <2>1
  <1>6. \A n \in Nat : Told(n)' => Done(n)'
    BY <1>3 DEF OnceInv
  <1>7. Distinct(down')
    <2>1. \A j \in 1 .. Len(down) : down[j].n # a.n
      BY DEF Told, SetOf
    <2>2. \A j \in 1 .. Len(down') : j \in 1 .. Len(down) \/ j = Len(down) + 1
      BY <1>2
    <2>3. QED BY <1>2, <2>1, <2>2 DEF OnceInv, Distinct
  <1>8. \A x \in SetOf(down'), y \in SetOf(got') : x.n # y.n
    BY <1>2 DEF OnceInv, Told
  <1>9. QED BY <1>4, <1>5, <1>6, <1>7, <1>8 DEF OnceInv

\* A service takes the request of its slot, and answers it or not.
LEMMA OnceServer ==
    ASSUME TypeInv, RealInv, OnceInv, \A n : Done(n) => Done(n)', NEW i \in Slot, Server(i)
    PROVE  OnceInv'
  <1>1. SlotP(i) /\ UNCHANGED <<got, out>>
    BY DEF OnceInv, Server, ServerReceives, SdpAnswers, EchoAnswers, engine
  <1>2. \A j \in Slot : j # i => SameSlot(j)
    BY DEF Server, ServerReceives, SdpAnswers, EchoAnswers, Stops, SameSlot, TypeInv, table, queues
  <1>3. \A j \in Slot : j # i => SlotP(j)' /\ \A n : InSlot(j, n)' => InSlot(j, n)
    BY <1>2, SlotUntouched DEF OnceInv
  <1>4. SetOf(<<>>) = {}
    BY DEF SetOf
  <1>5. /\ linkUp[i] \in Seq(AnyRequest) /\ linkDown[i] \in Seq(AnyAnswer)
        /\ Len(linkUp[i]) \in Nat
    BY DEF TypeInv
  <1>6. CASE ServerReceives(i)
    <2>1. /\ server[i] = "waiting" /\ linkUp[i] # <<>> /\ linkDown[i] = <<>>
          /\ held'[i] = Head(linkUp[i]) /\ linkUp'[i] = Tail(linkUp[i])
          /\ server'[i] = "working" /\ linkDown' = linkDown /\ UNCHANGED <<used, thread, down>>
      <3>1. /\ server[i] = "waiting" /\ linkUp[i] # <<>>
            /\ held' = [held EXCEPT ![i] = Head(linkUp[i])]
            /\ linkUp' = [linkUp EXCEPT ![i] = Tail(@)]
            /\ server' = [server EXCEPT ![i] = "working"]
            /\ linkDown' = linkDown /\ UNCHANGED <<used, thread, down>>
        BY <1>6 DEF ServerReceives, table
      <3>2. linkDown[i] = <<>>
        BY <1>1, <3>1 DEF SlotP
      <3>3. /\ held'[i] = Head(linkUp[i]) /\ linkUp'[i] = Tail(linkUp[i])
            /\ server'[i] = "working"
        <4>1. held \in [Slot -> AnyRequest \cup {None}] /\ i \in Slot
          BY DEF TypeInv
        <4>2. held'[i] = Head(linkUp[i])
          BY <3>1, <4>1
        <4>3. linkUp \in [Slot -> Seq(AnyRequest)] /\ i \in Slot
          BY DEF TypeInv
        <4>4. linkUp'[i] = Tail(linkUp[i])
          BY <3>1, <4>3
        <4>5. server \in [Slot -> {"none", "waiting", "working"}] /\ i \in Slot
          BY DEF TypeInv
        <4>6. server'[i] = "working"
          BY <3>1, <4>5
        <4>7. QED BY <4>2, <4>4, <4>6
      <3>4. QED BY <3>1, <3>2, <3>3
    <2>2. Head(linkUp[i]) \in SetOf(linkUp[i]) /\ Len(linkUp'[i]) = 0 /\ linkUp'[i] \in Seq(AnyRequest)
      <3>1. linkUp[i] \in Seq(AnyRequest) /\ linkUp[i] # <<>> /\ Len(linkUp[i]) <= 1
        BY <1>1, <1>5, <2>1 DEF SlotP
      <3>2. ASSUME NEW s \in Seq(AnyRequest), s # <<>>, Len(s) <= 1
            PROVE  Head(s) \in SetOf(s) /\ Len(Tail(s)) = 0 /\ Tail(s) \in Seq(AnyRequest)
        <4>1. /\ SetOf(s) = {Head(s)} \cup SetOf(Tail(s)) /\ Tail(s) \in Seq(AnyRequest)
              /\ Len(s) \in Nat /\ Len(s) >= 1 /\ Len(Tail(s)) = Len(s) - 1
          BY <3>2, HeadTaken
        <4>2. Len(Tail(s)) = 0
          BY <3>2, <4>1
        <4>3. QED BY <4>1, <4>2
      <3>3. QED BY <2>1, <3>1, <3>2
    <2>3. linkUp'[i] = <<>> /\ Len(<<>>) = 0
      BY <2>2
    <2>4. SlotP(i)'
      BY <1>1, <2>1, <2>3 DEF SlotP
    <2>5. \A n \in Nat : InSlot(i, n)' => InSlot(i, n)
      BY <1>4, <2>1, <2>2, <2>3 DEF InSlot
    <2>6. QED BY <1>1, <1>3, <2>1, <2>4, <2>5, NothingNew
  <1>7. ASSUME SdpAnswers(i) \/ EchoAnswers(i)
        PROVE  /\ server[i] = "working" /\ linkUp[i] = <<>> /\ linkDown[i] = <<>>
               /\ held'[i] = None /\ server'[i] = "none" /\ linkUp' = linkUp
               /\ UNCHANGED <<used, thread>>
    BY <1>1, <1>7 DEF SdpAnswers, EchoAnswers, Stops, SlotP, TypeInv, table, queues
  <1>8. CASE SdpAnswers(i)
    <2>1. /\ linkDown'[i] = IF Answerable(held[i]) THEN Append(<<>>, Answer(held[i])) ELSE <<>>
          /\ down' = down
      BY <1>7, <1>8 DEF SdpAnswers, TypeInv
    <2>2. CASE Answerable(held[i])
      <3>1. /\ held[i] # None /\ Answer(held[i]).n = held[i].n
        BY <1>8, <2>2, ServiceAnswers
      <3>2. linkDown'[i] = <<Answer(held[i])>> /\ Len(linkDown'[i]) = 1 /\ Len(<<>>) = 0
        BY <2>1, <2>2
      <3>3. SetOf(linkDown'[i]) = {Answer(held[i])}
        BY <3>2 DEF SetOf
      <3>4. SlotP(i)'
        BY <1>1, <1>7, <1>8, <3>2 DEF SlotP
      <3>5. \A n \in Nat : InSlot(i, n)' => InSlot(i, n)
        BY <1>4, <1>7, <1>8, <3>1, <3>3 DEF InSlot
      <3>6. QED BY <1>1, <1>3, <2>1, <3>4, <3>5, NothingNew
    <2>3. CASE ~Answerable(held[i])
      <3>1. linkDown'[i] = <<>> /\ Len(<<>>) = 0
        BY <2>1, <2>3
      <3>2. SlotP(i)'
        BY <1>1, <1>7, <1>8, <3>1 DEF SlotP
      <3>3. \A n \in Nat : InSlot(i, n)' => InSlot(i, n)
        BY <1>4, <1>7, <1>8, <3>1 DEF InSlot
      <3>4. QED BY <1>1, <1>3, <2>1, <3>2, <3>3, NothingNew
    <2>4. QED BY <2>2, <2>3
  <1>9. CASE EchoAnswers(i)
    <2>1. Answerable(held[i])
      BY <1>9 DEF EchoAnswers, Answerable
    <2> DEFINE a == Answer(held[i])
    <2>2. /\ held[i] # None /\ a \in AnyAnswer /\ a.n = held[i].n /\ a.n \in Nat
      BY <1>9, <2>1, ServiceAnswers, AnswerFacts
    <2>3. down' = Append(down, a) /\ linkDown' = linkDown
      BY <1>9 DEF EchoAnswers, queues
    <2>4. InSlot(i, a.n)
      BY <2>2 DEF InSlot
    <2>5. /\ Done(a.n) /\ ~Told(a.n) /\ (out # None => out.n # a.n)
          /\ \A j \in Slot : InSlot(j, a.n) => i = j
      BY <2>2, <2>4 DEF OnceInv
    <2>6. SlotP(i)' /\ \A n \in Nat : ~InSlot(i, n)'
      BY <1>1, <1>4, <1>7, <1>9, <2>3 DEF SlotP, InSlot
    <2>7. \A j \in Slot : /\ SlotP(j)'
                          /\ \A n \in Nat : InSlot(j, n)' => InSlot(j, n) /\ n # a.n
      <3>1. ASSUME NEW j \in Slot, j # i, NEW n \in Nat, InSlot(j, n)'
            PROVE  InSlot(j, n) /\ n # a.n
        BY <1>3, <2>5, <3>1
      <3>2. QED BY <1>3, <2>6, <3>1
    <2>8. out' \in {None, out} /\ got' = got /\ (out' # None => out'.n # a.n)
      BY <1>1, <2>5
    <2> HIDE DEF a
    <2>9. QED BY <2>2, <2>3, <2>5, <2>7, <2>8, OneMoreTold
  <1>10. QED BY <1>6, <1>8, <1>9 DEF Server

\* A free slot takes the request; it is nowhere else, for it has just come.
LEMMA OnceSpawn ==
    ASSUME TypeInv, OrderInv, OnceInv, \A n : Done(n) => Done(n)', Spawn
    PROVE  OnceInv'
  <1>1. FirstFree \in Slot /\ ~used[FirstFree] /\ buf \in AnyRequest /\ buf.n \in Nat
    BY FirstFreeIsFree, FrameFacts, RequestFacts DEF Spawn, TypeInv
  <1>0. PICK m \in Nat : m = buf.n
    BY <1>1
  <1>2. PICK i \in Slot :
            /\ ~used[i]
            /\ used' = [used EXCEPT ![i] = TRUE]
            /\ linkUp' = [linkUp EXCEPT ![i] = <<buf>>]
            /\ linkDown' = [linkDown EXCEPT ![i] = <<>>]
            /\ \/ /\ thread' = [thread EXCEPT ![i] = TRUE]
                  /\ server' = [server EXCEPT ![i] = "waiting"]
               \/ /\ \E written \in BOOLEAN : thread' = [thread EXCEPT ![i] = written]
                  /\ UNCHANGED server
    BY <1>1 DEF Spawn
  <1>3. UNCHANGED <<held, down, got>> /\ out' = None
    BY DEF Spawn, Sweep
  <1>4. SlotP(i) /\ SetOf(<<buf>>) = {buf} /\ SetOf(<<>>) = {} /\ Len(<<buf>>) = 1 /\ Len(<<>>) = 0
    BY DEF OnceInv, SetOf
  <1>5. /\ linkUp'[i] = <<buf>> /\ linkDown'[i] = <<>> /\ used'[i] = TRUE /\ held'[i] = None
        /\ \/ thread'[i] = TRUE /\ server'[i] = "waiting"
           \/ server'[i] = "none"
    BY <1>2, <1>3, <1>4 DEF TypeInv, SlotP
  <1>6. SlotP(i)'
    BY <1>4, <1>5 DEF SlotP
  <1>7. \A n \in Nat : InSlot(i, n)' => n = m
    BY <1>0, <1>4, <1>5 DEF InSlot
  <1>8. \A j \in Slot : j # i => SlotP(j)' /\ \A n : InSlot(j, n)' => InSlot(j, n)
    <2>1. \A j \in Slot : j # i => SameSlot(j)
      BY <1>2, <1>3 DEF SameSlot, TypeInv
    <2>2. QED BY <2>1, SlotUntouched DEF OnceInv
  <1>9. ~Done(m)
    <2>1. buf \in Waiting
      BY <1>1, CarriedFacts DEF Waiting
    <2>2. dispatched \in Seq(Nat)
      BY DEF TypeInv
    <2>3. \A k \in 1 .. Len(dispatched) : dispatched[k] \in Nat /\ dispatched[k] < m
      BY <1>0, <2>1, <2>2 DEF OrderInv
    <2>4. QED BY <1>0, <2>3 DEF Done
  <1>10. Done(m)'
    <2>1. /\ dispatched' = Append(dispatched, m) /\ dispatched \in Seq(Nat)
      BY <1>0 DEF Spawn, Sweep, TypeInv
    <2>2. \E k \in 1 .. Len(dispatched') : dispatched'[k] = m
      <3>1. /\ Len(dispatched') = Len(dispatched) + 1 /\ Len(dispatched) \in Nat
            /\ dispatched'[Len(dispatched) + 1] = m
        BY <1>0, <2>1
      <3>2. Len(dispatched) + 1 \in 1 .. Len(dispatched')
        BY <3>1
      <3>3. QED BY <3>1, <3>2
    <2>3. QED BY <2>2 DEF Done
  <1>11. \A n : Told(n)' <=> Told(n)
    BY <1>3 DEF Told
  <1>12. ~Told(m) /\ \A j \in Slot : ~InSlot(j, m)
    BY <1>9 DEF OnceInv
  <1>13. \A j \in Slot : SlotP(j)'
    BY <1>6, <1>8
  <1>14. \A j \in Slot, n \in Nat : InSlot(j, n)' =>
          /\ Done(n)' /\ ~Told(n)' /\ (out' # None => out'.n # n)
          /\ \A k \in Slot : InSlot(k, n)' => j = k
    <2> SUFFICES ASSUME NEW j \in Slot, NEW n \in Nat, InSlot(j, n)'
                 PROVE  /\ Done(n)' /\ ~Told(n)'
                        /\ \A k \in Slot : InSlot(k, n)' => j = k
      BY <1>3
    <2>1. CASE n = m
      BY <1>7, <1>8, <1>10, <1>11, <1>12, <2>1
    <2>2. CASE n # m
      <3>1. \A k \in Slot : InSlot(k, n)' => InSlot(k, n)
        BY <1>7, <1>8, <2>2
      <3>2. Done(n) /\ ~Told(n) /\ \A k \in Slot : InSlot(k, n) => j = k
        BY <3>1 DEF OnceInv
      <3>3. QED BY <1>11, <3>1, <3>2
    <2>3. QED BY <2>1, <2>2
  <1>15. (out # None => Done(out.n) /\ ~Told(out.n))'
    BY <1>3
  <1>16. (\A n \in Nat : Told(n)' => Done(n)') /\ Distinct(down') /\ Distinct(got')
    BY <1>3, <1>11 DEF OnceInv
  <1>17. \A a \in SetOf(down'), b \in SetOf(got') : a.n # b.n
    BY <1>3 DEF OnceInv
  <1>18. QED BY <1>13, <1>14, <1>15, <1>16, <1>17 DEF OnceInv

LEMMA OnceNext ==
    ASSUME TypeInv, RealInv, OrderInv, OnceInv, [Next]_vars
    PROVE  OnceInv'
  <1>0. \A n : Done(n) => Done(n)'
    BY DoneStays
  <1>1. ASSUME UNCHANGED <<used, thread, linkUp, linkDown, server, held, down, got>>,
               out' = out \/ out' = None
        PROVE  OnceInv'
    <2>1. \A j \in Slot : SameSlot(j)
      BY <1>1 DEF SameSlot
    <2>2. \A j \in Slot : SlotP(j)' /\ \A n \in Nat : InSlot(j, n)' => InSlot(j, n)
      BY <2>1, SlotUntouched DEF OnceInv
    <2>3. QED BY <1>0, <1>1, <2>2, NothingNew
  <1>2. CASE Mac
    BY <1>1, <1>2, MacStep DEF engine, table, queues, serve
  <1>3. CASE Receive \/ Symmetry \/ Configure \/ Disaggregate \/ PutBack \/ AllPutBack \/ Ignore
             \/ EndOfTable
    BY <1>1, <1>3 DEF Receive, Symmetry, Configure, Disaggregate, PutBack, AllPutBack, Ignore,
       EndOfTable, SweepConnections, Sweep, table, queues, serve
  <1>4. CASE UNCHANGED vars
    BY <1>1, <1>4 DEF vars, engine, table, queues, serve
  <1>5. CASE TakeAnswer
    <2>1. /\ slot \in Slot /\ linkDown[slot] \in Seq(AnyAnswer) /\ linkDown[slot] # <<>>
          /\ linkDown' = [linkDown EXCEPT ![slot] = Tail(@)]
          /\ out' = None \/ out' = Head(linkDown[slot])
          /\ UNCHANGED <<used, thread, linkUp, server, held, down, got>>
      BY <1>5, DatagramsAssumption
         DEF TakeAnswer, SweepConnections, TypeInv, Slot, serve, table
    <2>2. PICK i \in Slot : i = slot
      BY <2>1
    <2>3. SlotP(i) /\ linkDown'[i] = Tail(linkDown[i])
      BY <2>1, <2>2 DEF OnceInv, TypeInv
    <2>4. /\ linkUp[i] = <<>> /\ server[i] = "none" /\ held[i] = None
          /\ Len(linkDown[i]) = 1 /\ Head(linkDown[i]) \in AnyAnswer
          /\ Head(linkDown[i]) \in SetOf(linkDown[i])
      <3>1. linkDown[i] \in Seq(AnyAnswer) /\ linkDown[i] # <<>> /\ Len(linkDown[i]) <= 1
        BY <2>1, <2>2, <2>3 DEF SlotP
      <3>2. Len(linkDown[i]) = 1 /\ Head(linkDown[i]) \in AnyAnswer /\ Head(linkDown[i]) \in SetOf(linkDown[i])
        <4>1. SUFFICES ASSUME NEW s, s = linkDown[i]
                       PROVE  Len(s) = 1 /\ Head(s) \in AnyAnswer /\ Head(s) \in SetOf(s)
          OBVIOUS
        <4>2. s \in Seq(AnyAnswer) /\ s # <<>> /\ Len(s) <= 1
          BY <3>1, <4>1
        <4>3. /\ Len(s) \in Nat /\ Len(s) >= 1 /\ Head(s) \in AnyAnswer
              /\ SetOf(s) = {Head(s)} \cup SetOf(Tail(s))
          BY <4>2, HeadTaken
        <4>4. Len(s) = 1
          <5>1. SUFFICES ASSUME NEW l, l = Len(s) PROVE l = 1
            OBVIOUS
          <5>2. l \in Nat /\ l >= 1 /\ l <= 1
            BY <4>2, <4>3, <5>1
          <5>3. QED BY <5>2
        <4>5. QED BY <4>3, <4>4
      <3>3. server[i] \in {"none", "waiting", "working"}
        BY DEF TypeInv
      <3>4. QED BY <2>3, <3>1, <3>2, <3>3 DEF SlotP
    <2>5. linkDown'[i] = <<>> /\ SetOf(<<>>) = {} /\ Len(<<>>) = 0
      <3>1. linkDown[i] \in Seq(AnyAnswer) /\ linkDown[i] # <<>>
        BY <2>1, <2>2
      <3>2. linkDown'[i] \in Seq(AnyAnswer) /\ Len(linkDown'[i]) = 0
        BY <2>3, <2>4, <3>1, HeadTaken
      <3>3. QED BY <3>2 DEF SetOf
    <2>6. SlotP(i)' /\ \A n \in Nat : ~InSlot(i, n)'
      BY <2>1, <2>3, <2>4, <2>5 DEF SlotP, InSlot
    <2>7. \A j \in Slot : j # i => SlotP(j)' /\ \A n : InSlot(j, n)' => InSlot(j, n)
      <3>1. \A j \in Slot : j # i => SameSlot(j)
        BY <2>1, <2>2 DEF SameSlot, TypeInv
      <3>2. QED BY <3>1, SlotUntouched DEF OnceInv
    <2>8. CASE out' = None
      BY <1>0, <2>1, <2>6, <2>7, <2>8, NothingNew
    <2>9. CASE out' = Head(linkDown[slot])
      <3>1. PICK m \in Nat : m = out'.n
        BY <2>2, <2>4, <2>9, AnswerFacts
      <3>2. InSlot(i, m)
        BY <2>2, <2>4, <2>9, <3>1 DEF InSlot
      <3>3. Done(m) /\ ~Told(m) /\ \A j \in Slot : InSlot(j, m) => i = j
        BY <3>2 DEF OnceInv
      <3>4. \A n : Told(n)' <=> Told(n)
        BY <2>1 DEF Told
      <3>5. Done(m)' /\ ~Told(m)'
        BY <1>0, <3>3, <3>4
      <3>6. (out # None => Done(out.n) /\ ~Told(out.n))'
        BY <3>1, <3>5
      <3>7. \A j \in Slot, n \in Nat : InSlot(j, n)' =>
              /\ Done(n)' /\ ~Told(n)' /\ (out' # None => out'.n # n)
              /\ \A k \in Slot : InSlot(k, n)' => j = k
        <4> SUFFICES ASSUME NEW j \in Slot, NEW n \in Nat, InSlot(j, n)'
                     PROVE  /\ Done(n)' /\ ~Told(n)' /\ out'.n # n
                            /\ \A k \in Slot : InSlot(k, n)' => j = k
          OBVIOUS
        <4>1. j # i /\ InSlot(j, n)
          BY <2>6, <2>7
        <4>2. Done(n) /\ ~Told(n) /\ n # m /\ \A k \in Slot : InSlot(k, n) => j = k
          BY <3>3, <4>1 DEF OnceInv
        <4>3. \A k \in Slot : InSlot(k, n)' => InSlot(k, n)
          BY <2>6, <2>7
        <4>4. QED BY <1>0, <3>1, <3>4, <4>2, <4>3
      <3>8. (\A n \in Nat : Told(n)' => Done(n)') /\ Distinct(down') /\ Distinct(got')
        BY <1>0, <2>1, <3>4 DEF OnceInv
      <3>9. \A a \in SetOf(down'), b \in SetOf(got') : a.n # b.n
        BY <2>1 DEF OnceInv
      <3>10. \A j \in Slot : SlotP(j)'
        BY <2>6, <2>7
      <3>11. QED BY <3>6, <3>7, <3>8, <3>9, <3>10 DEF OnceInv
    <2>10. QED BY <2>1, <2>8, <2>9
  <1>6. CASE PassQuiet
    <2>1. /\ slot \in Slot
          /\ used' = [used EXCEPT ![slot] = thread[slot]]
          /\ linkUp' = [linkUp EXCEPT ![slot] = IF thread[slot] THEN @ ELSE <<>>]
          /\ linkDown[slot] = <<>>
          /\ UNCHANGED <<thread, linkDown, server, held, down, got, out>>
      BY <1>6, DatagramsAssumption DEF PassQuiet, TypeInv, Slot, serve
    <2>2. PICK i \in Slot : i = slot
      BY <2>1
    <2>3. SlotP(i) /\ SetOf(<<>>) = {} /\ Len(<<>>) = 0
      BY DEF OnceInv, SetOf
    <2>4. /\ used'[i] = thread[i]
          /\ linkUp'[i] = linkUp[i] \/ linkUp'[i] = <<>>
      BY <2>1, <2>2 DEF TypeInv
    <2>5. SlotP(i)'
      BY <2>1, <2>2, <2>3, <2>4 DEF SlotP
    <2>6. \A n \in Nat : InSlot(i, n)' => InSlot(i, n)
      BY <2>1, <2>3, <2>4 DEF InSlot
    <2>7. \A j \in Slot : j # i => SlotP(j)' /\ \A n : InSlot(j, n)' => InSlot(j, n)
      <3>1. \A j \in Slot : j # i => SameSlot(j)
        BY <2>1, <2>2 DEF SameSlot, TypeInv
      <3>2. QED BY <3>1, SlotUntouched DEF OnceInv
    <2>8. QED BY <1>0, <2>1, <2>5, <2>6, <2>7, NothingNew
  <1>7. CASE Send
    <2>1. /\ UNCHANGED <<used, thread, linkUp, linkDown, server, held, got>> /\ out' = None
          /\ down' = down \/ (out # None /\ down' = Append(down, out))
      BY <1>7 DEF Send, table, queues, serve
    <2>2. CASE down' = down
      BY <1>1, <2>1, <2>2
    <2>3. CASE out # None /\ down' = Append(down, out)
      <3>1. out \in AnyAnswer /\ Done(out.n) /\ ~Told(out.n) /\ out.n \in Nat
        BY <2>3, AnswerFacts DEF TypeInv, OnceInv
      <3>2. \A j \in Slot : /\ SlotP(j)'
                            /\ \A n \in Nat : InSlot(j, n)' => InSlot(j, n) /\ n # out.n
        <4>1. \A j \in Slot : SameSlot(j)
          BY <2>1 DEF SameSlot
        <4>2. QED BY <2>3, <4>1, SlotUntouched DEF OnceInv
      <3>3. QED BY <1>0, <2>1, <2>3, <3>1, <3>2, OneMoreTold
    <2>4. QED BY <2>1, <2>2, <2>3
  <1>8. CASE PeerReceives
    <2>1. /\ down # <<>> /\ got' = Append(got, Head(down)) /\ down' = Tail(down)
          /\ UNCHANGED <<used, thread, linkUp, linkDown, server, held, out>>
      BY <1>8 DEF PeerReceives, engine, table, queues, serve
    <2>2. down \in Seq(AnyAnswer) /\ got \in Seq(AnyAnswer)
      BY DEF TypeInv
    <2>3. /\ Head(down) \in AnyAnswer /\ SetOf(down) = {Head(down)} \cup SetOf(down')
          /\ Len(down') = Len(down) - 1 /\ Len(down) \in Nat /\ Len(down) >= 1
          /\ Head(down) = down[1]
          /\ \A j \in 1 .. Len(down') : down'[j] = down[j + 1] /\ j + 1 \in 1 .. Len(down)
      BY <2>1, <2>2, HeadTaken
    <2>4. /\ SetOf(got') = SetOf(got) \cup {Head(down)}
          /\ Len(got') = Len(got) + 1 /\ Len(got) \in Nat
          /\ \A j \in 1 .. Len(got) : got'[j] = got[j]
          /\ got'[Len(got) + 1] = Head(down)
      BY <2>1, <2>2, <2>3, Appended
    <2>5. \A n : Told(n)' <=> Told(n)
      BY <2>3, <2>4 DEF Told
    <2>6. Distinct(down')
      <3>1. \A j, k \in 1 .. Len(down') : j + 1 = k + 1 => j = k
        OBVIOUS
      <3>2. \A j, k \in 1 .. Len(down) : down[j].n = down[k].n => j = k
        BY DEF OnceInv, Distinct
      <3>3. \A j, k \in 1 .. Len(down') : down'[j].n = down'[k].n => j + 1 = k + 1
        BY <2>3, <3>2
      <3>4. QED BY <3>1, <3>3 DEF Distinct
    <2>7. \A j \in 1 .. Len(down') : down'[j].n # Head(down).n
      <3>1. \A j \in 1 .. Len(down') : j + 1 # 1 /\ 1 \in 1 .. Len(down)
        BY <2>3
      <3>2. QED BY <2>3, <3>1 DEF OnceInv, Distinct
    <2>8. Distinct(got')
      <3>1. \A b \in SetOf(got) : Head(down).n # b.n
        BY <2>3 DEF OnceInv
      <3>2. \A j \in 1 .. Len(got) : got[j].n # Head(down).n
        BY <3>1 DEF SetOf
      <3>3. \A j \in 1 .. Len(got') : j \in 1 .. Len(got) \/ j = Len(got) + 1
        BY <2>4
      <3>4. QED BY <2>4, <3>2, <3>3 DEF OnceInv, Distinct
    <2>9. \A a \in SetOf(down'), b \in SetOf(got') : a.n # b.n
      <3>1. \A a \in SetOf(down') : a.n # Head(down).n
        BY <2>7 DEF SetOf
      <3>2. QED BY <2>3, <2>4, <3>1 DEF OnceInv
    <2>10. \A j \in Slot : SlotP(j)' /\ \A n \in Nat : InSlot(j, n)' => InSlot(j, n)
      <3>1. \A j \in Slot : SameSlot(j)
        BY <2>1 DEF SameSlot
      <3>2. QED BY <3>1, SlotUntouched DEF OnceInv
    <2>11. (out # None => Done(out.n) /\ ~Told(out.n))'
      <3>1. ASSUME out' # None PROVE Done(out.n)' /\ ~Told(out.n)'
        <4>1. out' = out /\ Done(out.n) /\ ~Told(out.n)
          BY <2>1, <3>1 DEF OnceInv
        <4>2. QED BY <1>0, <2>5, <4>1
      <3>2. QED BY <3>1
    <2>12. \A j \in Slot, n \in Nat : InSlot(j, n)' =>
              /\ Done(n)' /\ ~Told(n)' /\ (out' # None => out'.n # n)
              /\ \A k \in Slot : InSlot(k, n)' => j = k
      BY <1>0, <2>1, <2>5, <2>10 DEF OnceInv
    <2>13. \A n \in Nat : Told(n)' => Done(n)'
      BY <1>0, <2>5 DEF OnceInv
    <2>14. QED BY <2>6, <2>8, <2>9, <2>10, <2>11, <2>12, <2>13 DEF OnceInv
  <1>9. QED
    BY <1>0, <1>2, <1>3, <1>4, <1>5, <1>6, <1>7, <1>8, OnceServer, OnceSpawn DEF Next, Engine

-----------------------------------------------------------------------------
(***************************************************************************)
(* The invariants together, and what follows from them.                    *)
(***************************************************************************)
LEMMA Invariance == Spec => [](TypeInv /\ HandsInv /\ OrderInv /\ RealInv /\ OnceInv)
  <1> DEFINE I == TypeInv /\ HandsInv /\ OrderInv /\ RealInv /\ OnceInv
  <1>1. Init => I
    BY TypeInit, OrderInit, RealInit, OnceInit
  <1>2. I /\ [Next]_vars => I'
    <2>1. ASSUME I, [Next]_vars PROVE TypeInv'
      BY <2>1, TypeNext
    <2>2. ASSUME I, [Next]_vars PROVE HandsInv' /\ OrderInv' /\ OnceInv'
      BY <2>2, HandsNext, OrderNext, OnceNext
    <2>3. ASSUME I, [Next]_vars PROVE RealInv'
      BY <2>1, <2>3, RealNext
    <2>4. QED BY <2>1, <2>2, <2>3
  <1>3. QED BY <1>1, <1>2, PTL DEF Spec

\* llc_link_find_sap_by_uri: an advertised SAP that bears the name, or 0 if none does.
LEMMA LowestBearer ==
    ASSUME NEW name
    PROVE  LET s == llc_link_find_sap_by_uri(name) IN
           IF s = 0 THEN \A t \in DOMAIN Name \cap 1 .. MaxAdvertised : Name[t] # name
           ELSE s \in DOMAIN Name /\ Name[s] = name
  <1>1. CASE Bearers(name) = {}
    BY <1>1 DEF llc_link_find_sap_by_uri, Bearers
  <1>2. CASE Bearers(name) # {}
    <2>1. Bearers(name) \in SUBSET Nat
      BY DEF Bearers
    <2>2. \E s \in Bearers(name) : \A t \in Bearers(name) : s <= t
      BY <1>2, <2>1, LeastNatural
    <2>3. llc_link_find_sap_by_uri(name) \in Bearers(name)
      BY <1>2, <2>2 DEF llc_link_find_sap_by_uri
    <2>4. QED BY <2>3 DEF Bearers
  <1>3. QED BY <1>1, <1>2

\* The answer the services give to a request they take fits it.
LEMMA AnswerFits == \A r \in AnyRequest : Answerable(r) => Fits(Answer(r), r)
  <1> SUFFICES ASSUME NEW r \in AnyRequest, Answerable(r) PROVE Fits(Answer(r), r)
    OBVIOUS
  <1>1. CASE r.sap = SdpSap
    <2>1. r.type = "SNL"
      BY <1>1, DatagramsAssumption DEF Answerable
    <2>2. /\ Answer(r).type = "SNL" /\ Answer(r).sap = SdpSap
          /\ Answer(r).data = llc_link_find_sap_by_uri(r.data[1])
      BY <1>1, PduFields DEF Answer
    <2>3. QED BY <1>1, <2>1, <2>2, LowestBearer DEF Fits
  <1>2. CASE r.sap # SdpSap
    <2>1. r.sap = EchoSap
      BY <1>2 DEF Answerable
    <2>2. Answer(r).type = "UI" /\ Answer(r).sap = r.sap
      BY <1>2, PduFields DEF Answer
    <2>3. r.type = "UI"
      <3>1. r \in Requests(r.n)
        BY RequestFacts
      <3>2. QED BY <1>2, <3>1, PduFields DEF Requests
    <2>4. QED BY <2>2, <2>3 DEF Fits
  <1>3. QED BY <1>1, <1>2

\* The engine dispatches requests in the order in which the peer made them, the
\* PDUs of an aggregated frame among them, which mq_send puts back with a higher
\* priority than what waits behind the frame.
THEOREM DispatchedInOrder == Spec => []DispatchOrder
  <1>1. OrderInv => DispatchOrder
    BY DEF OrderInv
  <1>2. QED BY <1>1, Invariance, PTL

\* No request is answered twice: the thread started for a datagram takes the PDU
\* out of its queue, the engine takes the answer out of the slot's or the thread puts
\* it into the link's, and a slot goes to another datagram only when it is free.
THEOREM AnsweredAtMostOnce == Spec => []AnsweredOnce
  <1>1. OnceInv => AnsweredOnce
    BY DEF OnceInv, Distinct, AnsweredOnce
  <1>2. QED BY <1>1, Invariance, PTL

\* Whatever reaches the peer answers a request it made, and truly: the SAP given for
\* a name bears that name, and 0 is given only when no advertised SAP does.
THEOREM AnswersAreTrue == Spec => []AnswersTrue
  <1>1. TypeInv /\ RealInv => AnswersTrue
    <2> SUFFICES ASSUME TypeInv, RealInv, NEW k \in 1 .. Len(got)
                 PROVE  /\ got[k].n \in 1 .. Len(sent)
                        /\ Answerable(sent[got[k].n]) /\ Fits(got[k], sent[got[k].n])
      BY DEF AnswersTrue
    <2>1. Genuine(got[k])
      BY DEF RealInv, SetOf
    <2>2. sent[got[k].n] \in AnyRequest
      BY <2>1 DEF Genuine, TypeInv
    <2>3. QED BY <2>1, <2>2, AnswerFits DEF Genuine
  <1>2. QED BY <1>1, Invariance, PTL

-----------------------------------------------------------------------------
(***************************************************************************)
(* The parameters.  The reader keeps their types, whatever it is given:    *)
(* each TLV of a list is looked at in turn, and the next begins where one  *)
(* ends.                                                                   *)
(***************************************************************************)
\* Induction up to a number, as a fact about sets.
LEMMA Climb ==
    ASSUME NEW N \in Nat, NEW B, 0 \in B, \A n \in 0 .. N - 1 : n \in B => n + 1 \in B
    PROVE  0 .. N \subseteq B
  <1> DEFINE Bad == {n \in 0 .. N : n \notin B}
  <1>1. SUFFICES ASSUME Bad # {} PROVE FALSE
    OBVIOUS
  <1>2. PICK m \in Bad : \A n \in Bad : m <= n
    <2>1. Bad \subseteq Nat
      OBVIOUS
    <2>2. QED BY <1>1, <2>1, LeastNatural
  <1>3. m # 0 /\ m \in 1 .. N
    BY <1>2
  <1>4. m - 1 \in 0 .. N - 1 /\ m - 1 \notin Bad /\ (m - 1) + 1 = m
    BY <1>2, <1>3
  <1>5. m - 1 \in B
    BY <1>4
  <1>6. QED BY <1>2, <1>4, <1>5

\* The states of the reader, its TLVs, and what it makes of one.
TlvType == {Broken} \cup [type : Byte, value : Seq(Byte)]
ReaderType == [ok : BOOLEAN, params : ParamType]

LEMMA AgreementTyped ==
    ASSUME NEW v, NEW w, v \in [major : 0 .. 15, minor : 0 .. 15],
           w \in [major : 0 .. 15, minor : 0 .. 15]
    PROVE  llcp_version_agreement(v, w) \in [major : 0 .. 15, minor : 0 .. 15]
  BY DEF llcp_version_agreement, Lower

\* What a TLV that is not refused holds.
LEMMA ReadTlvLengths ==
    ASSUME NEW p, NEW tlv, ~Refused(p, tlv)
    PROVE  /\ tlv # Broken
           /\ tlv.type \in {1, 4, 7} => Len(tlv.value) = 1
           /\ tlv.type \in {2, 3} => Len(tlv.value) = 2
           /\ tlv.type = 1 => CanAgree(p.version, parameter_decode_version(tlv.value))
  <1>1. tlv # Broken
    BY DEF Refused
  <1>2. tlv.type \in {1, 2, 3, 4, 7} => Len(tlv.value) = ValueLength(tlv.type)
    BY DEF Refused, Known, VersionType, MiuxType, WksType, LtoType, OptType
  <1>3. /\ tlv.type \in {1, 4, 7} => ValueLength(tlv.type) = 1
        /\ tlv.type \in {2, 3} => ValueLength(tlv.type) = 2
    BY DEF ValueLength, VersionType, MiuxType, WksType, LtoType, OptType
  <1>4. tlv.type = 1 => CanAgree(p.version, parameter_decode_version(tlv.value))
    BY DEF Refused, VersionType
  <1>5. QED BY <1>1, <1>2, <1>3, <1>4

LEMMA TakeCases ==
    ASSUME NEW p, NEW tlv, NEW v, v = tlv.value
    PROVE  /\ tlv.type = 1 => Take(p, tlv) = [p EXCEPT !.version =
                llcp_version_agreement(p.version, parameter_decode_version(v))]
           /\ tlv.type = 2 =>
                Take(p, tlv) = [p EXCEPT !.remote_miu = 128 + parameter_decode_miux(v)]
           /\ tlv.type = 3 => Take(p, tlv) = [p EXCEPT !.remote_wks = parameter_decode_wks(v)]
           /\ tlv.type = 4 => Take(p, tlv) = [p EXCEPT !.remote_lto = 10 * parameter_decode_lto(v)]
           /\ tlv.type = 7 => Take(p, tlv) = [p EXCEPT !.remote_lsc = parameter_decode_opt(v) % 4]
           /\ tlv.type \notin {1, 2, 3, 4, 7} => Take(p, tlv) = p
  BY DEF Take, VersionType, MiuxType, WksType, LtoType, OptType

\* The widths; bytes are numbers.
LEMMA WidthsAre == UINT8_MAX = 255 /\ UINT16_MAX = 65535 /\ MaxMiux = 2047
  BY SMT DEF UINT8_MAX, UINT16_MAX, MaxMiux

LEMMA Widths == UINT8_MAX \in Nat /\ UINT16_MAX \in Nat /\ MaxMiux \in Nat
  BY WidthsAre, SMT

LEMMA ByteRange == \A b \in Byte : b \in Nat /\ b <= UINT8_MAX
  BY Widths DEF Byte

LEMMA InByte == \A b \in Nat : b <= UINT8_MAX => b \in Byte
  BY Widths DEF Byte

\* One byte and two, decoded.
LEMMA ByteDecoded ==
    ASSUME NEW v \in Seq(Byte), Len(v) = 1
    PROVE  /\ parameter_decode_version(v) \in [major : 0 .. 15, minor : 0 .. 15]
           /\ 10 * parameter_decode_lto(v) \in 0 .. 10 * UINT8_MAX
           /\ parameter_decode_opt(v) % 4 \in 0 .. 3
  <1>1. PICK b \in Byte : b = v[1]
    OBVIOUS
  <1>2. b \in Nat /\ b <= UINT8_MAX
    BY ByteRange
  <1>3. b \div 16 \in 0 .. 15 /\ b % 16 \in 0 .. 15 /\ b % 4 \in 0 .. 3
    BY <1>2, Widths, WidthsAre, SMT
  <1>4. 10 * b \in 0 .. 10 * UINT8_MAX
    BY <1>2, Widths, WidthsAre, SMT
  <1>5. QED
    BY <1>1, <1>3, <1>4 DEF parameter_decode_version, parameter_decode_lto, parameter_decode_opt

\* Two bytes are a number of 16 bits; an MIU extension keeps 11 of them, and a service
\* mask gets the lowest.
LEMMA WordDecoded ==
    ASSUME NEW v \in Seq(Byte), Len(v) = 2
    PROVE  /\ Word(v) \in Nat /\ Word(v) <= UINT16_MAX
           /\ 128 + parameter_decode_miux(v) \in 128 .. 128 + MaxMiux
           /\ parameter_decode_wks(v) \in 0 .. UINT16_MAX
  <1>1. v[1] \in Byte /\ v[2] \in Byte
    OBVIOUS
  <1>2. PICK w \in Nat : w = Word(v) /\ w <= UINT16_MAX
    BY <1>1, ByteRange, Widths, WidthsAre, SMT DEF Word
  <1>3. w % (MaxMiux + 1) \in Nat /\ w % (MaxMiux + 1) <= MaxMiux
    BY Widths, WidthsAre, SMT
  <1>4. 128 + parameter_decode_miux(v) \in 128 .. 128 + MaxMiux
    <2>1. parameter_decode_miux(v) = w % (MaxMiux + 1)
      BY <1>2, Zenon DEF parameter_decode_miux
    <2>2. \A x \in Nat : x <= MaxMiux => 128 + x \in 128 .. 128 + MaxMiux
      BY Widths
    <2>3. QED BY <1>3, <2>1, <2>2, Zenon
  <1>5. w - (w % 2) + 1 \in Nat /\ w - (w % 2) + 1 <= UINT16_MAX
    BY <1>2, Widths, WidthsAre, SMT
  <1>6. parameter_decode_wks(v) \in 0 .. UINT16_MAX
    <2>1. parameter_decode_wks(v) = w - (w % 2) + 1
      BY <1>2, Zenon DEF parameter_decode_wks
    <2>2. \A x \in Nat : x <= UINT16_MAX => x \in 0 .. UINT16_MAX
      BY Widths
    <2>3. QED BY <1>5, <2>1, <2>2, Zenon
  <1>7. QED BY <1>2, <1>4, <1>6

\* A field set to a value of its type.
LEMMA ParamsTyped ==
    ASSUME NEW p \in ParamType
    PROVE  /\ \A x \in [major : 0 .. 15, minor : 0 .. 15] : [p EXCEPT !.version = x] \in ParamType
           /\ \A x \in 128 .. 128 + MaxMiux : [p EXCEPT !.remote_miu = x] \in ParamType
           /\ \A x \in 0 .. UINT16_MAX : [p EXCEPT !.remote_wks = x] \in ParamType
           /\ \A x \in 0 .. 10 * UINT8_MAX : [p EXCEPT !.remote_lto = x] \in ParamType
           /\ \A x \in 0 .. 3 : [p EXCEPT !.remote_lsc = x] \in ParamType
           /\ p.version \in [major : 0 .. 15, minor : 0 .. 15]
  BY DEF ParamType

\* A TLV that is not refused leaves parameters.
LEMMA TakeTyped ==
    ASSUME NEW p \in ParamType, NEW tlv \in TlvType, ~Refused(p, tlv)
    PROVE  Take(p, tlv) \in ParamType
  <1>1. PICK v : v = tlv.value
    OBVIOUS
  <1>2. tlv.type \in Byte /\ v \in Seq(Byte)
    BY <1>1, ReadTlvLengths DEF TlvType
  <1>3. CASE tlv.type = 1
    <2>1. parameter_decode_version(v) \in [major : 0 .. 15, minor : 0 .. 15]
      BY <1>1, <1>2, <1>3, ReadTlvLengths, ByteDecoded
    <2>2. llcp_version_agreement(p.version, parameter_decode_version(v))
            \in [major : 0 .. 15, minor : 0 .. 15]
      BY <2>1, ParamsTyped, AgreementTyped
    <2>3. Take(p, tlv) = [p EXCEPT !.version =
                            llcp_version_agreement(p.version, parameter_decode_version(v))]
      BY <1>1, <1>3, TakeCases
    <2>4. QED BY <2>2, <2>3, ParamsTyped
  <1>4. CASE tlv.type \in {2, 3}
    <2>1. /\ 128 + parameter_decode_miux(v) \in 128 .. 128 + MaxMiux
          /\ parameter_decode_wks(v) \in 0 .. UINT16_MAX
      BY <1>1, <1>2, <1>4, ReadTlvLengths, WordDecoded
    <2>2. \/ Take(p, tlv) = [p EXCEPT !.remote_miu = 128 + parameter_decode_miux(v)]
          \/ Take(p, tlv) = [p EXCEPT !.remote_wks = parameter_decode_wks(v)]
      BY <1>1, <1>4, TakeCases
    <2>3. QED BY <2>1, <2>2, ParamsTyped, Zenon
  <1>5. CASE tlv.type \in {4, 7}
    <2>1. /\ 10 * parameter_decode_lto(v) \in 0 .. 10 * UINT8_MAX
          /\ parameter_decode_opt(v) % 4 \in 0 .. 3
      BY <1>1, <1>2, <1>5, ReadTlvLengths, ByteDecoded
    <2>2. \/ Take(p, tlv) = [p EXCEPT !.remote_lto = 10 * parameter_decode_lto(v)]
          \/ Take(p, tlv) = [p EXCEPT !.remote_lsc = parameter_decode_opt(v) % 4]
      BY <1>1, <1>5, TakeCases
    <2>3. QED BY <2>1, <2>2, ParamsTyped, Zenon
  <1>6. CASE tlv.type \notin {1, 2, 3, 4, 7}
    BY <1>6, TakeCases
  <1>7. QED BY <1>3, <1>4, <1>5, <1>6

\* One turn of the reader's loop.
LEMMA ReadTlvTyped ==
    ASSUME NEW s \in ReaderType, NEW tlv \in TlvType
    PROVE  ReadTlv(s, tlv) \in ReaderType
  <1>1. s.params \in ParamType
    BY DEF ReaderType
  <1>2. CASE ~s.ok \/ Refused(s.params, tlv)
    BY <1>2 DEF ReadTlv, ReaderType
  <1>3. CASE s.ok /\ ~Refused(s.params, tlv)
    <2>1. Take(s.params, tlv) \in ParamType
      BY <1>1, <1>3, TakeTyped
    <2>2. ReadTlv(s, tlv) = [s EXCEPT !.params = Take(s.params, tlv)]
      BY <1>3 DEF ReadTlv
    <2>3. QED BY <2>1, <2>2 DEF ReaderType
  <1>4. QED BY <1>2, <1>3 DEF ReaderType

\* Reading the TLVs one after the other: the states it goes through exist, keep their
\* type, and are what ReadTlv makes of each.
Reading(g, p, tlvs, N) ==
  /\ g \in [0 .. N -> ReaderType] /\ g[0] = [ok |-> TRUE, params |-> p]
  /\ \A n \in 1 .. N : g[n] = ReadTlv(g[n - 1], tlvs[n])
  /\ ReadTlvs(p, tlvs) = g[N]

\* The loop of llc_link_configure, turn by turn, in the states of the reader: the
\* functions up to each turn, taken together.
LEMMA ReadTlvsSteps ==
    ASSUME NEW p \in ParamType, NEW tlvs \in Seq(TlvType)
    PROVE  \E g : Reading(g, p, tlvs, Len(tlvs))
  <1> DEFINE N == Len(tlvs)
             start == [ok |-> TRUE, params |-> p]
             Good(g, m) == g[0] = start /\ \A n \in 1 .. m : g[n] = ReadTlv(g[n - 1], tlvs[n])
             B == {m \in 0 .. N : \E g \in [0 .. m -> ReaderType] : Good(g, m)}
             after == CHOOSE g : g = [n \in 0 .. N |-> IF n = 0 THEN start
                                                     ELSE ReadTlv(g[n - 1], tlvs[n])]
  <1>1. N \in Nat /\ start \in ReaderType /\ \A n \in 1 .. N : tlvs[n] \in TlvType
    BY DEF ReaderType
  <1>2. 0 \in B
    <2> DEFINE first == [n \in 0 .. 0 |-> start]
    <2>1. first \in [0 .. 0 -> ReaderType] /\ Good(first, 0)
      BY <1>1
    <2> HIDE DEF Good, first
    <2>2. QED BY <1>1, <2>1
  <1>3. ASSUME NEW m \in 0 .. N - 1, m \in B PROVE m + 1 \in B
    <2>1. PICK g \in [0 .. m -> ReaderType] : Good(g, m)
      BY <1>3
    <2> DEFINE h == [n \in 0 .. m + 1 |-> IF n = m + 1 THEN ReadTlv(g[m], tlvs[m + 1]) ELSE g[n]]
    <2>2. ReadTlv(g[m], tlvs[m + 1]) \in ReaderType
      BY <1>1, ReadTlvTyped
    <2>3. h \in [0 .. m + 1 -> ReaderType]
      BY <2>2
    <2>4. h[0] = start /\ \A n \in 1 .. m : h[n] = g[n] /\ h[n - 1] = g[n - 1]
      <3>1. m \in Nat /\ g[0] = start
        BY <1>1, <2>1
      <3>2. /\ 0 \in 0 .. m + 1 /\ 0 # m + 1
            /\ \A n \in 1 .. m : /\ n \in 0 .. m + 1 /\ n # m + 1
                                /\ n - 1 \in 0 .. m + 1 /\ n - 1 # m + 1
        BY <3>1
      <3> HIDE DEF start
      <3>3. QED BY <3>1, <3>2, Zenon
    <2>5. h[m + 1] = ReadTlv(h[m], tlvs[m + 1])
      BY <1>1
    <2> HIDE DEF h
    <2>6. \A n \in 1 .. m + 1 : h[n] = ReadTlv(h[n - 1], tlvs[n])
      <3>1. ASSUME NEW n \in 1 .. m PROVE h[n] = ReadTlv(h[n - 1], tlvs[n])
        BY <2>1, <2>4
      <3>2. ASSUME NEW n \in 1 .. m + 1, n \notin 1 .. m PROVE n = m + 1 /\ n - 1 = m
        BY <3>2
      <3>3. QED BY <2>5, <3>1, <3>2
    <2>7. m + 1 \in 0 .. N
      BY <1>1
    <2>8. QED BY <2>3, <2>4, <2>6, <2>7
  <1>4. N \in B
    <2> HIDE DEF B
    <2>1. 0 .. N \subseteq B
      BY <1>1, <1>2, <1>3, Climb
    <2>2. QED BY <1>1, <2>1
  <1>5. PICK g \in [0 .. N -> ReaderType] : Good(g, N)
    BY <1>4
  <1>6. g = [n \in 0 .. N |-> IF n = 0 THEN start ELSE ReadTlv(g[n - 1], tlvs[n])]
    BY <1>1, <1>5
  <1>7. after = [n \in 0 .. N |-> IF n = 0 THEN start ELSE ReadTlv(after[n - 1], tlvs[n])]
    BY <1>6
  <1>8. ReadTlvs(p, tlvs) = after[N]
    BY DEF ReadTlvs
  <1> HIDE DEF after
  <1>9. after[0] = start /\ \A n \in 1 .. N : after[n] = ReadTlv(after[n - 1], tlvs[n])
    <2>1. 0 \in 0 .. N /\ \A n \in 1 .. N : n \in 0 .. N /\ n # 0
      BY <1>1
    <2> HIDE DEF start
    <2>2. QED BY <1>7, <2>1, Zenon
  <1> DEFINE C == {n \in 0 .. N : after[n] \in ReaderType}
  <1>10. 0 \in C
    BY <1>1, <1>9
  <1>11. ASSUME NEW n \in 0 .. N - 1, n \in C PROVE n + 1 \in C
    <2>1. n + 1 \in 1 .. N /\ (n + 1) - 1 = n
      BY <1>1
    <2>2. after[n + 1] = ReadTlv(after[n], tlvs[n + 1])
      BY <1>9, <2>1
    <2>3. QED BY <1>1, <1>11, <2>1, <2>2, ReadTlvTyped
  <1>12. 0 .. N \subseteq C
    <2> HIDE DEF C
    <2>1. QED BY <1>1, <1>10, <1>11, Climb
  <1>13. after \in [0 .. N -> ReaderType]
    BY <1>7, <1>12
  <1>14. Reading(after, p, tlvs, N)
    BY <1>8, <1>9, <1>13 DEF Reading
  <1>15. QED BY <1>14

\* What Tlvs reads from place o on, with g for the rest.
TlvsAt(list, g, o) ==
  CASE o = Len(list) + 1 -> <<>>
    [] o = Len(list) -> <<Broken>>
    [] OTHER ->
         LET end == o + 2 + list[o + 1] IN
         IF end > Len(list) + 1 THEN <<Broken>>
         ELSE <<[type |-> list[o], value |-> SubSeq(list, o + 2, end - 1)]>> \o g[end]

\* A list at its end, in its last byte, in a TLV it holds in part, and in one it
\* holds.
LEMMA TlvsAtCases ==
    ASSUME NEW list, NEW g, NEW o, NEW end, end = o + 2 + list[o + 1], Len(list) \in Nat
    PROVE  /\ o = Len(list) + 1 => TlvsAt(list, g, o) = <<>>
           /\ o = Len(list) => TlvsAt(list, g, o) = <<Broken>>
           /\ o # Len(list) + 1 /\ o # Len(list) =>
                /\ end > Len(list) + 1 => TlvsAt(list, g, o) = <<Broken>>
                /\ ~(end > Len(list) + 1) => TlvsAt(list, g, o) =
                     <<[type |-> list[o], value |-> SubSeq(list, o + 2, end - 1)]>> \o g[end]
  BY DEF TlvsAt

\* Where a TLV ends is behind where it begins.
LEMMA TlvEnd ==
    ASSUME NEW list \in Seq(Byte), NEW o \in 1 .. Len(list) + 1,
           o # Len(list) + 1, o # Len(list), NEW end, end = o + 2 + list[o + 1]
    PROVE  /\ Len(list) \in Nat /\ o \in Nat /\ list[o] \in Byte /\ list[o + 1] \in Byte
           /\ end \in Nat /\ end >= o + 2
           /\ ~(end > Len(list) + 1) => end \in o + 1 .. Len(list) + 1
  <1>1. Len(list) \in Nat /\ o \in Nat /\ o \in 1 .. Len(list) /\ o + 1 \in 1 .. Len(list)
    OBVIOUS
  <1>2. list[o] \in Byte /\ list[o + 1] \in Byte
    BY <1>1
  <1>3. PICK b \in Nat : b = list[o + 1]
    BY <1>2, ByteRange
  <1>4. QED BY <1>1, <1>2, <1>3

\* Only the rest from where the TLV ends on counts.
LEMMA TlvsAtSame ==
    ASSUME NEW list \in Seq(Byte), NEW o \in 1 .. Len(list) + 1, NEW g, NEW h,
           \A e \in o + 1 .. Len(list) + 1 : g[e] = h[e]
    PROVE  TlvsAt(list, g, o) = TlvsAt(list, h, o)
  <1>1. PICK end : end = o + 2 + list[o + 1]
    OBVIOUS
  <1>2. Len(list) \in Nat
    OBVIOUS
  <1>3. CASE o = Len(list) + 1 \/ o = Len(list)
    BY <1>1, <1>2, <1>3, TlvsAtCases
  <1>4. CASE o # Len(list) + 1 /\ o # Len(list)
    <2>1. CASE end > Len(list) + 1
      BY <1>1, <1>2, <1>4, <2>1, TlvsAtCases
    <2>2. CASE ~(end > Len(list) + 1)
      <3> DEFINE tlv == <<[type |-> list[o], value |-> SubSeq(list, o + 2, end - 1)]>>
      <3>1. g[end] = h[end]
        BY <1>1, <1>4, <2>2, TlvEnd
      <3>2. TlvsAt(list, g, o) = tlv \o g[end] /\ TlvsAt(list, h, o) = tlv \o h[end]
        BY <1>1, <1>2, <1>4, <2>2, TlvsAtCases
      <3> HIDE DEF tlv
      <3>3. QED BY <3>1, <3>2
    <2>3. QED BY <2>1, <2>2
  <1>5. QED BY <1>3, <1>4

\* What is read is TLVs of bytes.
LEMMA TlvsAtTyped ==
    ASSUME NEW list \in Seq(Byte), NEW o \in 1 .. Len(list) + 1, NEW g,
           \A e \in o + 1 .. Len(list) + 1 : g[e] \in Seq(TlvType)
    PROVE  TlvsAt(list, g, o) \in Seq(TlvType)
  <1>1. PICK end : end = o + 2 + list[o + 1]
    OBVIOUS
  <1>2. Len(list) \in Nat
    OBVIOUS
  <1>3. <<>> \in Seq(TlvType) /\ <<Broken>> \in Seq(TlvType)
    <2>1. Broken \in TlvType
      BY DEF TlvType
    <2>2. QED BY <2>1
  <1>4. CASE o = Len(list) + 1 \/ o = Len(list)
    BY <1>1, <1>2, <1>3, <1>4, TlvsAtCases
  <1>5. CASE o # Len(list) + 1 /\ o # Len(list)
    <2>1. CASE end > Len(list) + 1
      BY <1>1, <1>2, <1>3, <1>5, <2>1, TlvsAtCases
    <2>2. CASE ~(end > Len(list) + 1)
      <3> DEFINE tlv == [type |-> list[o], value |-> SubSeq(list, o + 2, end - 1)]
      <3>1. /\ o \in Nat /\ list[o] \in Byte /\ end \in Nat /\ end >= o + 2
            /\ end \in o + 1 .. Len(list) + 1
        BY <1>1, <1>5, <2>2, TlvEnd
      <3>2. \A i \in o + 2 .. end - 1 : list[i] \in Byte
        <4>1. \A i \in o + 2 .. end - 1 : i \in 1 .. Len(list)
          BY <1>2, <2>2, <3>1
        <4>2. QED BY <4>1
      <3>3. SubSeq(list, o + 2, end - 1) \in Seq(Byte)
        <4>1. o + 2 \in Int /\ end - 1 \in Int
          BY <3>1
        <4>2. QED BY <3>2, <4>1, SubSeqProperties
      <3>4. tlv \in TlvType
        BY <3>1, <3>3 DEF TlvType
      <3>5. TlvsAt(list, g, o) = <<tlv>> \o g[end] /\ g[end] \in Seq(TlvType)
        BY <1>1, <1>2, <1>5, <2>2, <3>1, TlvsAtCases
      <3> HIDE DEF tlv
      <3>6. <<tlv>> \in Seq(TlvType)
        BY <3>4
      <3>7. QED BY <3>5, <3>6
    <2>3. QED BY <2>1, <2>2
  <1>6. QED BY <1>4, <1>5

\* The TLVs from every place of a list on exist, as Tlvs defines them, and keep their type.
LEMMA TlvsSteps ==
    ASSUME NEW list \in Seq(Byte)
    PROVE  \E f : /\ Tlvs(list) = f[1]
                  /\ \A o \in 1 .. Len(list) + 1 :
                       f[o] = TlvsAt(list, f, o) /\ f[o] \in Seq(TlvType)
  <1> DEFINE N == Len(list)
             Reads(g, m) == \A o \in N + 1 - m .. N + 1 : g[o] = TlvsAt(list, g, o)
             B == {m \in 0 .. N : \E g : Reads(g, m)}
             f == CHOOSE g : g = [o \in 1 .. N + 1 |-> TlvsAt(list, g, o)]
  <1>1. N \in Nat /\ N \in 0 .. N
    OBVIOUS
  <1>2. 0 \in B
    <2> DEFINE last == [o \in N + 1 .. N + 1 |-> TlvsAt(list, <<>>, o)]
    <2>1. ASSUME NEW o \in N + 1 - 0 .. N + 1 PROVE last[o] = TlvsAt(list, last, o)
      <3>1. o = N + 1 /\ o \in 1 .. N + 1 /\ o \in N + 1 .. N + 1
        BY <1>1
      <3>2. \A e \in o + 1 .. N + 1 : FALSE
        BY <1>1, <3>1
      <3>3. last[o] = TlvsAt(list, <<>>, o)
        BY <3>1
      <3>4. \A e \in o + 1 .. Len(list) + 1 : <<>>[e] = last[e]
        BY <3>2
      <3> HIDE DEF last
      <3>5. QED BY <3>1, <3>3, <3>4, TlvsAtSame
    <2>2. Reads(last, 0)
      BY <2>1
    <2> HIDE DEF last, Reads
    <2>3. QED BY <1>1, <2>2
  <1>3. ASSUME NEW m \in 0 .. N - 1, m \in B PROVE m + 1 \in B
    <2>1. PICK g : Reads(g, m)
      BY <1>3
    <2> DEFINE h == [o \in N - m .. N + 1 |-> IF o = N - m THEN TlvsAt(list, g, o) ELSE g[o]]
    <2>2. m \in Nat /\ N - m \in 1 .. N + 1 /\ N + 1 - (m + 1) = N - m
      BY <1>1
    <2>3. \A e \in N - m + 1 .. N + 1 : h[e] = g[e]
      <3>1. \A e \in N - m + 1 .. N + 1 : e \in N - m .. N + 1 /\ e # N - m
        BY <2>2
      <3>2. QED BY <3>1
    <2>4. h[N - m] = TlvsAt(list, g, N - m)
      BY <1>1, <2>2
    <2> HIDE DEF h
    <2>5. ASSUME NEW o \in N - m .. N + 1 PROVE h[o] = TlvsAt(list, h, o)
      <3>1. o \in 1 .. N + 1 /\ \A e \in o + 1 .. N + 1 : e \in N - m + 1 .. N + 1
        BY <1>1, <2>2
      <3>2. \A e \in o + 1 .. Len(list) + 1 : g[e] = h[e]
        BY <2>3, <3>1
      <3>3. TlvsAt(list, g, o) = TlvsAt(list, h, o)
        BY <3>1, <3>2, TlvsAtSame
      <3>4. CASE o = N - m
        BY <2>4, <3>3, <3>4
      <3>5. CASE o # N - m
        <4>1. o \in N - m + 1 .. N + 1 /\ o \in N + 1 - m .. N + 1
          BY <1>1, <2>2, <3>5
        <4>2. QED BY <2>1, <2>3, <3>3, <4>1
      <3>6. QED BY <3>4, <3>5
    <2>6. Reads(h, m + 1)
      BY <2>2, <2>5
    <2>7. m + 1 \in 0 .. N
      BY <1>1
    <2> HIDE DEF Reads
    <2>8. QED BY <2>6, <2>7
  <1>4. PICK g : Reads(g, N)
    <2> HIDE DEF B
    <2>1. 0 .. N \subseteq B
      BY <1>1, <1>2, <1>3, Climb
    <2>2. N \in B
      BY <1>1, <2>1
    <2>3. QED BY <2>2 DEF B
  <1>5. \A o \in 1 .. N + 1 : g[o] = TlvsAt(list, g, o)
    <2>1. N + 1 - N = 1
      BY <1>1
    <2>2. QED BY <1>4, <2>1
  <1> DEFINE whole == [o \in 1 .. N + 1 |-> g[o]]
  <1>6. whole = [o \in 1 .. N + 1 |-> TlvsAt(list, whole, o)]
    <2>1. ASSUME NEW o \in 1 .. N + 1 PROVE g[o] = TlvsAt(list, whole, o)
      <3>1. \A e \in o + 1 .. Len(list) + 1 : g[e] = whole[e]
        BY <1>1
      <3> HIDE DEF whole
      <3>2. QED BY <1>5, <3>1, TlvsAtSame
    <2>2. QED BY <2>1
  <1>7. f = [o \in 1 .. N + 1 |-> TlvsAt(list, f, o)]
    <2> HIDE DEF whole
    <2>1. QED BY <1>6
  <1>8. Tlvs(list) = f[1]
    BY DEF Tlvs, TlvsAt
  <1> HIDE DEF f
  <1>9. \A o \in 1 .. N + 1 : f[o] = TlvsAt(list, f, o)
    BY <1>7
  <1> DEFINE C == {m \in 0 .. N : \A o \in N + 1 - m .. N + 1 : f[o] \in Seq(TlvType)}
  <1>10. 0 \in C
    <2>1. ASSUME NEW o \in N + 1 - 0 .. N + 1 PROVE f[o] \in Seq(TlvType)
      <3>1. o \in 1 .. N + 1 /\ \A e \in o + 1 .. Len(list) + 1 : FALSE
        BY <1>1
      <3>2. TlvsAt(list, f, o) \in Seq(TlvType)
        BY <3>1, TlvsAtTyped
      <3>3. QED BY <1>9, <3>1, <3>2
    <2>2. QED BY <1>1, <2>1
  <1>11. ASSUME NEW m \in 0 .. N - 1, m \in C PROVE m + 1 \in C
    <2>1. m \in Nat /\ N - m \in 1 .. N + 1 /\ N + 1 - (m + 1) = N - m /\ m + 1 \in 0 .. N
      BY <1>1
    <2>2. \A e \in N - m + 1 .. N + 1 : f[e] \in Seq(TlvType)
      <3>1. \A e \in N - m + 1 .. N + 1 : e \in N + 1 - m .. N + 1
        BY <1>1, <2>1
      <3>2. QED BY <1>11, <3>1
    <2>3. f[N - m] \in Seq(TlvType)
      <3>1. TlvsAt(list, f, N - m) \in Seq(TlvType)
        BY <2>1, <2>2, TlvsAtTyped
      <3>2. QED BY <1>9, <2>1, <3>1
    <2>4. \A o \in N - m .. N + 1 : o = N - m \/ o \in N - m + 1 .. N + 1
      BY <1>1, <2>1
    <2>5. \A o \in N - m .. N + 1 : f[o] \in Seq(TlvType)
      BY <2>2, <2>3, <2>4
    <2>6. QED BY <2>1, <2>5
  <1>12. 0 .. N \subseteq C
    <2> HIDE DEF C
    <2>1. QED BY <1>1, <1>10, <1>11, Climb
  <1>13. \A o \in 1 .. N + 1 : f[o] \in Seq(TlvType)
    <2>1. N \in C /\ N + 1 - N = 1
      BY <1>1, <1>12
    <2>2. QED BY <2>1
  <1>14. QED BY <1>8, <1>9, <1>13

\* A link's parameters keep their type whatever list is read.
LEMMA ConfigureTyped ==
    ASSUME NEW p \in ParamType, NEW list \in Seq(Byte)
    PROVE  /\ Tlvs(list) \in Seq(TlvType)
           /\ llc_link_configure(p, list) \in ReaderType
  <1>1. Tlvs(list) \in Seq(TlvType)
    <2>1. PICK f : /\ Tlvs(list) = f[1]
                   /\ \A o \in 1 .. Len(list) + 1 : f[o] \in Seq(TlvType)
      BY TlvsSteps
    <2>2. 1 \in 1 .. Len(list) + 1
      OBVIOUS
    <2>3. QED BY <2>1, <2>2
  <1>2. ASSUME NEW tlvs \in Seq(TlvType) PROVE ReadTlvs(p, tlvs) \in ReaderType
    <2>1. Len(tlvs) \in 0 .. Len(tlvs)
      OBVIOUS
    <2>2. PICK g : Reading(g, p, tlvs, Len(tlvs))
      BY ReadTlvsSteps
    <2>3. g \in [0 .. Len(tlvs) -> ReaderType] /\ ReadTlvs(p, tlvs) = g[Len(tlvs)]
      BY <2>2 DEF Reading
    <2>4. QED BY <2>1, <2>3
  <1>3. QED BY <1>1, <1>2 DEF llc_link_configure

-----------------------------------------------------------------------------
(***************************************************************************)
(* The writer.  What a device announces itself with is a list of bytes:    *)
(* the parts of a number, and the services below 16 as a sum of bits.      *)
(***************************************************************************)
Bit(saps, i) == IF i \in saps THEN 1 ELSE 0

\* llc_link_get_wks adds up the bits of the services below 16.
LEMMA MaskIsSum ==
    ASSUME NEW saps
    PROVE  \E g : /\ llc_link_get_wks(saps) = g[16] /\ g[0] = 0
                  /\ \A i \in 1 .. 16 :
                       g[i] = g[i - 1] + IF i - 1 \in saps THEN 2 ^ (i - 1) ELSE 0
  <1> DEFINE Adds(g, m) == /\ g[0] = 0
                           /\ \A i \in 1 .. m :
                                g[i] = g[i - 1] + IF i - 1 \in saps THEN 2 ^ (i - 1) ELSE 0
             B == {m \in 0 .. 16 : \E g : Adds(g, m)}
             f == CHOOSE g : g = [i \in 0 .. 16 |->
                    IF i = 0 THEN 0 ELSE g[i - 1] + IF i - 1 \in saps THEN 2 ^ (i - 1) ELSE 0]
  <1>1. 0 \in B
    <2> DEFINE none == [i \in 0 .. 0 |-> 0]
    <2>1. Adds(none, 0)
      OBVIOUS
    <2> HIDE DEF Adds, none
    <2>2. QED BY <2>1
  <1>2. ASSUME NEW m \in 0 .. 16 - 1, m \in B PROVE m + 1 \in B
    <2>1. PICK g : Adds(g, m)
      BY <1>2
    <2> DEFINE more == g[m] + IF m \in saps THEN 2 ^ m ELSE 0
               h == [i \in 0 .. m + 1 |-> IF i = m + 1 THEN more ELSE g[i]]
    <2>2. m \in Nat /\ m + 1 \in 0 .. 16 /\ (m + 1) - 1 = m
      OBVIOUS
    <2>3. h[0] = 0 /\ h[m + 1] = more /\ \A i \in 1 .. m : h[i] = g[i] /\ h[i - 1] = g[i - 1]
      <3>1. /\ 0 \in 0 .. m + 1 /\ 0 # m + 1 /\ m + 1 \in 0 .. m + 1 /\ g[0] = 0
            /\ \A i \in 1 .. m : /\ i \in 0 .. m + 1 /\ i # m + 1
                                /\ i - 1 \in 0 .. m + 1 /\ i - 1 # m + 1
        BY <2>1, <2>2
      <3> HIDE DEF more
      <3>2. QED BY <3>1, Zenon
    <2>4. h[m] = g[m]
      <3>1. m \in 0 .. m + 1 /\ m # m + 1
        BY <2>2
      <3> HIDE DEF more
      <3>2. QED BY <3>1, Zenon
    <2> HIDE DEF h
    <2>5. ASSUME NEW i \in 1 .. m + 1
          PROVE  h[i] = h[i - 1] + IF i - 1 \in saps THEN 2 ^ (i - 1) ELSE 0
      <3>1. CASE i = m + 1
        BY <2>2, <2>3, <2>4, <3>1, Zenon
      <3>2. CASE i # m + 1
        <4>1. i \in 1 .. m
          BY <2>2, <3>2
        <4>2. g[i] = g[i - 1] + IF i - 1 \in saps THEN 2 ^ (i - 1) ELSE 0
          BY <2>1, <4>1
        <4>3. QED BY <2>3, <4>1, <4>2, Zenon
      <3>3. QED BY <3>1, <3>2
    <2>6. Adds(h, m + 1)
      BY <2>3, <2>5
    <2> HIDE DEF Adds
    <2>7. QED BY <2>2, <2>6
  <1>3. PICK g : Adds(g, 16)
    <2> HIDE DEF B
    <2>1. 0 .. 16 \subseteq B
      BY <1>1, <1>2, Climb
    <2>2. 16 \in B
      BY <2>1
    <2>3. QED BY <2>2 DEF B
  <1> DEFINE whole == [i \in 0 .. 16 |-> g[i]]
  <1>4. whole = [i \in 0 .. 16 |->
           IF i = 0 THEN 0 ELSE whole[i - 1] + IF i - 1 \in saps THEN 2 ^ (i - 1) ELSE 0]
    <2>1. ASSUME NEW i \in 0 .. 16
          PROVE  g[i] = IF i = 0 THEN 0
                        ELSE whole[i - 1] + IF i - 1 \in saps THEN 2 ^ (i - 1) ELSE 0
      <3>1. CASE i = 0
        BY <1>3, <3>1
      <3>2. CASE i # 0
        <4>1. i \in 1 .. 16 /\ i - 1 \in 0 .. 16
          BY <3>2
        <4>2. whole[i - 1] = g[i - 1]
          BY <4>1, Zenon
        <4>3. g[i] = g[i - 1] + IF i - 1 \in saps THEN 2 ^ (i - 1) ELSE 0
          BY <1>3, <4>1
        <4> HIDE DEF whole
        <4>4. QED BY <3>2, <4>2, <4>3, Zenon
      <3>3. QED BY <3>1, <3>2
    <2>2. QED BY <2>1, Zenon
  <1>5. f = [i \in 0 .. 16 |->
           IF i = 0 THEN 0 ELSE f[i - 1] + IF i - 1 \in saps THEN 2 ^ (i - 1) ELSE 0]
    <2> HIDE DEF whole
    <2>1. QED BY <1>4, Zenon
  <1>6. llc_link_get_wks(saps) = f[16]
    BY Zenon DEF llc_link_get_wks
  <1> HIDE DEF f
  <1>7. f[0] = 0
    <2>1. 0 \in 0 .. 16
      OBVIOUS
    <2>2. QED BY <1>5, <2>1, Zenon
  <1>8. ASSUME NEW i \in 1 .. 16
        PROVE  f[i] = f[i - 1] + IF i - 1 \in saps THEN 2 ^ (i - 1) ELSE 0
    <2>1. i \in 0 .. 16 /\ i # 0
      OBVIOUS
    <2>2. QED BY <1>5, <2>1, Zenon
  <1>9. QED BY <1>6, <1>7, <1>8

MaskSum(saps) ==
  Bit(saps, 0) + 2 * Bit(saps, 1) + 4 * Bit(saps, 2) + 8 * Bit(saps, 3)
    + 16 * Bit(saps, 4) + 32 * Bit(saps, 5) + 64 * Bit(saps, 6) + 128 * Bit(saps, 7)
    + 256 * Bit(saps, 8) + 512 * Bit(saps, 9) + 1024 * Bit(saps, 10)
    + 2048 * Bit(saps, 11) + 4096 * Bit(saps, 12) + 8192 * Bit(saps, 13)
    + 16384 * Bit(saps, 14) + 32768 * Bit(saps, 15)

\* Sixteen bits, added up.
LEMMA MaskBits ==
    ASSUME NEW saps, NEW w, w = llc_link_get_wks(saps)
    PROVE  w = MaskSum(saps)
  <1>1. PICK g : /\ w = g[16] /\ g[0] = 0
                 /\ \A i \in 1 .. 16 :
                      g[i] = g[i - 1] + IF i - 1 \in saps THEN 2 ^ (i - 1) ELSE 0
    <2>1. \E g : /\ llc_link_get_wks(saps) = g[16] /\ g[0] = 0
                 /\ \A i \in 1 .. 16 :
                      g[i] = g[i - 1] + IF i - 1 \in saps THEN 2 ^ (i - 1) ELSE 0
      BY MaskIsSum
    <2>2. QED BY <2>1, Zenon
  <1>2. /\ 2^0 = 1 /\ 2^1 = 2 /\ 2^2 = 4 /\ 2^3 = 8 /\ 2^4 = 16 /\ 2^5 = 32 /\ 2^6 = 64
        /\ 2^7 = 128 /\ 2^8 = 256 /\ 2^9 = 512 /\ 2^10 = 1024 /\ 2^11 = 2048 /\ 2^12 = 4096
        /\ 2^13 = 8192 /\ 2^14 = 16384 /\ 2^15 = 32768
    BY SMT
  <1>3. \A i \in 0 .. 15 : g[i + 1] = g[i] + IF i \in saps THEN 2 ^ i ELSE 0
    <2>1. ASSUME NEW i \in 0 .. 15 PROVE g[i + 1] = g[i] + IF i \in saps THEN 2 ^ i ELSE 0
      <3>1. i + 1 \in 1 .. 16 /\ (i + 1) - 1 = i
        OBVIOUS
      <3>2. g[i + 1] = g[(i + 1) - 1] + IF (i + 1) - 1 \in saps THEN 2 ^ ((i + 1) - 1) ELSE 0
        BY <1>1, <3>1, Zenon
      <3>3. QED BY <3>1, <3>2, Zenon
    <2>2. QED BY <2>1
  <1>4. \A i \in 0 .. 15 : Bit(saps, i) \in {0, 1}
    BY DEF Bit
  <1>5. /\ g[1] = g[0] + Bit(saps, 0) /\ g[2] = g[1] + 2 * Bit(saps, 1)
        /\ g[3] = g[2] + 4 * Bit(saps, 2) /\ g[4] = g[3] + 8 * Bit(saps, 3)
    BY <1>1, <1>2, <1>3, SMT DEF Bit
  <1>6. /\ g[5] = g[4] + 16 * Bit(saps, 4) /\ g[6] = g[5] + 32 * Bit(saps, 5)
        /\ g[7] = g[6] + 64 * Bit(saps, 6) /\ g[8] = g[7] + 128 * Bit(saps, 7)
    BY <1>2, <1>3, SMT DEF Bit
  <1>7. /\ g[9] = g[8] + 256 * Bit(saps, 8) /\ g[10] = g[9] + 512 * Bit(saps, 9)
        /\ g[11] = g[10] + 1024 * Bit(saps, 10) /\ g[12] = g[11] + 2048 * Bit(saps, 11)
    BY <1>2, <1>3, SMT DEF Bit
  <1>8. /\ g[13] = g[12] + 4096 * Bit(saps, 12) /\ g[14] = g[13] + 8192 * Bit(saps, 13)
        /\ g[15] = g[14] + 16384 * Bit(saps, 14) /\ g[16] = g[15] + 32768 * Bit(saps, 15)
    BY <1>2, <1>3, SMT DEF Bit
  <1>9. QED BY <1>1, <1>4, <1>5, <1>6, <1>7, <1>8, SMT DEF MaskSum

\* The bits of a number, added up.
LEMMA EightBits ==
    ASSUME NEW b0 \in {0, 1}, NEW b1 \in {0, 1}, NEW b2 \in {0, 1}, NEW b3 \in {0, 1},
           NEW b4 \in {0, 1}, NEW b5 \in {0, 1}, NEW b6 \in {0, 1}, NEW b7 \in {0, 1}
    PROVE  /\ b0 + 2 * b1 + 4 * b2 + 8 * b3 + 16 * b4 + 32 * b5 + 64 * b6 + 128 * b7 \in Nat
           /\ b0 + 2 * b1 + 4 * b2 + 8 * b3 + 16 * b4 + 32 * b5 + 64 * b6 + 128 * b7 <= UINT8_MAX
  BY WidthsAre, SMT

\* The mask fits two bytes.
LEMMA MaskInRange ==
    ASSUME NEW saps
    PROVE  /\ llc_link_get_wks(saps) \in Nat /\ llc_link_get_wks(saps) <= UINT16_MAX
           /\ llc_link_get_wks(saps) - (llc_link_get_wks(saps) % 2) + 1 \in Nat
           /\ llc_link_get_wks(saps) - (llc_link_get_wks(saps) % 2) + 1 <= UINT16_MAX
  <1>1. PICK w : w = llc_link_get_wks(saps)
    OBVIOUS
  <1>2. /\ Bit(saps, 0) \in {0, 1} /\ Bit(saps, 1) \in {0, 1} /\ Bit(saps, 2) \in {0, 1}
        /\ Bit(saps, 3) \in {0, 1} /\ Bit(saps, 4) \in {0, 1} /\ Bit(saps, 5) \in {0, 1}
        /\ Bit(saps, 6) \in {0, 1} /\ Bit(saps, 7) \in {0, 1} /\ Bit(saps, 8) \in {0, 1}
        /\ Bit(saps, 9) \in {0, 1} /\ Bit(saps, 10) \in {0, 1} /\ Bit(saps, 11) \in {0, 1}
        /\ Bit(saps, 12) \in {0, 1} /\ Bit(saps, 13) \in {0, 1} /\ Bit(saps, 14) \in {0, 1}
        /\ Bit(saps, 15) \in {0, 1}
    BY DEF Bit
  <1>3. w = MaskSum(saps)
    BY <1>1, MaskBits
  <1> DEFINE lo == Bit(saps, 0) + 2 * Bit(saps, 1) + 4 * Bit(saps, 2) + 8 * Bit(saps, 3)
                     + 16 * Bit(saps, 4) + 32 * Bit(saps, 5) + 64 * Bit(saps, 6) + 128 * Bit(saps, 7)
             hi == Bit(saps, 8) + 2 * Bit(saps, 9) + 4 * Bit(saps, 10) + 8 * Bit(saps, 11)
                     + 16 * Bit(saps, 12) + 32 * Bit(saps, 13) + 64 * Bit(saps, 14) + 128 * Bit(saps, 15)
  <1>4. lo \in Nat /\ lo <= UINT8_MAX
    BY <1>2, EightBits, SMT
  <1>5. hi \in Nat /\ hi <= UINT8_MAX
    BY <1>2, EightBits, SMT
  <1>6. w = lo + 256 * hi
    <2> DEFINE b(i) == Bit(saps, i)
    <2>1. /\ b(0) \in Int /\ b(1) \in Int /\ b(2) \in Int /\ b(3) \in Int
          /\ b(4) \in Int /\ b(5) \in Int /\ b(6) \in Int /\ b(7) \in Int
          /\ b(8) \in Int /\ b(9) \in Int /\ b(10) \in Int /\ b(11) \in Int
          /\ b(12) \in Int /\ b(13) \in Int /\ b(14) \in Int /\ b(15) \in Int
      BY <1>2
    <2>2. MaskSum(saps) = lo + 256 * hi
      BY <2>1, SMT DEF MaskSum
    <2>3. QED BY <1>3, <2>2, Zenon
  <1> HIDE DEF lo, hi
  <1>7. w \in Nat /\ w <= UINT16_MAX
    BY <1>4, <1>5, <1>6, WidthsAre, SMT
  <1>8. w - (w % 2) + 1 \in Nat /\ w - (w % 2) + 1 <= UINT16_MAX
    BY <1>7, WidthsAre, SMT
  <1>9. QED BY <1>1, <1>7, <1>8, Zenon

\* A number of two bytes, taken apart.
LEMMA WordParts ==
    ASSUME NEW w \in Nat, w <= UINT16_MAX
    PROVE  /\ w \div 256 \in Byte /\ w % 256 \in Byte
           /\ 256 * (w \div 256) + (w % 256) = w
  <1>1. /\ w \div 256 \in Nat /\ w \div 256 <= UINT8_MAX
        /\ w % 256 \in Nat /\ w % 256 <= UINT8_MAX
        /\ 256 * (w \div 256) + (w % 256) = w
    BY WidthsAre, SMT
  <1>2. QED BY <1>1, InByte, Zenon

\* The list a device announces, byte by byte.
Listed(list, v, mh, ml, wh, wl, l, o) ==
  /\ list \in Seq(Byte) /\ Len(list) = 17
  /\ list[1] = 1 /\ list[2] = 1 /\ list[3] = v
  /\ list[4] = 2 /\ list[5] = 2 /\ list[6] = mh /\ list[7] = ml
  /\ list[8] = 3 /\ list[9] = 2 /\ list[10] = wh /\ list[11] = wl
  /\ list[12] = 4 /\ list[13] = 1 /\ list[14] = l
  /\ list[15] = 7 /\ list[16] = 1 /\ list[17] = o

\* Two sequences one behind the other.
Joins(q, s, t, n, l) ==
  /\ q \in Seq(Byte) /\ Len(q) = n + l
  /\ \A i \in Nat : /\ 1 <= i /\ i <= n => q[i] = s[i]
                    /\ 1 <= i /\ i <= l => q[n + i] = t[i]

\* Concatenation does that.
LEMMA JoinedAt ==
    ASSUME NEW s \in Seq(Byte), NEW t \in Seq(Byte), NEW q, q = s \o t,
           NEW n \in Nat, n = Len(s), NEW l \in Nat, l = Len(t)
    PROVE  Joins(q, s, t, n, l)
  <1>1. q \in Seq(Byte) /\ Len(q) = n + l
    OBVIOUS
  <1>2. \A j \in 1 .. n + l : q[j] = IF j <= n THEN s[j] ELSE t[j - n]
    BY ConcatProperties
  <1>3. ASSUME NEW i \in Nat, 1 <= i, i <= n PROVE q[i] = s[i]
    <2>1. i \in 1 .. n + l
      BY <1>3
    <2>2. QED BY <1>2, <1>3, <2>1
  <1>4. ASSUME NEW i \in Nat, 1 <= i, i <= l PROVE q[n + i] = t[i]
    <2>1. n + i \in 1 .. n + l /\ ~(n + i <= n) /\ (n + i) - n = i
      BY <1>4
    <2>2. QED BY <1>2, <2>1
  <1>5. QED BY <1>1, <1>3, <1>4 DEF Joins

\* The five TLVs, one behind the other, are the list of 17 bytes.
LEMMA Joined ==
    ASSUME NEW v \in Byte, NEW mh \in Byte, NEW ml \in Byte, NEW wh \in Byte,
           NEW wl \in Byte, NEW k \in Byte, NEW o \in Byte
    PROVE  Listed(<<1, 1, v>> \o (<<2, 2>> \o <<mh, ml>>) \o (<<3, 2>> \o <<wh, wl>>)
                    \o <<4, 1, k>> \o <<7, 1, o>>, v, mh, ml, wh, wl, k, o)
  <1>0. 1 \in Byte /\ 2 \in Byte /\ 3 \in Byte /\ 4 \in Byte /\ 7 \in Byte
    BY InByte, WidthsAre, SMT
  <1>1. ASSUME NEW a \in Byte, NEW b \in Byte, NEW c \in Byte, NEW d \in Byte
        PROVE  /\ <<a, b>> \o <<c, d>> \in Seq(Byte) /\ Len(<<a, b>> \o <<c, d>>) = 4
               /\ (<<a, b>> \o <<c, d>>)[1] = a /\ (<<a, b>> \o <<c, d>>)[2] = b
               /\ (<<a, b>> \o <<c, d>>)[3] = c /\ (<<a, b>> \o <<c, d>>)[4] = d
    OBVIOUS
  <1>2. PICK m : m = <<2, 2>> \o <<mh, ml>>
    OBVIOUS
  <1>3. /\ m \in Seq(Byte) /\ Len(m) = 4
        /\ m[1] = 2 /\ m[2] = 2 /\ m[3] = mh /\ m[4] = ml
    BY <1>0, <1>1, <1>2
  <1>4. PICK w : w = <<3, 2>> \o <<wh, wl>>
    OBVIOUS
  <1>5. /\ w \in Seq(Byte) /\ Len(w) = 4
        /\ w[1] = 3 /\ w[2] = 2 /\ w[3] = wh /\ w[4] = wl
    BY <1>0, <1>1, <1>4
  <1>6. ASSUME NEW a \in Byte, NEW b \in Byte, NEW c \in Byte
        PROVE  /\ <<a, b, c>> \in Seq(Byte) /\ Len(<<a, b, c>>) = 3
               /\ <<a, b, c>>[1] = a /\ <<a, b, c>>[2] = b /\ <<a, b, c>>[3] = c
    OBVIOUS
  <1>7. PICK f : f = <<1, 1, v>>
    OBVIOUS
  <1>8. PICK d : d = <<4, 1, k>>
    OBVIOUS
  <1>9. PICK e : e = <<7, 1, o>>
    OBVIOUS
  <1>10. /\ f \in Seq(Byte) /\ Len(f) = 3 /\ f[1] = 1 /\ f[2] = 1 /\ f[3] = v
         /\ d \in Seq(Byte) /\ Len(d) = 3 /\ d[1] = 4 /\ d[2] = 1 /\ d[3] = k
         /\ e \in Seq(Byte) /\ Len(e) = 3 /\ e[1] = 7 /\ e[2] = 1 /\ e[3] = o
    BY <1>0, <1>6, <1>7, <1>8, <1>9
  <1>11. PICK q : q = f \o m
    OBVIOUS
  <1>12. /\ q \in Seq(Byte) /\ Len(q) = 7
         /\ q[1] = 1 /\ q[2] = 1 /\ q[3] = v /\ q[4] = 2 /\ q[5] = 2 /\ q[6] = mh
         /\ q[7] = ml
    <2>1. PICK n \in Nat, l \in Nat : n = 3 /\ l = 4
      OBVIOUS
    <2>2. Joins(q, f, m, n, l)
      BY <1>3, <1>10, <1>11, <2>1, JoinedAt
    <2>3. q[1] = f[1] /\ q[2] = f[2] /\ q[3] = f[3] /\ q[4] = m[1]
      BY <2>1, <2>2, SMTT(30) DEF Joins
    <2>4. q[5] = m[2] /\ q[6] = m[3] /\ q[7] = m[4]
      BY <2>1, <2>2, SMTT(30) DEF Joins
    <2>5. q \in Seq(Byte) /\ Len(q) = 7
      BY <2>1, <2>2, SMTT(30) DEF Joins
    <2>6. QED BY <1>3, <1>10, <1>11, <2>3, <2>4, <2>5
  <1>13. PICK r : r = q \o w
    OBVIOUS
  <1>14. /\ r \in Seq(Byte) /\ Len(r) = 11
         /\ r[1] = 1 /\ r[2] = 1 /\ r[3] = v /\ r[4] = 2 /\ r[5] = 2 /\ r[6] = mh
         /\ r[7] = ml /\ r[8] = 3 /\ r[9] = 2 /\ r[10] = wh /\ r[11] = wl
    <2>1. PICK n \in Nat, l \in Nat : n = 7 /\ l = 4
      OBVIOUS
    <2>2. Joins(r, q, w, n, l)
      BY <1>5, <1>12, <1>13, <2>1, JoinedAt
    <2>3. r[1] = q[1] /\ r[2] = q[2] /\ r[3] = q[3] /\ r[4] = q[4]
      BY <2>1, <2>2, SMTT(30) DEF Joins
    <2>4. r[5] = q[5] /\ r[6] = q[6] /\ r[7] = q[7] /\ r[8] = w[1]
      BY <2>1, <2>2, SMTT(30) DEF Joins
    <2>5. r[9] = w[2] /\ r[10] = w[3] /\ r[11] = w[4]
      BY <2>1, <2>2, SMTT(30) DEF Joins
    <2>6. r \in Seq(Byte) /\ Len(r) = 11
      BY <2>1, <2>2, SMTT(30) DEF Joins
    <2>7. QED BY <1>5, <1>12, <1>13, <2>3, <2>4, <2>5, <2>6
  <1>15. PICK x : x = r \o d
    OBVIOUS
  <1>16. /\ x \in Seq(Byte) /\ Len(x) = 14
         /\ x[1] = 1 /\ x[2] = 1 /\ x[3] = v /\ x[4] = 2 /\ x[5] = 2 /\ x[6] = mh
         /\ x[7] = ml /\ x[8] = 3 /\ x[9] = 2 /\ x[10] = wh /\ x[11] = wl /\ x[12] = 4
         /\ x[13] = 1 /\ x[14] = k
    <2>1. PICK n \in Nat, l \in Nat : n = 11 /\ l = 3
      OBVIOUS
    <2>2. Joins(x, r, d, n, l)
      BY <1>10, <1>14, <1>15, <2>1, JoinedAt
    <2>3. x[1] = r[1] /\ x[2] = r[2] /\ x[3] = r[3] /\ x[4] = r[4]
      BY <2>1, <2>2, SMTT(30) DEF Joins
    <2>4. x[5] = r[5] /\ x[6] = r[6] /\ x[7] = r[7] /\ x[8] = r[8]
      BY <2>1, <2>2, SMTT(30) DEF Joins
    <2>5. x[9] = r[9] /\ x[10] = r[10] /\ x[11] = r[11] /\ x[12] = d[1]
      BY <2>1, <2>2, SMTT(30) DEF Joins
    <2>6. x[13] = d[2] /\ x[14] = d[3]
      BY <2>1, <2>2, SMTT(30) DEF Joins
    <2>7. x \in Seq(Byte) /\ Len(x) = 14
      BY <2>1, <2>2, SMTT(30) DEF Joins
    <2>8. QED BY <1>10, <1>14, <1>15, <2>3, <2>4, <2>5, <2>6, <2>7
  <1>17. PICK y : y = x \o e
    OBVIOUS
  <1>18. /\ y \in Seq(Byte) /\ Len(y) = 17
         /\ y[1] = 1 /\ y[2] = 1 /\ y[3] = v /\ y[4] = 2 /\ y[5] = 2 /\ y[6] = mh
         /\ y[7] = ml /\ y[8] = 3 /\ y[9] = 2 /\ y[10] = wh /\ y[11] = wl /\ y[12] = 4
         /\ y[13] = 1 /\ y[14] = k /\ y[15] = 7 /\ y[16] = 1 /\ y[17] = o
    <2>1. PICK n \in Nat, l \in Nat : n = 14 /\ l = 3
      OBVIOUS
    <2>2. Joins(y, x, e, n, l)
      BY <1>10, <1>16, <1>17, <2>1, JoinedAt
    <2>3. y[1] = x[1] /\ y[2] = x[2] /\ y[3] = x[3] /\ y[4] = x[4]
      BY <2>1, <2>2, SMTT(30) DEF Joins
    <2>4. y[5] = x[5] /\ y[6] = x[6] /\ y[7] = x[7] /\ y[8] = x[8]
      BY <2>1, <2>2, SMTT(30) DEF Joins
    <2>5. y[9] = x[9] /\ y[10] = x[10] /\ y[11] = x[11] /\ y[12] = x[12]
      BY <2>1, <2>2, SMTT(30) DEF Joins
    <2>6. y[13] = x[13] /\ y[14] = x[14] /\ y[15] = e[1] /\ y[16] = e[2]
      BY <2>1, <2>2, SMTT(30) DEF Joins
    <2>7. y[17] = e[3]
      BY <2>1, <2>2, SMTT(30) DEF Joins
    <2>8. y \in Seq(Byte) /\ Len(y) = 17
      BY <2>1, <2>2, SMTT(30) DEF Joins
    <2>9. QED BY <1>10, <1>16, <1>17, <2>3, <2>4, <2>5, <2>6, <2>7, <2>8
  <1>19. Listed(y, v, mh, ml, wh, wl, k, o)
    BY <1>18 DEF Listed
  <1>20. QED BY <1>2, <1>4, <1>7, <1>8, <1>9, <1>11, <1>13, <1>15, <1>17, <1>19, Zenon

\* What a device announces itself with: five TLVs, whose bytes say what it is.
LEMMA EncodedBytes ==
    ASSUME NEW p \in Announcers
    PROVE  \E v, mh, ml, wh, wl, l, o \in Byte :
             /\ Listed(llc_link_encode_parameters(p), v, mh, ml, wh, wl, l, o)
             /\ v \div 16 = p.version.major /\ v % 16 = p.version.minor
             /\ 256 * wh + wl
                  = llc_link_get_wks(p.saps) - (llc_link_get_wks(p.saps) % 2) + 1
             /\ 10 * l = p.lto /\ o = p.opt
  <1>1. /\ p.version \in [major : 0 .. 15, minor : 0 .. 15] /\ p.miu \in 0 .. MaxMiux
        /\ p.lto \in {10 * k : k \in Byte} /\ p.opt \in 0 .. 3
    BY PeersAssumption
  <1>2. PICK a \in 0 .. 15, b \in 0 .. 15 : a = p.version.major /\ b = p.version.minor
    BY <1>1
  <1>3. PICK k \in Byte : p.lto = 10 * k
    BY <1>1
  <1>4. k \in Nat
    BY <1>3, ByteRange
  <1>5. p.lto \div 10 = k
    BY <1>3, <1>4, SMT
  <1>6. p.miu \div 256 \in Byte /\ p.miu % 256 \in Byte
    <2>1. p.miu \in Nat /\ p.miu <= MaxMiux
      BY <1>1, Widths
    <2>2. p.miu <= UINT16_MAX
      BY <2>1, WidthsAre, SMT
    <2>3. QED BY <2>1, <2>2, WordParts
  <1> DEFINE w == llc_link_get_wks(p.saps) - (llc_link_get_wks(p.saps) % 2) + 1
             v == 16 * p.version.major + p.version.minor
  <1>7. w \div 256 \in Byte /\ w % 256 \in Byte /\ 256 * (w \div 256) + (w % 256) = w
    <2>1. w \in Nat /\ w <= UINT16_MAX
      BY MaskInRange
    <2> HIDE DEF w
    <2>2. QED BY <2>1, WordParts
  <1>8. v \in Byte /\ v \div 16 = p.version.major /\ v % 16 = p.version.minor
    <2>1. PICK x : x = v
      OBVIOUS
    <2>2. x = 16 * a + b
      BY <1>2, <2>1
    <2>3. x \in Nat /\ x <= UINT8_MAX /\ x \div 16 = a /\ x % 16 = b
      BY <2>2, WidthsAre, SMT
    <2>4. x \in Byte
      BY <2>3, InByte, Zenon
    <2>5. QED BY <1>2, <2>1, <2>3, <2>4, Zenon
  <1>9. p.opt \in Byte
    <2>1. p.opt \in Nat /\ p.opt <= UINT8_MAX
      BY <1>1, WidthsAre, SMT
    <2>2. QED BY <2>1, InByte, Zenon
  <1>10. Listed(llc_link_encode_parameters(p),
                v, p.miu \div 256, p.miu % 256, w \div 256, w % 256, k, p.opt)
    <2>1. parameter_encode_version(p.version) = <<1, 1, v>>
      BY Zenon DEF parameter_encode_version, VersionType
    <2>2. parameter_encode_miux(p.miu) = <<2, 2>> \o <<p.miu \div 256, p.miu % 256>>
      BY Zenon DEF parameter_encode_miux, TwoBytes, MiuxType
    <2>3. parameter_encode_wks(llc_link_get_wks(p.saps)) = <<3, 2>> \o <<w \div 256, w % 256>>
      BY Zenon DEF parameter_encode_wks, TwoBytes, WksType
    <2>4. parameter_encode_lto(p.lto \div 10) = <<4, 1, k>>
      BY <1>5, Zenon DEF parameter_encode_lto, LtoType
    <2>5. parameter_encode_opt(p.opt) = <<7, 1, p.opt>>
      BY Zenon DEF parameter_encode_opt, OptType
    <2> HIDE DEF v, w
    <2>6. llc_link_encode_parameters(p)
            = <<1, 1, v>> \o (<<2, 2>> \o <<p.miu \div 256, p.miu % 256>>)
                \o (<<3, 2>> \o <<w \div 256, w % 256>>) \o <<4, 1, k>> \o <<7, 1, p.opt>>
      BY <2>1, <2>2, <2>3, <2>4, <2>5, Zenon DEF llc_link_encode_parameters
    <2> DEFINE mh == p.miu \div 256
               ml == p.miu % 256
               wh == w \div 256
               wl == w % 256
    <2>7. mh \in Byte /\ ml \in Byte /\ wh \in Byte /\ wl \in Byte
      BY <1>6, <1>7, Zenon
    <2>8. llc_link_encode_parameters(p)
            = <<1, 1, v>> \o (<<2, 2>> \o <<mh, ml>>)
                \o (<<3, 2>> \o <<wh, wl>>) \o <<4, 1, k>> \o <<7, 1, p.opt>>
      BY <2>6, Zenon
    <2> SUFFICES Listed(llc_link_encode_parameters(p), v, mh, ml, wh, wl, k, p.opt)
      BY Zenon
    <2> HIDE DEF mh, ml, wh, wl
    <2>9. Listed(<<1, 1, v>> \o (<<2, 2>> \o <<mh, ml>>) \o (<<3, 2>> \o <<wh, wl>>)
                    \o <<4, 1, k>> \o <<7, 1, p.opt>>, v, mh, ml, wh, wl, k, p.opt)
      BY <1>3, <1>8, <1>9, <2>7, Joined
    <2>10. QED BY <2>8, <2>9, Zenon
  <1> HIDE DEF v, w
  <1>11. 10 * k = p.lto
    BY <1>3
  <1>12. w = llc_link_get_wks(p.saps) - (llc_link_get_wks(p.saps) % 2) + 1
    BY Zenon DEF w
  <1> DEFINE mh == p.miu \div 256
             ml == p.miu % 256
             wh == w \div 256
             wl == w % 256
  <1>13. /\ v \in Byte /\ mh \in Byte /\ ml \in Byte /\ wh \in Byte /\ wl \in Byte
         /\ Listed(llc_link_encode_parameters(p), v, mh, ml, wh, wl, k, p.opt)
         /\ v \div 16 = p.version.major /\ v % 16 = p.version.minor /\ 256 * wh + wl = w
    BY <1>6, <1>7, <1>8, <1>10, Zenon
  <1> HIDE DEF mh, ml, wh, wl
  <1>14. QED BY <1>3, <1>9, <1>11, <1>12, <1>13

\* Whatever comes as a list is bytes.
LEMMA ListsAreBytes == Lists \subseteq Seq(Byte)
  <1>1. ASSUME NEW p \in Announcers PROVE llc_link_encode_parameters(p) \in Seq(Byte)
    <2>1. PICK v \in Byte, mh \in Byte, ml \in Byte, wh \in Byte, wl \in Byte, l \in Byte,
               o \in Byte :
             /\ Listed(llc_link_encode_parameters(p), v, mh, ml, wh, wl, l, o)
             /\ v \div 16 = p.version.major /\ v % 16 = p.version.minor
             /\ 256 * wh + wl
                  = llc_link_get_wks(p.saps) - (llc_link_get_wks(p.saps) % 2) + 1
             /\ 10 * l = p.lto /\ o = p.opt
      BY EncodedBytes
    <2>2. QED BY <2>1, Zenon DEF Listed
  <1>2. Malformed \subseteq Seq(Byte)
    BY PeersAssumption
  <1>3. QED BY <1>1, <1>2 DEF Lists

-----------------------------------------------------------------------------
(***************************************************************************)
(* The reader and the writer.  A list that was announced is read as the five *)
(* TLVs it was made of, and says what the device that announced it is.     *)
(***************************************************************************)
\* A TLV that the list holds in full is read as it is written.
TlvOf(list, o, k) == [type |-> list[o], value |-> SubSeq(list, o + 2, o + 1 + k)]

ReadsAs(list, g, o, k, tlv) ==
  /\ TlvsAt(list, g, o) = <<tlv>> \o g[o + 2 + k]
  /\ tlv \in TlvType /\ tlv.type = list[o] /\ Len(tlv.value) = k
  /\ tlv.value[1] = list[o + 2] /\ (k = 2 => tlv.value[2] = list[o + 3])

LEMMA TlvRead ==
    ASSUME NEW list \in Seq(Byte), NEW o \in Nat, o >= 1, NEW k \in 1 .. 2,
           o + 1 + k <= Len(list), list[o + 1] = k, NEW g
    PROVE  ReadsAs(list, g, o, k, TlvOf(list, o, k))
  <1>1. PICK n \in Nat : n = Len(list)
    OBVIOUS
  <1>2. /\ o # n + 1 /\ o # n /\ ~(o + 2 + k > n + 1) /\ (o + 2 + k) - 1 = o + 1 + k
        /\ o \in 1 .. n
    BY <1>1
  <1>3. TlvsAt(list, g, o)
          = <<[type |-> list[o], value |-> SubSeq(list, o + 2, (o + 2 + k) - 1)]>> \o g[o + 2 + k]
    BY <1>1, <1>2, TlvsAtCases
  <1>4. TlvsAt(list, g, o) = <<TlvOf(list, o, k)>> \o g[o + 2 + k]
    BY <1>2, <1>3, Zenon DEF TlvOf
  <1> DEFINE value == SubSeq(list, o + 2, o + 1 + k)
  <1>5. /\ value \in Seq(Byte) /\ Len(value) = k
        /\ \A i \in 1 .. k : value[i] = list[o + 2 + i - 1]
    <2>1. \A i \in o + 2 .. o + 1 + k : list[i] \in Byte
      <3>1. \A i \in o + 2 .. o + 1 + k : i \in 1 .. n
        BY <1>1
      <3>2. QED BY <1>1, <3>1
    <2>2. o + 2 \in Int /\ o + 1 + k \in Int /\ o + 2 <= o + 1 + k + 1
          /\ (o + 1 + k) - (o + 2) + 1 = k
      OBVIOUS
    <2>3. QED BY <2>1, <2>2, SubSeqProperties
  <1>6. value[1] = list[o + 2] /\ (k = 2 => value[2] = list[o + 3])
    <2>1. 1 \in 1 .. k /\ o + 2 + 1 - 1 = o + 2 /\ (k = 2 => 2 \in 1 .. k) /\ o + 2 + 2 - 1 = o + 3
      OBVIOUS
    <2> HIDE DEF value
    <2>2. QED BY <1>5, <2>1, Zenon
  <1>7. list[o] \in Byte
    BY <1>1, <1>2
  <1> HIDE DEF value
  <1>8. TlvOf(list, o, k) = [type |-> list[o], value |-> value]
    BY Zenon DEF TlvOf, value
  <1>9. TlvOf(list, o, k) \in TlvType
    BY <1>5, <1>7, <1>8 DEF TlvType
  <1>10. QED BY <1>4, <1>5, <1>6, <1>8, <1>9 DEF ReadsAs

Fronts(q, x, s, n) ==
  /\ q \in Seq(TlvType) /\ Len(q) = n + 1 /\ q[1] = x
  /\ \A i \in Nat : 1 <= i /\ i <= n => q[i + 1] = s[i]

\* A sequence with one more in front.
LEMMA InFront ==
    ASSUME NEW x \in TlvType, NEW s \in Seq(TlvType), NEW n \in Nat, n = Len(s),
           NEW q, q = <<x>> \o s
    PROVE  Fronts(q, x, s, n)
  <1>1. <<x>> \in Seq(TlvType) /\ Len(<<x>>) = 1 /\ <<x>>[1] = x
    OBVIOUS
  <1>2. PICK h : h = <<x>>
    OBVIOUS
  <1>3. /\ h \o s \in Seq(TlvType) /\ Len(h \o s) = n + 1
        /\ \A i \in 1 .. 1 + n : (h \o s)[i] = IF i <= 1 THEN h[i] ELSE s[i - 1]
    BY <1>1, <1>2, ConcatProperties
  <1>4. (h \o s)[1] = x
    <2>1. 1 \in 1 .. 1 + n /\ 1 <= 1
      OBVIOUS
    <2>2. QED BY <1>1, <1>2, <1>3, <2>1
  <1>5. ASSUME NEW i \in Nat, 1 <= i, i <= n PROVE (h \o s)[i + 1] = s[i]
    <2>1. i + 1 \in 1 .. 1 + n /\ ~(i + 1 <= 1) /\ (i + 1) - 1 = i
      BY <1>5
    <2>2. QED BY <1>3, <2>1
  <1>6. QED BY <1>2, <1>3, <1>4, <1>5 DEF Fronts

\* The TLVs of the list a device announces: its five parameters.
Five(t, v, mh, ml, wh, wl, l, o) ==
  /\ t \in Seq(TlvType) /\ Len(t) = 5
  /\ t[1].type = 1 /\ Len(t[1].value) = 1 /\ t[1].value[1] = v
  /\ t[2].type = 2 /\ Len(t[2].value) = 2
  /\ t[3].type = 3 /\ Len(t[3].value) = 2 /\ t[3].value[1] = wh /\ t[3].value[2] = wl
  /\ t[4].type = 4 /\ Len(t[4].value) = 1 /\ t[4].value[1] = l
  /\ t[5].type = 7 /\ Len(t[5].value) = 1 /\ t[5].value[1] = o

\* The list of 17 bytes is read as its five TLVs.
LEMMA ListedTlvs ==
    ASSUME NEW list, NEW v, NEW mh, NEW ml, NEW wh, NEW wl, NEW l, NEW o,
           Listed(list, v, mh, ml, wh, wl, l, o)
    PROVE  Five(Tlvs(list), v, mh, ml, wh, wl, l, o)
  <1>0. list \in Seq(Byte) /\ Len(list) = 17
    BY DEF Listed
  <1>1. PICK f : /\ Tlvs(list) = f[1]
                 /\ \A i \in 1 .. Len(list) + 1 :
                      f[i] = TlvsAt(list, f, i) /\ f[i] \in Seq(TlvType)
    BY <1>0, TlvsSteps
  <1>2. \A i \in Nat : 1 <= i /\ i <= 18 => f[i] = TlvsAt(list, f, i) /\ f[i] \in Seq(TlvType)
    <2>1. PICK n \in Nat : n = Len(list) + 1 /\ n = 18
      BY <1>0
    <2>2. \A i \in 1 .. n : f[i] = TlvsAt(list, f, i) /\ f[i] \in Seq(TlvType)
      BY <1>1, <2>1
    <2>3. \A i \in Nat : 1 <= i /\ i <= n => f[i] = TlvsAt(list, f, i) /\ f[i] \in Seq(TlvType)
      BY <2>2
    <2>4. QED BY <2>1, <2>3
  <1>3. f[18] = <<>>
    <2>1. f[18] = TlvsAt(list, f, 18)
      BY <1>2
    <2>2. 18 = Len(list) + 1 /\ Len(list) \in Nat
      BY <1>0
    <2>3. QED BY <2>1, <2>2, TlvsAtCases
  <1>4. PICK a : a = TlvOf(list, 15, 1)
    OBVIOUS
  <1>5. /\ f[15] = <<a>> \o f[18]
        /\ a \in TlvType /\ a.type = 7 /\ Len(a.value) = 1 /\ a.value[1] = o
    <2>1. /\ TlvsAt(list, f, 15) = <<a>> \o f[18]
          /\ a \in TlvType /\ a.type = list[15] /\ Len(a.value) = 1 /\ a.value[1] = list[17]
      <3>1. list[15 + 1] = 1 /\ 15 + 1 + 1 <= Len(list) /\ 15 \in Nat /\ 15 >= 1 /\ 1 \in 1 .. 2
        BY DEF Listed
      <3>2. ReadsAs(list, f, 15, 1, a)
        BY <1>0, <1>4, <3>1, TlvRead
      <3>3. QED BY <3>2 DEF ReadsAs
    <2>2. f[15] = TlvsAt(list, f, 15)
      BY <1>2
    <2>3. QED BY <2>1, <2>2 DEF Listed
  <1>6. PICK b : b = TlvOf(list, 12, 1)
    OBVIOUS
  <1>7. /\ f[12] = <<b>> \o f[15]
        /\ b \in TlvType /\ b.type = 4 /\ Len(b.value) = 1 /\ b.value[1] = l
    <2>1. /\ TlvsAt(list, f, 12) = <<b>> \o f[15]
          /\ b \in TlvType /\ b.type = list[12] /\ Len(b.value) = 1 /\ b.value[1] = list[14]
      <3>1. list[12 + 1] = 1 /\ 12 + 1 + 1 <= Len(list) /\ 12 \in Nat /\ 12 >= 1 /\ 1 \in 1 .. 2
        BY DEF Listed
      <3>2. ReadsAs(list, f, 12, 1, b)
        BY <1>0, <1>6, <3>1, TlvRead
      <3>3. QED BY <3>2 DEF ReadsAs
    <2>2. f[12] = TlvsAt(list, f, 12)
      BY <1>2
    <2>3. QED BY <2>1, <2>2 DEF Listed
  <1>8. PICK c : c = TlvOf(list, 8, 2)
    OBVIOUS
  <1>9. /\ f[8] = <<c>> \o f[12]
        /\ c \in TlvType /\ c.type = 3 /\ Len(c.value) = 2 /\ c.value[1] = wh /\ c.value[2] = wl
    <2>1. /\ TlvsAt(list, f, 8) = <<c>> \o f[12]
          /\ c \in TlvType /\ c.type = list[8] /\ Len(c.value) = 2
          /\ c.value[1] = list[10] /\ c.value[2] = list[11]
      <3>1. list[8 + 1] = 2 /\ 8 + 1 + 2 <= Len(list) /\ 8 \in Nat /\ 8 >= 1 /\ 2 \in 1 .. 2
        BY DEF Listed
      <3>2. ReadsAs(list, f, 8, 2, c)
        BY <1>0, <1>8, <3>1, TlvRead
      <3>3. QED BY <3>2 DEF ReadsAs
    <2>2. f[8] = TlvsAt(list, f, 8)
      BY <1>2
    <2>3. QED BY <2>1, <2>2 DEF Listed
  <1>10. PICK d : d = TlvOf(list, 4, 2)
    OBVIOUS
  <1>11. f[4] = <<d>> \o f[8] /\ d \in TlvType /\ d.type = 2 /\ Len(d.value) = 2
    <2>1. /\ TlvsAt(list, f, 4) = <<d>> \o f[8]
          /\ d \in TlvType /\ d.type = list[4] /\ Len(d.value) = 2
      <3>1. list[4 + 1] = 2 /\ 4 + 1 + 2 <= Len(list) /\ 4 \in Nat /\ 4 >= 1 /\ 2 \in 1 .. 2
        BY DEF Listed
      <3>2. ReadsAs(list, f, 4, 2, d)
        BY <1>0, <1>10, <3>1, TlvRead
      <3>3. QED BY <3>2 DEF ReadsAs
    <2>2. f[4] = TlvsAt(list, f, 4)
      BY <1>2
    <2>3. QED BY <2>1, <2>2 DEF Listed
  <1>12. PICK e : e = TlvOf(list, 1, 1)
    OBVIOUS
  <1>13. /\ f[1] = <<e>> \o f[4]
         /\ e \in TlvType /\ e.type = 1 /\ Len(e.value) = 1 /\ e.value[1] = v
    <2>1. /\ TlvsAt(list, f, 1) = <<e>> \o f[4]
          /\ e \in TlvType /\ e.type = list[1] /\ Len(e.value) = 1 /\ e.value[1] = list[3]
      <3>1. list[1 + 1] = 1 /\ 1 + 1 + 1 <= Len(list) /\ 1 \in Nat /\ 1 >= 1 /\ 1 \in 1 .. 2
        BY DEF Listed
      <3>2. ReadsAs(list, f, 1, 1, e)
        BY <1>0, <1>12, <3>1, TlvRead
      <3>3. QED BY <3>2 DEF ReadsAs
    <2>2. f[1] = TlvsAt(list, f, 1)
      BY <1>2
    <2>3. QED BY <2>1, <2>2 DEF Listed
  <1>14. /\ f[15] \in Seq(TlvType) /\ Len(f[15]) = 1
         /\ f[15][1] = a
    <2>1. <<>> \in Seq(TlvType) /\ Len(<<>>) = 0 /\ 0 \in Nat
      OBVIOUS
    <2>2. Fronts(f[15], a, f[18], 0)
      BY <1>3, <1>5, <2>1, InFront
    <2>3. QED BY <2>2 DEF Fronts
  <1>15. /\ f[12] \in Seq(TlvType) /\ Len(f[12]) = 2
         /\ f[12][1] = b /\ f[12][2] = a
    <2>1. Fronts(f[12], b, f[15], 1)
      BY <1>7, <1>14, InFront
    <2>2. f[12][1 + 1] = f[15][1]
      BY <2>1 DEF Fronts
    <2>3. f[12] \in Seq(TlvType) /\ Len(f[12]) = 1 + 1 /\ f[12][1] = b
      BY <2>1 DEF Fronts
    <2>4. QED BY <1>14, <2>2, <2>3
  <1>16. /\ f[8] \in Seq(TlvType) /\ Len(f[8]) = 3
         /\ f[8][1] = c /\ f[8][2] = b /\ f[8][3] = a
    <2>1. Fronts(f[8], c, f[12], 2)
      BY <1>9, <1>15, InFront
    <2>2. f[8][1 + 1] = f[12][1] /\ f[8][2 + 1] = f[12][2]
      BY <2>1 DEF Fronts
    <2>3. f[8] \in Seq(TlvType) /\ Len(f[8]) = 2 + 1 /\ f[8][1] = c
      BY <2>1 DEF Fronts
    <2>4. QED BY <1>15, <2>2, <2>3
  <1>17. /\ f[4] \in Seq(TlvType) /\ Len(f[4]) = 4
         /\ f[4][1] = d /\ f[4][2] = c /\ f[4][3] = b /\ f[4][4] = a
    <2>1. Fronts(f[4], d, f[8], 3)
      BY <1>11, <1>16, InFront
    <2>2. f[4][1 + 1] = f[8][1] /\ f[4][2 + 1] = f[8][2] /\ f[4][3 + 1] = f[8][3]
      BY <2>1 DEF Fronts
    <2>3. f[4] \in Seq(TlvType) /\ Len(f[4]) = 3 + 1 /\ f[4][1] = d
      BY <2>1 DEF Fronts
    <2>4. QED BY <1>16, <2>2, <2>3
  <1>18. /\ f[1] \in Seq(TlvType) /\ Len(f[1]) = 5
         /\ f[1][1] = e /\ f[1][2] = d /\ f[1][3] = c /\ f[1][4] = b /\ f[1][5] = a
    <2>1. Fronts(f[1], e, f[4], 4)
      BY <1>13, <1>17, InFront
    <2>2. /\ f[1][1 + 1] = f[4][1] /\ f[1][2 + 1] = f[4][2]
          /\ f[1][3 + 1] = f[4][3] /\ f[1][4 + 1] = f[4][4]
      BY <2>1 DEF Fronts
    <2>3. f[1] \in Seq(TlvType) /\ Len(f[1]) = 4 + 1 /\ f[1][1] = e
      BY <2>1 DEF Fronts
    <2>4. QED BY <1>17, <2>2, <2>3
  <1>19. QED
    BY <1>1, <1>5, <1>7, <1>9, <1>11, <1>13, <1>18 DEF Five

\* What the reader is after a TLV, if it is still content.
LEMMA ReadOn ==
    ASSUME NEW s \in ReaderType, NEW tlv, ReadTlv(s, tlv).ok
    PROVE  /\ s.ok /\ ~Refused(s.params, tlv)
           /\ ReadTlv(s, tlv).params = Take(s.params, tlv)
  <1>1. CASE ~s.ok \/ Refused(s.params, tlv)
    <2>1. ReadTlv(s, tlv) = [s EXCEPT !.ok = FALSE]
      BY <1>1 DEF ReadTlv
    <2>2. QED BY <2>1 DEF ReaderType
  <1>2. CASE s.ok /\ ~Refused(s.params, tlv)
    BY <1>2 DEF ReadTlv, ReaderType
  <1>3. QED BY <1>1, <1>2

\* And it is content as long as it refuses nothing.
LEMMA ReadGoesOn ==
    ASSUME NEW s \in ReaderType, NEW tlv, s.ok, ~Refused(s.params, tlv)
    PROVE  /\ ReadTlv(s, tlv).ok /\ ReadTlv(s, tlv).params = Take(s.params, tlv)
  BY DEF ReadTlv, ReaderType

\* A link of version 1 or later takes any version from 1 on, and stays at 1 or later.
LEMMA VersionStays ==
    ASSUME NEW p \in ParamType, p.version.major >= 1, NEW tlv \in TlvType, ~Refused(p, tlv)
    PROVE  Take(p, tlv).version.major >= 1
  <1>1. p.version \in [major : 0 .. 15, minor : 0 .. 15]
    BY DEF ParamType
  <1>2. CASE tlv.type = 1
    <2> DEFINE w == parameter_decode_version(tlv.value)
    <2>1. Take(p, tlv).version = llcp_version_agreement(p.version, w)
      BY <1>2, TakeCases DEF ParamType
    <2>2. CanAgree(p.version, w) /\ w \in [major : 0 .. 15, minor : 0 .. 15]
      <3>1. tlv.value \in Seq(Byte) /\ Len(tlv.value) = 1 /\ CanAgree(p.version, w)
        BY <1>2, ReadTlvLengths DEF TlvType
      <3>2. QED BY <3>1, ByteDecoded
    <2> HIDE DEF w
    <2>3. llcp_version_agreement(p.version, w).major >= 1
      BY <1>1, <2>2 DEF llcp_version_agreement, CanAgree
    <2>4. QED BY <2>1, <2>3
  <1>3. CASE tlv.type # 1
    <2>1. Take(p, tlv).version = p.version
      BY <1>3, TakeCases DEF ParamType
    <2>2. QED BY <2>1
  <1>4. QED BY <1>2, <1>3

\* So two links of version 1 or later refuse the same.
LEMMA RefusedAlike ==
    ASSUME NEW p \in ParamType, p.version.major >= 1, NEW q \in ParamType, q.version.major >= 1,
           NEW tlv \in TlvType, ~Refused(p, tlv)
    PROVE  ~Refused(q, tlv)
  <1>1. CASE tlv.type = VersionType
    <2> DEFINE w == parameter_decode_version(tlv.value)
    <2>1. CanAgree(p.version, w)
      BY <1>1 DEF Refused
    <2>2. w \in [major : 0 .. 15, minor : 0 .. 15]
      <3>1. tlv.value \in Seq(Byte) /\ Len(tlv.value) = 1
        BY <1>1, ReadTlvLengths DEF TlvType, VersionType
      <3>2. QED BY <3>1, ByteDecoded
    <2> HIDE DEF w
    <2>3. p.version.major \in 0 .. 15 /\ q.version.major \in 0 .. 15
      BY DEF ParamType
    <2>4. CanAgree(q.version, w)
      BY <2>1, <2>2, <2>3 DEF CanAgree
    <2>5. QED BY <2>4 DEF Refused, w
  <1>2. CASE tlv.type # VersionType
    BY <1>2 DEF Refused
  <1>3. QED BY <1>1, <1>2

\* Whether a list is taken does not depend on what the link had agreed on before.
LEMMA TakenAlike ==
    ASSUME NEW p \in ParamType, p.version.major >= 1, NEW q \in ParamType, q.version.major >= 1,
           NEW list \in Seq(Byte), llc_link_configure(p, list).ok
    PROVE  /\ llc_link_configure(q, list).ok
           /\ llc_link_configure(p, list).params.version.major >= 1
  <1>1. PICK t \in Seq(TlvType) : t = Tlvs(list)
    BY ConfigureTyped
  <1>2. PICK n \in Nat : n = Len(t)
    OBVIOUS
  <1>3. PICK g \in [0 .. n -> ReaderType] :
          /\ g[0] = [ok |-> TRUE, params |-> p]
          /\ \A i \in 1 .. n : g[i] = ReadTlv(g[i - 1], t[i])
          /\ ReadTlvs(p, t) = g[n]
    <2>1. PICK g : Reading(g, p, t, Len(t))
      BY ReadTlvsSteps
    <2>2. Reading(g, p, t, n)
      BY <1>2, <2>1
    <2>3. QED BY <2>2 DEF Reading
  <1>4. PICK h \in [0 .. n -> ReaderType] :
          /\ h[0] = [ok |-> TRUE, params |-> q]
          /\ \A i \in 1 .. n : h[i] = ReadTlv(h[i - 1], t[i])
          /\ ReadTlvs(q, t) = h[n]
    <2>1. PICK h : Reading(h, q, t, Len(t))
      BY ReadTlvsSteps
    <2>2. Reading(h, q, t, n)
      BY <1>2, <2>1
    <2>3. QED BY <2>2 DEF Reading
  <1> DEFINE B == {i \in 0 .. n : g[i].ok => /\ h[i].ok
                                             /\ g[i].params.version.major >= 1
                                             /\ h[i].params.version.major >= 1}
  <1>5. 0 \in B
    BY <1>2, <1>3, <1>4
  <1>6. ASSUME NEW i \in 0 .. n - 1, i \in B PROVE i + 1 \in B
    <2>1. /\ i + 1 \in 1 .. n /\ (i + 1) - 1 = i /\ i \in 0 .. n /\ i + 1 \in 0 .. n
      BY <1>2
    <2>2. PICK tlv \in TlvType : tlv = t[i + 1]
      BY <1>2, <2>1
    <2>3. /\ g[i + 1] = ReadTlv(g[i], tlv) /\ h[i + 1] = ReadTlv(h[i], tlv)
          /\ g[i] \in ReaderType /\ h[i] \in ReaderType
      <3>1. g[i + 1] = ReadTlv(g[(i + 1) - 1], t[i + 1])
        BY <1>3, <2>1
      <3>2. h[i + 1] = ReadTlv(h[(i + 1) - 1], t[i + 1])
        BY <1>4, <2>1
      <3>3. QED BY <1>3, <1>4, <2>1, <2>2, <3>1, <3>2
    <2>4. ASSUME g[i + 1].ok
          PROVE  /\ h[i + 1].ok /\ g[i + 1].params.version.major >= 1
                 /\ h[i + 1].params.version.major >= 1
      <3>1. g[i].ok /\ ~Refused(g[i].params, tlv) /\ g[i + 1].params = Take(g[i].params, tlv)
        BY <2>3, <2>4, ReadOn
      <3>2. h[i].ok /\ g[i].params.version.major >= 1 /\ h[i].params.version.major >= 1
        BY <1>6, <3>1
      <3>3. g[i].params \in ParamType /\ h[i].params \in ParamType
        BY <2>3 DEF ReaderType
      <3>4. ~Refused(h[i].params, tlv)
        BY <3>1, <3>2, <3>3, RefusedAlike
      <3>5. h[i + 1].ok /\ h[i + 1].params = Take(h[i].params, tlv)
        BY <2>3, <3>2, <3>4, ReadGoesOn
      <3>6. QED BY <3>1, <3>2, <3>3, <3>4, <3>5, VersionStays
    <2>5. QED BY <2>1, <2>4
  <1>7. n \in B
    <2> HIDE DEF B
    <2>1. 0 .. n \subseteq B
      BY <1>2, <1>5, <1>6, Climb
    <2>2. QED BY <1>2, <2>1
  <1>8. g[n].ok
    BY <1>1, <1>3 DEF llc_link_configure
  <1>9. h[n].ok /\ g[n].params.version.major >= 1
    BY <1>7, <1>8
  <1>10. QED BY <1>1, <1>3, <1>4, <1>9 DEF llc_link_configure

\* What the reader refuses nothing of.
LEMMA NotRefused ==
    ASSUME NEW p, NEW tlv, tlv.type \in Nat,
           tlv.type \in {1, 4, 7} => Len(tlv.value) = 1,
           tlv.type \in {2, 3} => Len(tlv.value) = 2,
           tlv.type = 1 => CanAgree(p.version, parameter_decode_version(tlv.value))
    PROVE  ~Refused(p, tlv)
  <1>1. tlv # Broken
    <2>1. Broken.type = -1
      BY DEF Broken
    <2>2. QED BY <2>1
  <1>2. tlv.type \in Known => Len(tlv.value) = ValueLength(tlv.type)
    BY DEF ValueLength, Known, VersionType, MiuxType, WksType, LtoType, OptType
  <1>3. QED BY <1>1, <1>2 DEF Refused, VersionType

\* An announcement of version 1 or later is read to its end.
LEMMA AnnouncementRead ==
    ASSUME NEW p \in ParamType, p.version.major >= 1,
           NEW q \in Announcers, q.version.major >= 1
    PROVE  llc_link_configure(p, llc_link_encode_parameters(q)).ok
  <1> DEFINE list == llc_link_encode_parameters(q)
  <1>1. PICK v \in Byte, mh \in Byte, ml \in Byte, wh \in Byte, wl \in Byte, l \in Byte,
             o \in Byte :
           /\ Listed(llc_link_encode_parameters(q), v, mh, ml, wh, wl, l, o)
           /\ v \div 16 = q.version.major /\ v % 16 = q.version.minor
           /\ 256 * wh + wl
                = llc_link_get_wks(q.saps) - (llc_link_get_wks(q.saps) % 2) + 1
           /\ 10 * l = q.lto /\ o = q.opt
    BY EncodedBytes
  <1>2. Listed(list, v, mh, ml, wh, wl, l, o)
    BY <1>1, Zenon
  <1> HIDE DEF list
  <1>3. PICK t : t = Tlvs(list)
    OBVIOUS
  <1>4. Five(t, v, mh, ml, wh, wl, l, o)
    BY <1>2, <1>3, ListedTlvs
  <1>5. t \in Seq(TlvType) /\ Len(t) = 5
    BY <1>4 DEF Five
  <1>6. PICK g \in [0 .. 5 -> ReaderType] :
          /\ g[0] = [ok |-> TRUE, params |-> p]
          /\ \A i \in 1 .. 5 : g[i] = ReadTlv(g[i - 1], t[i])
          /\ ReadTlvs(p, t) = g[5]
    <2>1. PICK g : Reading(g, p, t, Len(t))
      BY <1>5, ReadTlvsSteps
    <2>2. Reading(g, p, t, 5)
      BY <1>5, <2>1
    <2>3. QED BY <2>2 DEF Reading
  <1>7. /\ g[1] = ReadTlv(g[0], t[1]) /\ g[2] = ReadTlv(g[1], t[2]) /\ g[3] = ReadTlv(g[2], t[3])
        /\ g[4] = ReadTlv(g[3], t[4]) /\ g[5] = ReadTlv(g[4], t[5])
        /\ g[0] \in ReaderType /\ g[1] \in ReaderType /\ g[2] \in ReaderType
        /\ g[3] \in ReaderType /\ g[4] \in ReaderType
    <2>1. /\ 1 - 1 = 0 /\ 2 - 1 = 1 /\ 3 - 1 = 2 /\ 4 - 1 = 3 /\ 5 - 1 = 4
          /\ 1 \in 1 .. 5 /\ 2 \in 1 .. 5 /\ 3 \in 1 .. 5 /\ 4 \in 1 .. 5 /\ 5 \in 1 .. 5
          /\ 0 \in 0 .. 5 /\ 1 \in 0 .. 5 /\ 2 \in 0 .. 5 /\ 3 \in 0 .. 5 /\ 4 \in 0 .. 5
      OBVIOUS
    <2>2. QED BY <1>6, <2>1, Zenon
  <1>8. g[0].ok /\ g[0].params = p
    BY <1>6
  <1>9. ~Refused(g[0].params, t[1])
    <2>1. parameter_decode_version(t[1].value) = [major |-> v \div 16, minor |-> v % 16]
      BY <1>4 DEF Five, parameter_decode_version
    <2>2. parameter_decode_version(t[1].value).major >= 1
      BY <1>1, <2>1
    <2>3. CanAgree(p.version, parameter_decode_version(t[1].value))
      BY <2>2 DEF CanAgree
    <2>4. t[1].type = 1 /\ Len(t[1].value) = 1
      BY <1>4 DEF Five
    <2>5. QED BY <1>8, <2>3, <2>4, NotRefused
  <1>10. /\ t[2].type = 2 /\ Len(t[2].value) = 2 /\ t[3].type = 3 /\ Len(t[3].value) = 2
         /\ t[4].type = 4 /\ Len(t[4].value) = 1 /\ t[5].type = 7 /\ Len(t[5].value) = 1
    BY <1>4 DEF Five
  <1>11. /\ ~Refused(g[1].params, t[2]) /\ ~Refused(g[2].params, t[3])
         /\ ~Refused(g[3].params, t[4]) /\ ~Refused(g[4].params, t[5])
    BY <1>10, NotRefused
  <1>12. g[1].ok
    BY <1>7, <1>8, <1>9, ReadGoesOn
  <1>13. g[2].ok
    BY <1>7, <1>11, <1>12, ReadGoesOn
  <1>14. g[3].ok
    BY <1>7, <1>11, <1>13, ReadGoesOn
  <1>15. g[4].ok
    BY <1>7, <1>11, <1>14, ReadGoesOn
  <1>16. g[5].ok
    BY <1>7, <1>11, <1>15, ReadGoesOn
  <1>17. llc_link_configure(p, list) = g[5]
    BY <1>3, <1>6, Zenon DEF llc_link_configure
  <1>18. QED BY <1>16, <1>17, Zenon DEF list

\* What a link makes of the list a device announces itself with, if it takes it.
LEMMA TakenAsAnnounced ==
    ASSUME NEW p \in ParamType, NEW q \in Announcers, NEW r,
           r = llc_link_configure(p, llc_link_encode_parameters(q)), r.ok
    PROVE  /\ CanAgree(p.version, q.version)
           /\ r.params.version = llcp_version_agreement(p.version, q.version)
           /\ r.params.remote_lto = q.lto /\ r.params.remote_lsc = q.opt
           /\ r.params.remote_wks
                = llc_link_get_wks(q.saps) - (llc_link_get_wks(q.saps) % 2) + 1
  <1> DEFINE w == llc_link_get_wks(q.saps) - (llc_link_get_wks(q.saps) % 2) + 1
             list == llc_link_encode_parameters(q)
  <1>1. PICK v \in Byte, mh \in Byte, ml \in Byte, wh \in Byte, wl \in Byte, l \in Byte,
             o \in Byte :
           /\ Listed(llc_link_encode_parameters(q), v, mh, ml, wh, wl, l, o)
           /\ v \div 16 = q.version.major /\ v % 16 = q.version.minor
           /\ 256 * wh + wl
                = llc_link_get_wks(q.saps) - (llc_link_get_wks(q.saps) % 2) + 1
           /\ 10 * l = q.lto /\ o = q.opt
    BY EncodedBytes
  <1>2. list \in Seq(Byte) /\ Listed(list, v, mh, ml, wh, wl, l, o) /\ 256 * wh + wl = w
    <2>1. Listed(list, v, mh, ml, wh, wl, l, o) /\ 256 * wh + wl = w
      BY <1>1, Zenon
    <2>2. QED BY <2>1, Zenon DEF Listed
  <1> HIDE DEF w, list
  <1>3. PICK t : t = Tlvs(list)
    OBVIOUS
  <1>4. Five(t, v, mh, ml, wh, wl, l, o)
    BY <1>2, <1>3, ListedTlvs
  <1>5. t \in Seq(TlvType) /\ Len(t) = 5
    BY <1>4 DEF Five
  <1>6. PICK g \in [0 .. 5 -> ReaderType] :
          /\ g[0] = [ok |-> TRUE, params |-> p]
          /\ \A i \in 1 .. 5 : g[i] = ReadTlv(g[i - 1], t[i])
          /\ ReadTlvs(p, t) = g[5]
    <2>1. PICK g : Reading(g, p, t, Len(t))
      BY <1>5, ReadTlvsSteps
    <2>2. Reading(g, p, t, 5)
      BY <1>5, <2>1
    <2>3. QED BY <2>2 DEF Reading
  <1>7. /\ g[1] = ReadTlv(g[0], t[1]) /\ g[2] = ReadTlv(g[1], t[2]) /\ g[3] = ReadTlv(g[2], t[3])
        /\ g[4] = ReadTlv(g[3], t[4]) /\ g[5] = ReadTlv(g[4], t[5])
        /\ g[0] \in ReaderType /\ g[1] \in ReaderType /\ g[2] \in ReaderType
        /\ g[3] \in ReaderType /\ g[4] \in ReaderType
    <2>1. /\ 1 - 1 = 0 /\ 2 - 1 = 1 /\ 3 - 1 = 2 /\ 4 - 1 = 3 /\ 5 - 1 = 4
          /\ 1 \in 1 .. 5 /\ 2 \in 1 .. 5 /\ 3 \in 1 .. 5 /\ 4 \in 1 .. 5 /\ 5 \in 1 .. 5
          /\ 0 \in 0 .. 5 /\ 1 \in 0 .. 5 /\ 2 \in 0 .. 5 /\ 3 \in 0 .. 5 /\ 4 \in 0 .. 5
      OBVIOUS
    <2>2. QED BY <1>6, <2>1, Zenon
  <1>8. r = g[5] /\ g[5].ok
    <2>1. r = ReadTlvs(p, t)
      BY <1>3, Zenon DEF llc_link_configure, list
    <2>2. QED BY <1>6, <2>1
  <1>9. g[4].ok /\ g[5].params = Take(g[4].params, t[5]) /\ ~Refused(g[4].params, t[5])
    BY <1>7, <1>8, ReadOn
  <1>10. g[3].ok /\ g[4].params = Take(g[3].params, t[4])
    BY <1>7, <1>9, ReadOn
  <1>11. g[2].ok /\ g[3].params = Take(g[2].params, t[3])
    BY <1>7, <1>10, ReadOn
  <1>12. g[1].ok /\ g[2].params = Take(g[1].params, t[2])
    BY <1>7, <1>11, ReadOn
  <1>13. g[1].params = Take(g[0].params, t[1]) /\ ~Refused(g[0].params, t[1])
    BY <1>7, <1>12, ReadOn
  <1>14. /\ g[0].params = p /\ g[0].params \in ParamType /\ g[1].params \in ParamType
         /\ g[2].params \in ParamType /\ g[3].params \in ParamType /\ g[4].params \in ParamType
    BY <1>6, <1>7 DEF ReaderType
  <1>15. /\ g[1].params = [p EXCEPT !.version =
               llcp_version_agreement(p.version, parameter_decode_version(t[1].value))]
         /\ CanAgree(p.version, parameter_decode_version(t[1].value))
    BY <1>4, <1>13, <1>14, TakeCases, ReadTlvLengths DEF Five
  <1>16. parameter_decode_version(t[1].value) = q.version
    <2>1. parameter_decode_version(t[1].value) = [major |-> v \div 16, minor |-> v % 16]
      BY <1>4 DEF Five, parameter_decode_version
    <2>2. q.version \in [major : 0 .. 15, minor : 0 .. 15]
      BY PeersAssumption
    <2>3. QED BY <1>1, <2>1, <2>2
  <1>17. \E x : g[2].params = [g[1].params EXCEPT !.remote_miu = x]
    <2>1. g[2].params
            = [g[1].params EXCEPT !.remote_miu = 128 + parameter_decode_miux(t[2].value)]
      BY <1>4, <1>12, TakeCases DEF Five
    <2>2. QED BY <2>1
  <1>18. g[3].params = [g[2].params EXCEPT !.remote_wks = parameter_decode_wks(t[3].value)]
    BY <1>4, <1>11, TakeCases DEF Five
  <1>19. parameter_decode_wks(t[3].value) = w
    <2>1. Word(t[3].value) = 256 * wh + wl
      BY <1>4 DEF Five, Word
    <2>2. w % 2 = 1 /\ w \in Nat
      <3>1. PICK m \in Nat : m = llc_link_get_wks(q.saps)
        BY MaskInRange
      <3>2. m - (m % 2) + 1 \in Nat /\ (m - (m % 2) + 1) % 2 = 1
        BY SMT
      <3>3. QED BY <3>1, <3>2, Zenon DEF w
    <2>3. w - (w % 2) + 1 = w
      BY <2>2, SMT
    <2>4. QED BY <1>2, <2>1, <2>3, Zenon DEF parameter_decode_wks
  <1>20. g[4].params = [g[3].params EXCEPT !.remote_lto = 10 * l]
    <2>1. parameter_decode_lto(t[4].value) = l
      BY <1>4 DEF Five, parameter_decode_lto
    <2>2. QED BY <1>4, <1>10, <2>1, TakeCases DEF Five
  <1>21. g[5].params = [g[4].params EXCEPT !.remote_lsc = q.opt]
    <2>1. parameter_decode_opt(t[5].value) = q.opt
      BY <1>1, <1>4 DEF Five, parameter_decode_opt
    <2>2. q.opt % 4 = q.opt
      BY PeersAssumption
    <2>3. QED BY <1>4, <1>9, <2>1, <2>2, TakeCases DEF Five
  <1>22. /\ r.params.version = llcp_version_agreement(p.version, q.version)
         /\ r.params.remote_lto = 10 * l /\ r.params.remote_lsc = q.opt
         /\ r.params.remote_wks = w
    BY <1>8, <1>14, <1>15, <1>16, <1>17, <1>18, <1>19, <1>20, <1>21 DEF ParamType
  <1>23. QED BY <1>1, <1>15, <1>16, <1>22 DEF w

\* The bits of a number below 2^16 are those it is the sum of.
Bits == [0 .. 15 -> {0, 1}]
UpperBits(b) ==
  2 * b[1] + 4 * b[2] + 8 * b[3] + 16 * b[4] + 32 * b[5] + 64 * b[6]
    + 128 * b[7] + 256 * b[8] + 512 * b[9] + 1024 * b[10] + 2048 * b[11] + 4096 * b[12]
    + 8192 * b[13] + 16384 * b[14] + 32768 * b[15]
SumOf(b) == b[0] + UpperBits(b)

LEMMA BitsOfSum ==
    ASSUME NEW b \in Bits, NEW w, w = SumOf(b)
    PROVE  w \in Nat /\ \A s \in 0 .. 15 : (w \div 2 ^ s) % 2 = b[s]
  <1> DEFINE Is(s) == (w \div 2 ^ s) % 2 = b[s]
  <1>1. /\ b[0] \in {0, 1} /\ b[1] \in {0, 1} /\ b[2] \in {0, 1} /\ b[3] \in {0, 1}
        /\ b[4] \in {0, 1} /\ b[5] \in {0, 1} /\ b[6] \in {0, 1} /\ b[7] \in {0, 1}
        /\ b[8] \in {0, 1} /\ b[9] \in {0, 1} /\ b[10] \in {0, 1} /\ b[11] \in {0, 1}
        /\ b[12] \in {0, 1} /\ b[13] \in {0, 1} /\ b[14] \in {0, 1} /\ b[15] \in {0, 1}
    BY DEF Bits
  <1>2. PICK c0 \in {0, 1} : c0 = b[0]
    BY <1>1
  <1>3. PICK c1 \in {0, 1} : c1 = b[1]
    BY <1>1
  <1>4. PICK c2 \in {0, 1} : c2 = b[2]
    BY <1>1
  <1>5. PICK c3 \in {0, 1} : c3 = b[3]
    BY <1>1
  <1>6. PICK c4 \in {0, 1} : c4 = b[4]
    BY <1>1
  <1>7. PICK c5 \in {0, 1} : c5 = b[5]
    BY <1>1
  <1>8. PICK c6 \in {0, 1} : c6 = b[6]
    BY <1>1
  <1>9. PICK c7 \in {0, 1} : c7 = b[7]
    BY <1>1
  <1>10. PICK c8 \in {0, 1} : c8 = b[8]
    BY <1>1
  <1>11. PICK c9 \in {0, 1} : c9 = b[9]
    BY <1>1
  <1>12. PICK c10 \in {0, 1} : c10 = b[10]
    BY <1>1
  <1>13. PICK c11 \in {0, 1} : c11 = b[11]
    BY <1>1
  <1>14. PICK c12 \in {0, 1} : c12 = b[12]
    BY <1>1
  <1>15. PICK c13 \in {0, 1} : c13 = b[13]
    BY <1>1
  <1>16. PICK c14 \in {0, 1} : c14 = b[14]
    BY <1>1
  <1>17. PICK c15 \in {0, 1} : c15 = b[15]
    BY <1>1
  <1>18. w = c0 + 2 * c1 + 4 * c2 + 8 * c3 + 16 * c4 + 32 * c5
            + 64 * c6 + 128 * c7 + 256 * c8 + 512 * c9 + 1024 * c10 + 2048 * c11
            + 4096 * c12 + 8192 * c13 + 16384 * c14 + 32768 * c15
    <2>1. SumOf(b)
          = c0 + (2 * c1 + 4 * c2 + 8 * c3 + 16 * c4 + 32 * c5 + 64 * c6
            + 128 * c7 + 256 * c8 + 512 * c9 + 1024 * c10 + 2048 * c11 + 4096 * c12
            + 8192 * c13 + 16384 * c14 + 32768 * c15)
      BY <1>2, <1>3, <1>4, <1>5, <1>6, <1>7, <1>8, <1>9,
         <1>10, <1>11, <1>12, <1>13, <1>14, <1>15, <1>16, <1>17, SMT DEF SumOf, UpperBits
    <2>2. QED BY <2>1, SMT
  <1>19. w \in Nat
    BY <1>18, SMT
  <1>20. Is(0)
    <2>1. w \div 1
          = c0 + 2 * c1 + 4 * c2 + 8 * c3 + 16 * c4 + 32 * c5
            + 64 * c6 + 128 * c7 + 256 * c8 + 512 * c9 + 1024 * c10 + 2048 * c11
            + 4096 * c12 + 8192 * c13 + 16384 * c14 + 32768 * c15
      BY <1>18, SMT
    <2>2. (w \div 1) % 2 = c0
      BY <2>1, SMT
    <2>3. 2 ^ 0 = 1
      BY SMT
    <2>4. QED BY <1>2, <2>2, <2>3
  <1>21. Is(1)
    <2>1. w \div 2
          = c1 + 2 * c2 + 4 * c3 + 8 * c4 + 16 * c5 + 32 * c6
            + 64 * c7 + 128 * c8 + 256 * c9 + 512 * c10 + 1024 * c11 + 2048 * c12
            + 4096 * c13 + 8192 * c14 + 16384 * c15
      BY <1>18, SMT
    <2>2. (w \div 2) % 2 = c1
      BY <2>1, SMT
    <2>3. 2 ^ 1 = 2
      BY SMT
    <2>4. QED BY <1>3, <2>2, <2>3
  <1>22. Is(2)
    <2>1. w \div 4
          = c2 + 2 * c3 + 4 * c4 + 8 * c5 + 16 * c6 + 32 * c7
            + 64 * c8 + 128 * c9 + 256 * c10 + 512 * c11 + 1024 * c12 + 2048 * c13
            + 4096 * c14 + 8192 * c15
      BY <1>18, SMT
    <2>2. (w \div 4) % 2 = c2
      BY <2>1, SMT
    <2>3. 2 ^ 2 = 4
      BY SMT
    <2>4. QED BY <1>4, <2>2, <2>3
  <1>23. Is(3)
    <2>1. w \div 8
          = c3 + 2 * c4 + 4 * c5 + 8 * c6 + 16 * c7 + 32 * c8
            + 64 * c9 + 128 * c10 + 256 * c11 + 512 * c12 + 1024 * c13 + 2048 * c14
            + 4096 * c15
      BY <1>18, SMT
    <2>2. (w \div 8) % 2 = c3
      BY <2>1, SMT
    <2>3. 2 ^ 3 = 8
      BY SMT
    <2>4. QED BY <1>5, <2>2, <2>3
  <1>24. Is(4)
    <2>1. w \div 16
          = c4 + 2 * c5 + 4 * c6 + 8 * c7 + 16 * c8 + 32 * c9
            + 64 * c10 + 128 * c11 + 256 * c12 + 512 * c13 + 1024 * c14 + 2048 * c15
      BY <1>18, SMT
    <2>2. (w \div 16) % 2 = c4
      BY <2>1, SMT
    <2>3. 2 ^ 4 = 16
      BY SMT
    <2>4. QED BY <1>6, <2>2, <2>3
  <1>25. Is(5)
    <2>1. w \div 32
          = c5 + 2 * c6 + 4 * c7 + 8 * c8 + 16 * c9 + 32 * c10
            + 64 * c11 + 128 * c12 + 256 * c13 + 512 * c14 + 1024 * c15
      BY <1>18, SMT
    <2>2. (w \div 32) % 2 = c5
      BY <2>1, SMT
    <2>3. 2 ^ 5 = 32
      BY SMT
    <2>4. QED BY <1>7, <2>2, <2>3
  <1>26. Is(6)
    <2>1. w \div 64
          = c6 + 2 * c7 + 4 * c8 + 8 * c9 + 16 * c10 + 32 * c11
            + 64 * c12 + 128 * c13 + 256 * c14 + 512 * c15
      BY <1>18, SMT
    <2>2. (w \div 64) % 2 = c6
      BY <2>1, SMT
    <2>3. 2 ^ 6 = 64
      BY SMT
    <2>4. QED BY <1>8, <2>2, <2>3
  <1>27. Is(7)
    <2>1. w \div 128
          = c7 + 2 * c8 + 4 * c9 + 8 * c10 + 16 * c11 + 32 * c12
            + 64 * c13 + 128 * c14 + 256 * c15
      BY <1>18, SMT
    <2>2. (w \div 128) % 2 = c7
      BY <2>1, SMT
    <2>3. 2 ^ 7 = 128
      BY SMT
    <2>4. QED BY <1>9, <2>2, <2>3
  <1>28. Is(8)
    <2>1. w \div 256
          = c8 + 2 * c9 + 4 * c10 + 8 * c11 + 16 * c12 + 32 * c13
            + 64 * c14 + 128 * c15
      BY <1>18, SMT
    <2>2. (w \div 256) % 2 = c8
      BY <2>1, SMT
    <2>3. 2 ^ 8 = 256
      BY SMT
    <2>4. QED BY <1>10, <2>2, <2>3
  <1>29. Is(9)
    <2>1. w \div 512
          = c9 + 2 * c10 + 4 * c11 + 8 * c12 + 16 * c13 + 32 * c14
            + 64 * c15
      BY <1>18, SMT
    <2>2. (w \div 512) % 2 = c9
      BY <2>1, SMT
    <2>3. 2 ^ 9 = 512
      BY SMT
    <2>4. QED BY <1>11, <2>2, <2>3
  <1>30. Is(10)
    <2>1. w \div 1024
          = c10 + 2 * c11 + 4 * c12 + 8 * c13 + 16 * c14 + 32 * c15
      BY <1>18, SMT
    <2>2. (w \div 1024) % 2 = c10
      BY <2>1, SMT
    <2>3. 2 ^ 10 = 1024
      BY SMT
    <2>4. QED BY <1>12, <2>2, <2>3
  <1>31. Is(11)
    <2>1. w \div 2048
          = c11 + 2 * c12 + 4 * c13 + 8 * c14 + 16 * c15
      BY <1>18, SMT
    <2>2. (w \div 2048) % 2 = c11
      BY <2>1, SMT
    <2>3. 2 ^ 11 = 2048
      BY SMT
    <2>4. QED BY <1>13, <2>2, <2>3
  <1>32. Is(12)
    <2>1. w \div 4096
          = c12 + 2 * c13 + 4 * c14 + 8 * c15
      BY <1>18, SMT
    <2>2. (w \div 4096) % 2 = c12
      BY <2>1, SMT
    <2>3. 2 ^ 12 = 4096
      BY SMT
    <2>4. QED BY <1>14, <2>2, <2>3
  <1>33. Is(13)
    <2>1. w \div 8192
          = c13 + 2 * c14 + 4 * c15
      BY <1>18, SMT
    <2>2. (w \div 8192) % 2 = c13
      BY <2>1, SMT
    <2>3. 2 ^ 13 = 8192
      BY SMT
    <2>4. QED BY <1>15, <2>2, <2>3
  <1>34. Is(14)
    <2>1. w \div 16384
          = c14 + 2 * c15
      BY <1>18, SMT
    <2>2. (w \div 16384) % 2 = c14
      BY <2>1, SMT
    <2>3. 2 ^ 14 = 16384
      BY SMT
    <2>4. QED BY <1>16, <2>2, <2>3
  <1>35. Is(15)
    <2>1. w \div 32768
          = c15
      BY <1>18, SMT
    <2>2. (w \div 32768) % 2 = c15
      BY <2>1, SMT
    <2>3. 2 ^ 15 = 32768
      BY SMT
    <2>4. QED BY <1>17, <2>2, <2>3
  <1> HIDE DEF Is
  <1>36. \A s \in 0 .. 15 : Is(s)
    BY <1>20, <1>21, <1>22, <1>23, <1>24, <1>25, <1>26, <1>27,
       <1>28, <1>29, <1>30, <1>31, <1>32, <1>33, <1>34, <1>35
  <1>37. QED BY <1>19, <1>36 DEF Is

\* The well-known services a device announces, bit by bit: those it has, and the
\* lowest in any case.
ServiceBits(saps)   == [i \in 0 .. 15 |-> Bit(saps, i)]
AnnouncedBits(saps) == [i \in 0 .. 15 |-> IF i = 0 THEN 1 ELSE Bit(saps, i)]

LEMMA ServicesAnnounced ==
    ASSUME NEW saps, NEW w, w = llc_link_get_wks(saps) - (llc_link_get_wks(saps) % 2) + 1
    PROVE  {s \in 0 .. 15 : (w \div 2 ^ s) % 2 = 1} = (saps \cap 0 .. 15) \cup {0}
  <1>1. PICK m : m = llc_link_get_wks(saps)
    OBVIOUS
  <1>2. PICK b : b = ServiceBits(saps)
    OBVIOUS
  <1>3. PICK c : c = AnnouncedBits(saps)
    OBVIOUS
  <1>4. b \in Bits /\ c \in Bits /\ b[0] \in {0, 1} /\ c[0] = 1 /\ c = [b EXCEPT ![0] = 1]
    <2>1. \A i \in 0 .. 15 : Bit(saps, i) \in {0, 1}
      BY DEF Bit
    <2>2. /\ b \in Bits /\ c \in Bits
          /\ \A i \in 0 .. 15 : i # 0 => c[i] = b[i]
      BY <1>2, <1>3, <2>1 DEF Bits, ServiceBits, AnnouncedBits
    <2>3. 0 \in 0 .. 15
      OBVIOUS
    <2>4. c[0] = 1 /\ b[0] \in {0, 1}
      BY <1>3, <2>2, <2>3 DEF Bits, AnnouncedBits
    <2>5. QED BY <2>2, <2>4 DEF Bits
  <1>5. m = SumOf(b)
    <2>1. SumOf(b) = MaskSum(saps)
      <3>1. /\ b[0] = Bit(saps, 0) /\ b[1] = Bit(saps, 1) /\ b[2] = Bit(saps, 2)
            /\ b[3] = Bit(saps, 3) /\ b[4] = Bit(saps, 4) /\ b[5] = Bit(saps, 5)
            /\ b[6] = Bit(saps, 6) /\ b[7] = Bit(saps, 7) /\ b[8] = Bit(saps, 8)
            /\ b[9] = Bit(saps, 9) /\ b[10] = Bit(saps, 10) /\ b[11] = Bit(saps, 11)
            /\ b[12] = Bit(saps, 12) /\ b[13] = Bit(saps, 13) /\ b[14] = Bit(saps, 14)
            /\ b[15] = Bit(saps, 15)
        BY <1>2 DEF ServiceBits
      <3>2. \A i \in 0 .. 15 : Bit(saps, i) \in Int
        BY DEF Bit
      <3>3. QED BY <3>1, <3>2, SMT DEF SumOf, UpperBits, MaskSum
    <2>2. QED BY <1>1, <2>1, MaskBits
  <1>6. m \in Nat /\ m % 2 = b[0]
    <2>1. m \in Nat /\ \A s \in 0 .. 15 : (m \div 2 ^ s) % 2 = b[s]
      BY <1>4, <1>5, BitsOfSum
    <2>2. 2 ^ 0 = 1 /\ m \div 1 = m /\ 0 \in 0 .. 15
      BY <2>1, SMT
    <2>3. QED BY <2>1, <2>2
  <1>7. SumOf(c) = SumOf(b) - b[0] + 1
    <2>1. /\ c[1] = b[1] /\ c[2] = b[2] /\ c[3] = b[3] /\ c[4] = b[4] /\ c[5] = b[5]
          /\ c[6] = b[6] /\ c[7] = b[7] /\ c[8] = b[8] /\ c[9] = b[9] /\ c[10] = b[10]
          /\ c[11] = b[11] /\ c[12] = b[12] /\ c[13] = b[13] /\ c[14] = b[14]
          /\ c[15] = b[15]
      BY <1>4 DEF Bits
    <2>2. /\ b[0] \in Int /\ b[1] \in Int /\ b[2] \in Int /\ b[3] \in Int /\ b[4] \in Int
          /\ b[5] \in Int /\ b[6] \in Int /\ b[7] \in Int /\ b[8] \in Int /\ b[9] \in Int
          /\ b[10] \in Int /\ b[11] \in Int /\ b[12] \in Int /\ b[13] \in Int
          /\ b[14] \in Int /\ b[15] \in Int
      BY <1>4 DEF Bits
    <2>3. UpperBits(c) = UpperBits(b)
      BY <2>1, SMT DEF UpperBits
    <2>4. PICK u \in Int : u = UpperBits(b)
      <3>1. UpperBits(b) \in Int
        <4>1. PICK c1 \in Int : c1 = b[1]
          BY <2>2
        <4>2. PICK c2 \in Int : c2 = b[2]
          BY <2>2
        <4>3. PICK c3 \in Int : c3 = b[3]
          BY <2>2
        <4>4. PICK c4 \in Int : c4 = b[4]
          BY <2>2
        <4>5. PICK c5 \in Int : c5 = b[5]
          BY <2>2
        <4>6. PICK c6 \in Int : c6 = b[6]
          BY <2>2
        <4>7. PICK c7 \in Int : c7 = b[7]
          BY <2>2
        <4>8. PICK c8 \in Int : c8 = b[8]
          BY <2>2
        <4>9. PICK c9 \in Int : c9 = b[9]
          BY <2>2
        <4>10. PICK c10 \in Int : c10 = b[10]
          BY <2>2
        <4>11. PICK c11 \in Int : c11 = b[11]
          BY <2>2
        <4>12. PICK c12 \in Int : c12 = b[12]
          BY <2>2
        <4>13. PICK c13 \in Int : c13 = b[13]
          BY <2>2
        <4>14. PICK c14 \in Int : c14 = b[14]
          BY <2>2
        <4>15. PICK c15 \in Int : c15 = b[15]
          BY <2>2
        <4>16. UpperBits(b)
               = 2 * c1 + 4 * c2 + 8 * c3 + 16 * c4 + 32 * c5 + 64 * c6
                   + 128 * c7 + 256 * c8 + 512 * c9 + 1024 * c10 + 2048 * c11
                   + 4096 * c12 + 8192 * c13 + 16384 * c14 + 32768 * c15
          BY <4>1, <4>2, <4>3, <4>4, <4>5, <4>6, <4>7, <4>8, <4>9, <4>10, <4>11, <4>12,
             <4>13, <4>14, <4>15, SMT DEF UpperBits
        <4>17. QED BY <4>16, SMT
      <3>2. QED BY <3>1
    <2>5. SumOf(c) = c[0] + u /\ SumOf(b) = b[0] + u
      BY <2>3, <2>4 DEF SumOf
    <2>6. c[0] = 1 /\ b[0] \in Int
      BY <1>4, <2>2
    <2>7. QED BY <2>4, <2>5, <2>6
  <1>8. w = SumOf(c)
    BY <1>1, <1>5, <1>6, <1>7
  <1>9. \A s \in 0 .. 15 : (w \div 2 ^ s) % 2 = c[s]
    BY <1>4, <1>8, BitsOfSum
  <1>10. ASSUME NEW s \in 0 .. 15
         PROVE  (w \div 2 ^ s) % 2 = 1 <=> s \in saps \/ s = 0
    <2>1. PICK x : x = (w \div 2 ^ s) % 2
      OBVIOUS
    <2>2. x = IF s = 0 THEN 1 ELSE Bit(saps, s)
      BY <1>3, <1>9, <2>1 DEF AnnouncedBits
    <2>3. x = 1 <=> s \in saps \/ s = 0
      BY <2>2 DEF Bit
    <2>4. QED BY <2>1, <2>3
  <1> DEFINE Is(s) == (w \div 2 ^ s) % 2 = 1
  <1>11. \A s \in 0 .. 15 : Is(s) <=> s \in saps \/ s = 0
    BY <1>10
  <1> SUFFICES {s \in 0 .. 15 : Is(s)} = (saps \cap 0 .. 15) \cup {0}
    OBVIOUS
  <1> HIDE DEF Is
  <1>12. 0 \in 0 .. 15
    OBVIOUS
  <1>13. ASSUME NEW S, 0 \in S, \A s \in S : Is(s) <=> s \in saps \/ s = 0
         PROVE  {s \in S : Is(s)} = (saps \cap S) \cup {0}
    BY <1>13
  <1>14. QED BY <1>11, <1>12, <1>13

-----------------------------------------------------------------------------
(***************************************************************************)
(* The bounds: what the peer makes, the queues, the link's parameters, and *)
(* where the engine is.                                                    *)
(***************************************************************************)
Places == {"receive", "dispatch", "aggregate", "sweep", "send", "crashed"}

BoundInv ==
  /\ Len(sent) <= MaxRequest /\ pax \in Seq(Announcers) /\ Len(pax) <= MaxPax
  /\ Len(up) + Len(urgent) <= MaxMsg /\ Len(down) <= MaxMsg
  /\ params \in ParamType
  /\ pc \in Places /\ fault = (pc = "crashed")
  /\ started \subseteq 1 .. Len(sent)

LEMMA DefaultsTyped == Defaults \in ParamType
  <1>1. /\ 256 \in 128 .. 128 + MaxMiux /\ 1 \in 0 .. UINT16_MAX
        /\ 100 \in 0 .. 10 * UINT8_MAX
    BY WidthsAre, SMT
  <1>2. [major |-> 1, minor |-> 1] \in [major : 0 .. 15, minor : 0 .. 15] /\ 3 \in 0 .. 3
    OBVIOUS
  <1>3. QED BY <1>1, <1>2 DEF Defaults, ParamType

LEMMA BoundInit == Init => BoundInv
  <1>1. Defaults \in ParamType
    BY DefaultsTyped
  <1>2. ASSUME Init
        PROVE  /\ Len(sent) <= MaxRequest /\ pax \in Seq(Announcers) /\ Len(pax) <= MaxPax
               /\ Len(up) + Len(urgent) <= MaxMsg /\ Len(down) <= MaxMsg
               /\ started \subseteq 1 .. Len(sent)
    BY <1>2, DatagramsAssumption DEF Init
  <1>3. ASSUME Init PROVE params \in ParamType /\ pc \in Places /\ fault = (pc = "crashed")
    BY <1>1, <1>3 DEF Init, Places
  <1>4. QED BY <1>2, <1>3 DEF BoundInv

\* A PAX PDU carries a list the peer may send.
LEMMA PaxCarriesList == \A f \in Frame \cup {None} : f.type = "PAX" => f.data \in Lists
  <1>1. None.type = "none" /\ Symm.type = "SYMM" /\ \A r \in AnyRequest : r.type # "PAX"
    BY FrameFacts, RequestFacts
  <1>2. ASSUME NEW rs \in Seq(AnyRequest) PROVE Pdu("AGF", 0, 0, rs).type # "PAX"
    BY PduFields
  <1>3. ASSUME NEW list \in Lists PROVE Pdu("PAX", 0, 0, list).data \in Lists
    BY PduFields
  <1>4. QED BY <1>1, <1>2, <1>3 DEF Frame

\* What the peer does: it makes no more requests and lists than it may, and a frame is
\* carried only when there is room.
LEMMA BoundMac == ASSUME TypeInv, BoundInv, ~fault, Mac PROVE BoundInv'
  <1>1. /\ sent \in Seq(AnyRequest) /\ up \in Seq(Frame) /\ urgent \in Seq(AnyRequest)
        /\ pax \in Seq(Announcers) /\ Len(pax) \in Nat /\ Len(up) \in Nat /\ Len(urgent) \in Nat
        /\ Len(sent) \in Nat /\ MaxMsg \in Nat
    BY DatagramsAssumption DEF TypeInv, BoundInv
  <1>2. Room /\ UNCHANGED <<urgent, down, engine, fault>>
    BY MacStep DEF Mac, PeerIdle, PeerAsks, PeerAggregates, PeerAnnounces
  <1>3. Len(up') + Len(urgent') <= MaxMsg
    <2>1. PICK f \in Frame : up' = Append(up, f)
      BY MacStep
    <2>2. Len(up') = Len(up) + 1
      BY <1>1, <2>1
    <2>3. QED BY <1>1, <1>2, <2>2 DEF Room
  <1>4. Len(sent) <= Len(sent')
    BY MacStep DEF Extends
  <1>5. Len(sent') <= MaxRequest
    <2>1. CASE PeerAsks
      <3>1. PICK r \in Requests(Len(sent) + 1) : sent' = Append(sent, r)
        BY <2>1 DEF PeerAsks
      <3>2. Len(sent) < MaxRequest
        BY <2>1 DEF PeerAsks
      <3>3. Len(sent') = Len(sent) + 1
        BY <1>1, <3>1, RequestFacts
      <3>4. QED BY <1>1, <3>2, <3>3, DatagramsAssumption
    <2>2. CASE PeerAggregates
      <3>1. PICK k \in 1 .. MaxFrame :
              /\ Len(sent) + k <= MaxRequest
              /\ \E rs \in [1 .. k -> UNION {Requests(Len(sent) + j) : j \in 1 .. k}] :
                    sent' = sent \o rs
        BY <2>2 DEF PeerAggregates
      <3>2. PICK rs \in [1 .. k -> UNION {Requests(Len(sent) + j) : j \in 1 .. k}] :
                    sent' = sent \o rs
        BY <3>1
      <3>3. k \in Nat
        BY DatagramsAssumption
      <3>4. ASSUME NEW S, NEW T, NEW s \in Seq(S), NEW t \in [1 .. k -> T]
            PROVE  Len(s \o t) = Len(s) + k
        <4>1. t \in Seq(T) /\ Len(t) = k
          BY <3>3
        <4>2. s \in Seq(S \cup T) /\ t \in Seq(S \cup T)
          BY <4>1
        <4>3. QED BY <4>1, <4>2, ConcatProperties
      <3>5. Len(sent') = Len(sent) + k
        BY <1>1, <3>2, <3>4, Zenon
      <3>6. QED BY <3>1, <3>5
    <2>3. CASE PeerIdle \/ PeerAnnounces
      BY <2>3 DEF PeerIdle, PeerAnnounces, peer, BoundInv
    <2>4. QED BY <2>1, <2>2, <2>3 DEF Mac
  <1>6. pax' \in Seq(Announcers) /\ Len(pax') <= MaxPax
    <2>1. CASE PeerAnnounces
      <3>1. CASE pax' = pax
        BY <3>1 DEF BoundInv
      <3>2. CASE pax' # pax
        <4>1. PICK p \in Announcers : pax' = Append(pax, p)
          BY <2>1, <3>2 DEF PeerAnnounces
        <4>2. Len(pax) < MaxPax
          BY <2>1 DEF PeerAnnounces
        <4>3. pax' \in Seq(Announcers) /\ Len(pax') = Len(pax) + 1
          BY <1>1, <4>1
        <4>4. QED BY <1>1, <4>2, <4>3, DatagramsAssumption
      <3>3. QED BY <3>1, <3>2
    <2>2. CASE PeerIdle \/ PeerAsks \/ PeerAggregates
      BY <2>2 DEF PeerIdle, PeerAsks, PeerAggregates, peer, BoundInv
    <2>3. QED BY <2>1, <2>2 DEF Mac
  <1>7. started' \subseteq 1 .. Len(sent')
    <2>1. started \subseteq 1 .. Len(sent) /\ started' = started /\ Len(sent') \in Nat
      BY <1>2, MacStep DEF BoundInv, engine
    <2>2. QED BY <1>1, <1>4, <2>1
  <1>8. QED BY <1>2, <1>3, <1>5, <1>6, <1>7 DEF BoundInv, engine

\* The other steps: a queue grows only when there is room, and the parameters are
\* what the reader makes of them.
LEMMA BoundNext == ASSUME TypeInv, RealInv, BoundInv, [Next]_vars PROVE BoundInv'
  <1>1. /\ up \in Seq(Frame) /\ urgent \in Seq(AnyRequest) /\ down \in Seq(AnyAnswer)
        /\ Len(up) \in Nat /\ Len(urgent) \in Nat /\ Len(down) \in Nat
        /\ MaxMsg \in Nat /\ buf \in Frame \cup {None}
    BY DatagramsAssumption DEF TypeInv
  <1>2. CASE Mac /\ ~fault
    BY <1>2, BoundMac
  <1>3. CASE PeerReceives
    <2>1. down # <<>> /\ down' = Tail(down) /\ UNCHANGED <<peer, up, urgent, engine, fault>>
      BY <1>3 DEF PeerReceives
    <2>2. Len(down') = Len(down) - 1
      BY <1>1, <2>1
    <2>3. Len(down') <= MaxMsg
      BY <1>1, <2>2 DEF BoundInv
    <2>4. QED BY <2>1, <2>3 DEF BoundInv, peer, engine
  <1>4. CASE Receive
    <2>1. /\ pc = "receive" /\ pc' = "dispatch"
          /\ UNCHANGED <<peer, down, params, started, fault>>
          /\ \/ urgent # <<>> /\ urgent' = Tail(urgent) /\ up' = up
             \/ up # <<>> /\ up' = Tail(up) /\ urgent' = urgent
      BY <1>4 DEF Receive
    <2>2. Len(up') + Len(urgent') <= MaxMsg
      <3>1. CASE urgent # <<>> /\ urgent' = Tail(urgent) /\ up' = up
        <4>1. Len(urgent') = Len(urgent) - 1
          BY <1>1, <3>1
        <4>2. QED BY <1>1, <3>1, <4>1 DEF BoundInv
      <3>2. CASE up # <<>> /\ up' = Tail(up) /\ urgent' = urgent
        <4>1. Len(up') = Len(up) - 1
          BY <1>1, <3>2
        <4>2. QED BY <1>1, <3>2, <4>1 DEF BoundInv
      <3>3. QED BY <2>1, <3>1, <3>2
    <2>3. QED BY <2>1, <2>2 DEF BoundInv, Places, peer
  <1>5. CASE Symmetry \/ Disaggregate \/ AllPutBack \/ Ignore \/ EndOfTable \/ TakeAnswer
             \/ PassQuiet
    <2>1. /\ UNCHANGED <<peer, up, urgent, down, params, started, fault>>
          /\ pc # "crashed" /\ pc' \in Places \ {"crashed"}
      BY <1>5 DEF Symmetry, Disaggregate, AllPutBack, Ignore, EndOfTable, TakeAnswer, PassQuiet,
         Sweep, SweepConnections, Places
    <2>2. QED BY <2>1 DEF BoundInv, peer
  <1>6. CASE Configure
    <2> DEFINE result == llc_link_configure(params, buf.data)
    <2>1. result \in ReaderType
      <3>1. buf.data \in Lists
        BY <1>1, <1>6, PaxCarriesList DEF Configure
      <3>2. QED BY <3>1, ListsAreBytes, ConfigureTyped DEF BoundInv
    <2>2. /\ params' = result.params /\ fault' = ~result.ok
          /\ pc' = IF result.ok THEN "sweep" ELSE "crashed"
          /\ UNCHANGED <<peer, up, urgent, down, started>>
      BY <1>6 DEF Configure, Sweep
    <2> HIDE DEF result
    <2>3. result.ok \in BOOLEAN /\ result.params \in ParamType
      BY <2>1 DEF ReaderType
    <2>4. pc' \in Places /\ fault' = (pc' = "crashed")
      BY <2>2, <2>3 DEF Places
    <2>5. QED BY <2>2, <2>3, <2>4 DEF BoundInv, peer
  <1>7. CASE PutBack
    <2>1. /\ UNCHANGED <<peer, up, down, params, pc, started, fault>>
          /\ parts # <<>>
          /\ \/ urgent' = urgent
             \/ Len(up) + Len(urgent) < MaxMsg /\ urgent' = Append(urgent, Head(parts))
      BY <1>7 DEF PutBack
    <2>2. Len(up') + Len(urgent') <= MaxMsg
      <3>1. CASE urgent' = urgent
        BY <2>1, <3>1 DEF BoundInv
      <3>2. CASE Len(up) + Len(urgent) < MaxMsg /\ urgent' = Append(urgent, Head(parts))
        <4>1. Len(urgent') = Len(urgent) + 1
          <5>1. Head(parts) \in AnyRequest
            BY <2>1, HeadTaken DEF TypeInv
          <5>2. QED BY <1>1, <3>2, <5>1
        <4>2. QED BY <1>1, <2>1, <3>2, <4>1
      <3>3. QED BY <2>1, <3>1, <3>2
    <2>3. QED BY <2>1, <2>2 DEF BoundInv, peer
  <1>8. CASE Spawn
    <2>1. /\ UNCHANGED <<peer, up, urgent, down, params, fault>>
          /\ pc = "dispatch" /\ pc' = "sweep" /\ IsDatagram(buf)
          /\ started' = started \/ started' = started \cup {buf.n}
      BY <1>8 DEF Spawn, Sweep
    <2>2. buf \in AnyRequest
      BY <1>1, <2>1, FrameFacts
    <2>3. buf \in Waiting
      BY <2>2, CarriedFacts DEF Waiting
    <2>4. buf.n \in 1 .. Len(sent)
      BY <2>3 DEF RealInv, Real
    <2>5. QED BY <2>1, <2>4 DEF BoundInv, Places, peer
  <1>9. CASE Send
    <2>1. /\ UNCHANGED <<peer, up, urgent, params, started, fault>>
          /\ pc = "send" /\ pc' = "receive"
          /\ \/ down' = down
             \/ out # None /\ Len(down) < MaxMsg /\ down' = Append(down, out)
      BY <1>9 DEF Send
    <2>2. Len(down') <= MaxMsg
      <3>1. CASE down' = down
        BY <3>1 DEF BoundInv
      <3>2. CASE out # None /\ Len(down) < MaxMsg /\ down' = Append(down, out)
        <4>1. Len(down') = Len(down) + 1
          BY <1>1, <3>2 DEF TypeInv
        <4>2. QED BY <1>1, <3>2, <4>1
      <3>3. QED BY <2>1, <3>1, <3>2
    <2>3. QED BY <2>1, <2>2 DEF BoundInv, Places, peer
  <1>10. ASSUME NEW i \in Slot, Server(i) PROVE BoundInv'
    <2>1. CASE ServerReceives(i) \/ SdpAnswers(i)
      BY <2>1 DEF ServerReceives, SdpAnswers, BoundInv, peer, engine
    <2>2. CASE EchoAnswers(i)
      <3>1. /\ UNCHANGED <<peer, up, urgent, engine, fault>>
            /\ Len(down) < MaxMsg /\ down' = Append(down, Answer(held[i]))
        BY <2>2 DEF EchoAnswers
      <3>2. Len(down') = Len(down) + 1
        BY <1>1, <3>1
      <3>3. Len(down') <= MaxMsg
        BY <1>1, <3>1, <3>2
      <3>4. QED BY <3>1, <3>3 DEF BoundInv, peer, engine
    <2>3. QED BY <1>10, <2>1, <2>2 DEF Server
  <1>11. CASE UNCHANGED vars
    BY <1>11 DEF BoundInv, vars, peer, engine
  <1>12. QED
    BY <1>2, <1>3, <1>4, <1>5, <1>6, <1>7, <1>8, <1>9, <1>10, <1>11 DEF Next, Engine

LEMMA BoundInvariance == Spec => []BoundInv
  <1>1. TypeInv /\ RealInv /\ BoundInv /\ [Next]_vars => BoundInv'
    BY BoundNext
  <1>2. QED BY <1>1, BoundInit, Invariance, PTL DEF Spec

\* A queue that is short enough, of messages of a kind.
LEMMA ShortQueue ==
    ASSUME NEW T, NEW S, NEW s \in Seq(T), Len(s) <= MaxMsg, \A x \in SetOf(s) : x \in S
    PROVE  s \in Messages(S)
  <1>1. PICK k \in Nat : k = Len(s)
    OBVIOUS
  <1>2. \A j \in 1 .. k : s[j] \in S
    BY <1>1 DEF SetOf
  <1>3. s \in [1 .. k -> S]
    BY <1>1, <1>2
  <1>4. k \in 0 .. MaxMsg
    BY <1>1, DatagramsAssumption
  <1>5. QED BY <1>3, <1>4 DEF Messages

\* The variables keep their types, for any table, services, peers and bounds: above all
\* no queue of the link ever holds more than mq_maxmsg, the link's parameters
\* stay within their fields whatever list a peer sends, and every message on its way is
\* a request the peer may make or the answer to one.
THEOREM DatagramTypeCorrect == Spec => []TypeOK
  <1>1. ASSUME TypeInv, RealInv, OnceInv, BoundInv PROVE TypeOK
    <2>1. Len(sent) \in Nat /\ MaxRequest \in Nat /\ MaxMsg \in Nat \ {0} /\ MaxSlot \in Nat
      BY <1>1, DatagramsAssumption DEF TypeInv
    <2>2. ASSUME NEW k \in 1 .. Len(sent) PROVE sent[k] \in AnyRequest /\ sent[k] \in Requests(k)
      <3>1. sent[k] \in AnyRequest /\ sent[k].n = k
        BY <1>1 DEF TypeInv
      <3>2. QED BY <3>1, RequestFacts, Zenon
    <2>3. \A k \in 1 .. Len(sent) : sent[k] \in Requested
      <3>1. \A k \in 1 .. Len(sent) : k \in 1 .. MaxRequest
        BY <1>1, <2>1 DEF BoundInv
      <3>2. QED BY <2>2, <3>1 DEF Requested
    <2>4. \A r : Real(r) => r \in Requested
      BY <2>3 DEF Real
    <2>5. \A a : Genuine(a) => a \in Answers
      BY <2>3 DEF Genuine, Answers
    <2>6. urgent \in Messages(Requested)
      <3>1. urgent \in Seq(AnyRequest) /\ Len(urgent) <= MaxMsg
        <4>1. /\ urgent \in Seq(AnyRequest) /\ Len(up) \in Nat /\ Len(urgent) \in Nat
              /\ Len(up) + Len(urgent) <= MaxMsg
          BY <1>1 DEF TypeInv, BoundInv
        <4>2. QED BY <2>1, <4>1
      <3>2. \A x \in SetOf(urgent) : x \in Requested
        BY <1>1, <2>4 DEF RealInv, Waiting
      <3>3. QED BY <3>1, <3>2, ShortQueue
    <2>7. down \in Messages(Answers)
      <3>1. down \in Seq(AnyAnswer) /\ Len(down) <= MaxMsg
        BY <1>1 DEF TypeInv, BoundInv
      <3>2. \A x \in SetOf(down) : x \in Answers
        BY <1>1, <2>5 DEF RealInv
      <3>3. QED BY <3>1, <3>2, ShortQueue
    <2>8. out \in Answers \cup {None}
      BY <1>1, <2>5 DEF RealInv
    <2>9. ASSUME NEW i \in Slot
          PROVE  /\ linkUp[i] \in Messages(Requested) /\ linkDown[i] \in Messages(Answers)
                 /\ held[i] \in Requested \cup {None}
      <3>1. /\ linkUp[i] \in Seq(AnyRequest) /\ linkDown[i] \in Seq(AnyAnswer)
            /\ Len(linkUp[i]) \in Nat /\ Len(linkDown[i]) \in Nat
        BY <1>1 DEF TypeInv
      <3>2. Len(linkUp[i]) <= 1 /\ Len(linkDown[i]) <= 1
        BY <1>1 DEF OnceInv, SlotP
      <3>3. Len(linkUp[i]) <= MaxMsg /\ Len(linkDown[i]) <= MaxMsg
        BY <2>1, <3>1, <3>2
      <3>4. /\ \A x \in SetOf(linkUp[i]) : x \in Requested
            /\ \A x \in SetOf(linkDown[i]) : x \in Answers
            /\ held[i] \in Requested \cup {None}
        BY <1>1, <2>4, <2>5 DEF RealInv
      <3>5. QED BY <3>1, <3>3, <3>4, ShortQueue
    <2>10. /\ linkUp \in [Slot -> Messages(Requested)] /\ linkDown \in [Slot -> Messages(Answers)]
           /\ held \in [Slot -> Requested \cup {None}]
      BY <1>1, <2>9 DEF TypeInv
    <2>11. QED BY <1>1, <2>2, <2>6, <2>7, <2>8, <2>10 DEF TypeOK, TypeInv, BoundInv, Places
  <1>2. QED BY <1>1, Invariance, BoundInvariance, PTL

-----------------------------------------------------------------------------
(***************************************************************************)
(* The lists in line: whatever parameters are still on their way to the    *)
(* engine are malformed or an announcement the peer has made, and the last *)
(* of them, if it is not malformed, is the peer's last announcement.       *)
(***************************************************************************)
IsList(f) == f.type = "PAX"
Announcement(list, j) == list = llc_link_encode_parameters(pax[j])
KnownList(list) == list \in Malformed \/ \E j \in 1 .. Len(pax) : Announcement(list, j)
Latest(list) == list \in Malformed \/ (pax # <<>> /\ Announcement(list, Len(pax)))
Behind(j)    == \E k \in j + 1 .. Len(up) : IsList(up[k])

ListsInv ==
  /\ \A j \in 1 .. Len(up) : IsList(up[j]) =>
       KnownList(up[j].data) /\ (Behind(j) \/ Latest(up[j].data))
  /\ IsList(buf) => KnownList(buf.data) /\ (Behind(0) \/ Latest(buf.data))

VersionInv ==
  ~fault =>
    /\ params.version.major >= 1
    /\ \/ params.version = Defaults.version
       \/ \E j \in 1 .. Len(pax) :
            params.version = LowerVersion(pax[j].version, Defaults.version)

LineInv == ListsInv /\ VersionInv /\ AnnouncementTaken

\* The hypotheses of AnnouncedAreTaken: the lists that are no announcement are refused,
\* and the peer, if it announces itself again, is of the version it was.
OnlyMalformed == \A list \in Malformed : ~llc_link_configure(Defaults, list).ok
OneVersion == MaxPax <= 1 \/ \A p, q \in Announcers : p.version = q.version

Versions == [major : 0 .. 15, minor : 0 .. 15]

\* With the version of the device, or with the one they have agreed on, the agreement
\* is the lower of the two.
LEMMA AgreementIsLower ==
    ASSUME NEW v \in Versions, NEW own \in {Defaults.version, LowerVersion(v, Defaults.version)},
           own.major >= 1, CanAgree(own, v)
    PROVE  llcp_version_agreement(own, v) = LowerVersion(v, Defaults.version)
  <1>1. Defaults.version = [major |-> 1, minor |-> 1]
    BY DEF Defaults
  <1>2. PICK a \in 0 .. 15, m \in 0 .. 15 : v = [major |-> a, minor |-> m]
    BY DEF Versions
  <1>3. LowerVersion(v, Defaults.version)
          = IF a < 1 \/ (a = 1 /\ m < 1) THEN v ELSE [major |-> 1, minor |-> 1]
    BY <1>1, <1>2 DEF LowerVersion, Earlier
  <1>4. a >= 1
    <2>1. CASE own = v
      BY <1>2, <2>1
    <2>2. CASE own = [major |-> 1, minor |-> 1]
      BY <1>2, <2>2 DEF CanAgree
    <2>3. QED BY <1>1, <1>3, <2>1, <2>2
  <1>5. CASE a = 1 /\ m = 0
    <2>1. v = [major |-> 1, minor |-> 0] /\ LowerVersion(v, Defaults.version) = v
      BY <1>2, <1>3, <1>5
    <2>2. CASE own = v
      BY <2>1, <2>2 DEF llcp_version_agreement, Lower
    <2>3. CASE own = [major |-> 1, minor |-> 1]
      BY <2>1, <2>3 DEF llcp_version_agreement, Lower
    <2>4. QED BY <1>1, <2>1, <2>2, <2>3
  <1>6. CASE ~(a = 1 /\ m = 0)
    <2>1. LowerVersion(v, Defaults.version) = [major |-> 1, minor |-> 1]
      BY <1>3, <1>4, <1>6
    <2>2. own = [major |-> 1, minor |-> 1]
      BY <1>1, <2>1
    <2>3. CASE a = 1
      <3>1. m >= 1
        BY <1>6, <2>3
      <3>2. QED BY <1>2, <2>1, <2>2, <2>3, <3>1 DEF llcp_version_agreement, Lower
    <2>4. CASE a # 1
      <3>1. a > 1
        BY <1>4, <2>4
      <3>2. QED BY <1>2, <2>1, <2>2, <3>1 DEF llcp_version_agreement
    <2>5. QED BY <2>3, <2>4
  <1>7. QED BY <1>5, <1>6

\* What the peer's steps do to the lists.
LEMMA MacLists ==
    ASSUME TypeInv, Mac
    PROVE  /\ UNCHANGED <<buf, params, fault>>
           /\ \E f \in Frame :
                /\ up' = Append(up, f)
                /\ \/ pax' = pax /\ (IsList(f) => f.data \in Malformed)
                   \/ \E p \in Announcers :
                        /\ pax' = Append(pax, p)
                        /\ IsList(f) /\ f.data = llc_link_encode_parameters(p)
  <1> DEFINE Result ==
        \E f \in Frame :
                /\ up' = Append(up, f)
                /\ \/ pax' = pax /\ (IsList(f) => f.data \in Malformed)
                   \/ \E p \in Announcers :
                        /\ pax' = Append(pax, p)
                        /\ IsList(f) /\ f.data = llc_link_encode_parameters(p)
  <1>1. UNCHANGED <<buf, params, fault>>
    BY MacStep DEF engine
  <1>2. CASE PeerIdle
    <2>1. Symm \in Frame /\ ~IsList(Symm) /\ up' = Append(up, Symm) /\ pax' = pax
      BY <1>2, FrameFacts DEF PeerIdle, Carry, peer, Frame, IsList
    <2>2. QED BY <1>1, <2>1
  <1>3. CASE PeerAsks
    <2>1. PICK r \in Requests(Len(sent) + 1) : up' = Append(up, r) /\ pax' = pax
      BY <1>3 DEF PeerAsks, Carry
    <2>2. Len(sent) + 1 \in Nat \ {0}
      BY DEF TypeInv
    <2>3. r \in AnyRequest
      BY <2>2, RequestFacts
    <2>4. r \in Frame /\ ~IsList(r)
      BY <2>3, RequestFacts DEF Frame, IsList
    <2>5. QED BY <1>1, <2>1, <2>4
  <1>4. CASE PeerAggregates
    <2>1. PICK rs : up' = Append(up, Pdu("AGF", 0, 0, rs)) /\ pax' = pax
      BY <1>4 DEF PeerAggregates, Carry
    <2>2. PICK f \in Frame : up' = Append(up, f)
      BY MacStep
    <2>3. Pdu("AGF", 0, 0, rs) = f
      <3>1. Append(up, Pdu("AGF", 0, 0, rs)) = Append(up, f)
        BY <2>1, <2>2
      <3>2. up \in Seq(Frame)
        BY DEF TypeInv
      <3>3. Append(up, Pdu("AGF", 0, 0, rs))[Len(up) + 1] = Pdu("AGF", 0, 0, rs)
        BY <3>2
      <3>4. Append(up, f)[Len(up) + 1] = f
        BY <3>2
      <3>5. QED BY <3>1, <3>3, <3>4
    <2>4. ~IsList(f)
      BY <2>3, PduFields DEF IsList
    <2>5. QED BY <1>1, <2>1, <2>2, <2>4
  <1>5. CASE PeerAnnounces
    <2>1. ASSUME NEW list \in Lists
          PROVE  /\ Pdu("PAX", 0, 0, list) \in Frame /\ IsList(Pdu("PAX", 0, 0, list))
                 /\ Pdu("PAX", 0, 0, list).data = list
      BY PduFields DEF Frame, IsList
    <2>2. CASE \E p \in Announcers :
                 /\ pax' = Append(pax, p)
                 /\ Carry(Pdu("PAX", 0, 0, llc_link_encode_parameters(p)))
      <3>1. PICK p \in Announcers :
                 /\ pax' = Append(pax, p)
                 /\ Carry(Pdu("PAX", 0, 0, llc_link_encode_parameters(p)))
        BY <2>2
      <3>2. llc_link_encode_parameters(p) \in Lists
        BY DEF Lists
      <3>3. PICK f \in Frame : f = Pdu("PAX", 0, 0, llc_link_encode_parameters(p))
        BY <2>1, <3>2
      <3>4. IsList(f) /\ f.data = llc_link_encode_parameters(p) /\ up' = Append(up, f)
        BY <2>1, <3>1, <3>2, <3>3 DEF Carry
      <3>5. QED BY <1>1, <3>1, <3>4
    <2>3. CASE \E list \in Malformed : Carry(Pdu("PAX", 0, 0, list)) /\ UNCHANGED pax
      <3>1. PICK list \in Malformed : Carry(Pdu("PAX", 0, 0, list)) /\ UNCHANGED pax
        BY <2>3
      <3>2. list \in Lists
        BY DEF Lists
      <3>3. PICK f \in Frame : f = Pdu("PAX", 0, 0, list)
        BY <2>1, <3>2
      <3>4. IsList(f) /\ f.data = list /\ up' = Append(up, f)
        BY <2>1, <3>1, <3>2, <3>3 DEF Carry
      <3>5. QED BY <1>1, <3>1, <3>4
    <2>4. QED BY <1>5, <2>2, <2>3 DEF PeerAnnounces
  <1>6. QED BY <1>2, <1>3, <1>4, <1>5 DEF Mac

LEMMA LineInit == Init => LineInv
  <1>1. ASSUME Init PROVE ListsInv
    <2>1. up = <<>> /\ buf = None /\ None.type = "none"
      BY <1>1, FrameFacts DEF Init
    <2>2. QED BY <2>1 DEF ListsInv, IsList
  <1>2. ASSUME Init PROVE VersionInv
    BY <1>2 DEF Init, VersionInv, Defaults
  <1>3. ASSUME Init PROVE AnnouncementTaken
    BY <1>3 DEF Init, AnnouncementTaken
  <1>4. QED BY <1>1, <1>2, <1>3 DEF LineInv

\* A step that adds no list and takes none from the line.
LEMMA LineKept ==
    ASSUME LineInv, UNCHANGED <<up, pax, params, fault>>,
           buf' = buf \/ (~IsList(buf) /\ ~IsList(buf'))
    PROVE  LineInv'
  <1>1. /\ \A j : Behind(j)' = Behind(j)
        /\ \A list : KnownList(list)' = KnownList(list) /\ Latest(list)' = Latest(list)
    BY DEF Behind, KnownList, Latest, Announcement
  <1>2. ListsInv'
    BY <1>1 DEF LineInv, ListsInv
  <1>3. VersionInv'
    BY DEF LineInv, VersionInv
  <1>4. IsList(buf') <=> IsList(buf)
    OBVIOUS
  <1>5. AnnouncementTaken'
    BY <1>4 DEF LineInv, AnnouncementTaken, Underway, IsList
  <1>6. QED BY <1>2, <1>3, <1>5 DEF LineInv

\* What the peer sends goes to the end of the line, and what it announces with it.
LEMMA LineMac == ASSUME TypeInv, BoundInv, LineInv, Mac PROVE LineInv'
  <1>1. PICK f \in Frame :
          /\ up' = Append(up, f)
          /\ \/ pax' = pax /\ (IsList(f) => f.data \in Malformed)
             \/ \E p \in Announcers :
                  /\ pax' = Append(pax, p)
                  /\ IsList(f) /\ f.data = llc_link_encode_parameters(p)
    BY MacLists
  <1>2. UNCHANGED <<buf, params, fault>>
    BY MacLists
  <1>3. PICK m \in Nat : m = Len(up)
    <2>1. up \in Seq(Frame)
      BY DEF TypeInv
    <2>2. QED BY <2>1, LenProperties
  <1>4. /\ Len(up') = m + 1 /\ up'[m + 1] = f
        /\ \A j \in 1 .. m : up'[j] = up[j]
    BY <1>1, <1>3 DEF TypeInv
  <1>5. PICK n \in Nat : n = Len(pax)
    BY DEF BoundInv
  <1>6. /\ Len(pax') \in n .. n + 1 /\ \A j \in 1 .. n : pax'[j] = pax[j]
        /\ pax' = pax \/ (pax' # <<>> /\ IsList(f))
        /\ IsList(f) => f.data \in Malformed
                          \/ f.data = llc_link_encode_parameters(pax'[Len(pax')])
    <2>1. pax \in Seq(Announcers)
      BY DEF BoundInv
    <2>2. CASE pax' = pax
      BY <1>1, <1>5, <2>2, SMT
    <2>3. CASE \E p \in Announcers :
                  /\ pax' = Append(pax, p)
                  /\ IsList(f) /\ f.data = llc_link_encode_parameters(p)
      <3>1. PICK p \in Announcers :
                  /\ pax' = Append(pax, p)
                  /\ IsList(f) /\ f.data = llc_link_encode_parameters(p)
        BY <2>3
      <3>2. /\ Len(pax') = n + 1 /\ pax'[n + 1] = p /\ \A j \in 1 .. n : pax'[j] = pax[j]
            /\ pax' # <<>>
        BY <1>5, <2>1, <3>1
      <3>3. QED BY <3>1, <3>2
    <2>4. QED BY <1>1, <2>2, <2>3
  <1>7. \A list : KnownList(list) => KnownList(list)'
    BY <1>5, <1>6 DEF KnownList, Announcement
  <1>8. IsList(f) => KnownList(f.data)' /\ Latest(f.data)'
    <2>1. CASE f.data \in Malformed
      BY <2>1 DEF KnownList, Latest
    <2>2. CASE IsList(f) /\ f.data \notin Malformed
      <3>1. f.data = llc_link_encode_parameters(pax'[Len(pax')]) /\ pax' # <<>>
        BY <1>1, <1>6, <2>2
      <3>2. pax' \in Seq(Announcers)
        BY <1>1 DEF BoundInv
      <3>3. Len(pax') \in 1 .. Len(pax')
        BY <3>1, <3>2
      <3>4. QED BY <3>1, <3>3 DEF KnownList, Latest, Announcement
    <2>3. QED BY <2>1, <2>2
  <1>9. ASSUME NEW j \in 0 .. m PROVE Behind(j)' <=> Behind(j) \/ IsList(f)
    <2>1. Behind(j)' <=> \E k \in j + 1 .. m + 1 : IsList(up'[k])
      BY <1>4 DEF Behind, IsList
    <2>2. Behind(j) <=> \E k \in j + 1 .. m : IsList(up[k])
      BY <1>3 DEF Behind
    <2>3. \A k \in j + 1 .. m : up'[k] = up[k]
      BY <1>4
    <2>4. \A k \in j + 1 .. m + 1 : k \in j + 1 .. m \/ k = m + 1
      OBVIOUS
    <2>5. m + 1 \in j + 1 .. m + 1 /\ \A k \in j + 1 .. m : k \in j + 1 .. m + 1
      OBVIOUS
    <2>6. QED BY <1>4, <2>1, <2>2, <2>3, <2>4, <2>5
  <1>10. ~IsList(f) => \A list : Latest(list)' = Latest(list)
    BY <1>6 DEF Latest, Announcement
  <1>11. ListsInv'
    <2>1. ASSUME NEW j \in 1 .. Len(up'), NEW g, g = up'[j], IsList(g)
          PROVE  KnownList(g.data)' /\ (Behind(j)' \/ Latest(g.data)')
      <3>1. CASE j = m + 1
        BY <1>4, <1>8, <2>1, <3>1
      <3>2. CASE j # m + 1
        <4>1. j \in 1 .. m /\ j \in 0 .. m
          BY <1>4, <3>2
        <4>2. up[j] = g /\ IsList(up[j])
          BY <1>4, <2>1, <4>1
        <4>3. KnownList(g.data) /\ (Behind(j) \/ Latest(g.data))
          BY <1>3, <4>1, <4>2 DEF LineInv, ListsInv
        <4>4. QED BY <1>7, <1>9, <1>10, <4>1, <4>2, <4>3
      <3>3. QED BY <3>1, <3>2
    <2>2. ASSUME NEW g, g = buf', IsList(g)
          PROVE  KnownList(g.data)' /\ (Behind(0)' \/ Latest(g.data)')
      <3>1. KnownList(g.data) /\ (Behind(0) \/ Latest(g.data))
        BY <1>2, <2>2 DEF LineInv, ListsInv
      <3>2. 0 \in 0 .. m
        OBVIOUS
      <3>3. QED BY <1>7, <1>9, <1>10, <3>1, <3>2
    <2>3. QED BY <2>1, <2>2 DEF ListsInv, IsList, KnownList, Latest, Announcement
  <1>12. VersionInv'
    BY <1>2, <1>5, <1>6 DEF LineInv, VersionInv
  <1>13. AnnouncementTaken'
    <2>1. CASE IsList(f)
      <3>1. Underway("PAX")'
        BY <1>4, <2>1 DEF Underway, IsList
      <3>2. QED BY <3>1 DEF AnnouncementTaken
    <2>2. CASE ~IsList(f)
      <3>1. pax' = pax
        BY <1>6, <2>2
      <3>2. Underway("PAX") => Underway("PAX")'
        <4>1. CASE buf.type = "PAX"
          BY <1>2, <4>1 DEF Underway
        <4>2. CASE \E k \in 1 .. Len(up) : up[k].type = "PAX"
          BY <1>3, <1>4, <4>2 DEF Underway
        <4>3. QED BY <4>1, <4>2 DEF Underway
      <3>3. QED BY <1>2, <3>1, <3>2 DEF LineInv, AnnouncementTaken
    <2>3. QED BY <2>1, <2>2
  <1>14. QED BY <1>11, <1>12, <1>13 DEF LineInv

\* The engine takes the first of the line; a request put back is no list.
LEMMA LineReceive == ASSUME TypeInv, HandsInv, LineInv, Receive PROVE LineInv'
  <1>1. ~IsList(buf)
    BY FrameFacts DEF Receive, HandsInv, IsList
  <1>2. UNCHANGED <<pax, params, fault>>
    BY DEF Receive, peer
  <1>3. CASE urgent # <<>> /\ buf' = Head(urgent) /\ UNCHANGED up
    <2>1. Head(urgent) \in AnyRequest
      BY <1>3, HeadTaken DEF TypeInv
    <2>2. ~IsList(buf')
      BY <1>3, <2>1, RequestFacts DEF IsList
    <2>3. QED BY <1>1, <1>2, <1>3, <2>2, LineKept
  <1>4. CASE up # <<>> /\ buf' = Head(up) /\ up' = Tail(up)
    <2>1. PICK m \in Nat : m = Len(up)
      BY DEF TypeInv
    <2>2. /\ m >= 1 /\ buf' = up[1] /\ Len(up') = m - 1
          /\ \A j \in 1 .. m - 1 : up'[j] = up[j + 1]
      BY <1>4, <2>1 DEF TypeInv
    <2>3. \A list : KnownList(list)' = KnownList(list) /\ Latest(list)' = Latest(list)
      BY <1>2 DEF KnownList, Latest, Announcement
    <2>4. ASSUME NEW j \in 0 .. m - 1 PROVE Behind(j)' <=> Behind(j + 1)
      <3>1. Behind(j)' <=> \E k \in j + 1 .. m - 1 : IsList(up'[k])
        BY <2>2 DEF Behind, IsList
      <3>2. Behind(j + 1) <=> \E k \in j + 2 .. m : IsList(up[k])
        <4>1. (j + 1) + 1 = j + 2
          OBVIOUS
        <4>2. QED BY <2>1, <4>1 DEF Behind
      <3>3. ASSUME NEW k \in j + 1 .. m - 1, IsList(up'[k])
            PROVE  \E i \in j + 2 .. m : IsList(up[i])
        <4>1. k + 1 \in j + 2 .. m /\ up'[k] = up[k + 1]
          BY <2>2
        <4>2. QED BY <3>3, <4>1
      <3>4. ASSUME NEW i \in j + 2 .. m, IsList(up[i])
            PROVE  \E k \in j + 1 .. m - 1 : IsList(up'[k])
        <4>1. i - 1 \in j + 1 .. m - 1 /\ i - 1 \in 1 .. m - 1 /\ (i - 1) + 1 = i
          OBVIOUS
        <4>2. up'[i - 1] = up[i]
          BY <2>2, <4>1
        <4>3. QED BY <3>4, <4>1, <4>2
      <3>5. QED BY <3>1, <3>2, <3>3, <3>4
    <2>5. ListsInv'
      <3>1. ASSUME NEW j \in 1 .. Len(up'), NEW g, g = up'[j], IsList(g)
            PROVE  KnownList(g.data)' /\ (Behind(j)' \/ Latest(g.data)')
        <4>1. j \in 1 .. m - 1 /\ j \in 0 .. m - 1 /\ j + 1 \in 1 .. Len(up)
          BY <2>1, <2>2
        <4>2. up[j + 1] = g
          BY <2>2, <3>1, <4>1
        <4>3. KnownList(g.data) /\ (Behind(j + 1) \/ Latest(g.data))
          BY <3>1, <4>1, <4>2 DEF LineInv, ListsInv
        <4>4. QED BY <2>3, <2>4, <4>1, <4>2, <4>3
      <3>2. ASSUME NEW g, g = buf', IsList(g)
            PROVE  KnownList(g.data)' /\ (Behind(0)' \/ Latest(g.data)')
        <4>1. 1 \in 1 .. Len(up) /\ 0 \in 0 .. m - 1 /\ 0 + 1 = 1
          BY <2>1, <2>2
        <4>2. KnownList(g.data) /\ (Behind(1) \/ Latest(g.data))
          BY <2>2, <3>2, <4>1 DEF LineInv, ListsInv
        <4>3. Behind(0)' <=> Behind(1)
          BY <2>4, <4>1
        <4>4. QED BY <2>2, <2>3, <4>2, <4>3
      <3>3. QED BY <3>1, <3>2 DEF ListsInv, IsList, KnownList, Latest, Announcement
    <2>6. VersionInv'
      BY <1>2 DEF LineInv, VersionInv
    <2>7. Underway("PAX") => Underway("PAX")'
      <3>1. ASSUME NEW k \in 1 .. Len(up), up[k].type = "PAX" PROVE Underway("PAX")'
        <4>1. CASE k = 1
          BY <2>2, <3>1, <4>1 DEF Underway
        <4>2. CASE k # 1
          <5>1. k - 1 \in 1 .. m - 1 /\ (k - 1) + 1 = k
            BY <2>1, <4>2
          <5>2. up'[k - 1] = up[k] /\ k - 1 \in 1 .. Len(up')
            BY <2>2, <5>1
          <5>3. QED BY <3>1, <5>2 DEF Underway
        <4>3. QED BY <4>1, <4>2
      <3>2. QED BY <1>1, <3>1 DEF Underway, IsList
    <2>8. AnnouncementTaken'
      BY <1>2, <2>7 DEF LineInv, AnnouncementTaken
    <2>9. QED BY <2>5, <2>6, <2>8 DEF LineInv
  <1>5. QED BY <1>3, <1>4 DEF Receive

\* The peer has announced one version.
LEMMA SameVersions ==
    ASSUME OneVersion, BoundInv
    PROVE  \A j, k \in 1 .. Len(pax) : pax[j].version = pax[k].version
  <1>1. pax \in Seq(Announcers) /\ Len(pax) <= MaxPax /\ Len(pax) \in Nat /\ MaxPax \in Nat
    BY DatagramsAssumption DEF BoundInv
  <1>2. CASE MaxPax <= 1
    <2>1. \A j, k \in 1 .. Len(pax) : j = k
      BY <1>1, <1>2
    <2>2. QED BY <2>1
  <1>3. CASE \A p, q \in Announcers : p.version = q.version
    BY <1>1, <1>3
  <1>4. QED BY <1>2, <1>3 DEF OneVersion

\* The parameters say of the peer what it has announced.
Taken(p, announced) ==
  /\ p.version = LowerVersion(announced.version, Defaults.version)
  /\ p.remote_lto = announced.lto /\ p.remote_lsc = announced.opt
  /\ {s \in 0 .. 15 : (p.remote_wks \div 2 ^ s) % 2 = 1}
       = (announced.saps \cap 0 .. 15) \cup {0}

\* What the engine makes of a list that is not refused: it is one the peer has announced
\* itself with, and the link is what that list says.
LEMMA ListTaken ==
    ASSUME OnlyMalformed, OneVersion, BoundInv, VersionInv, ~fault,
           NEW list \in Lists, KnownList(list), llc_link_configure(params, list).ok
    PROVE  /\ list \notin Malformed
           /\ llc_link_configure(params, list).params.version.major >= 1
           /\ \A j \in 1 .. Len(pax) :
                Announcement(list, j) => Taken(llc_link_configure(params, list).params, pax[j])
  <1>1. params \in ParamType /\ params.version.major >= 1 /\ list \in Seq(Byte)
    BY ListsAreBytes DEF BoundInv, VersionInv
  <1>2. Defaults \in ParamType /\ Defaults.version.major >= 1
    <2>1. Defaults.version.major = 1
      BY DEF Defaults
    <2>2. QED BY <2>1, DefaultsTyped
  <1>3. /\ llc_link_configure(Defaults, list).ok
        /\ llc_link_configure(params, list).params.version.major >= 1
    BY <1>1, <1>2, TakenAlike
  <1>4. list \notin Malformed
    BY <1>3 DEF OnlyMalformed
  <1>5. ASSUME NEW j \in 1 .. Len(pax), Announcement(list, j)
        PROVE  Taken(llc_link_configure(params, list).params, pax[j])
    <2>1. PICK q \in Announcers : q = pax[j]
      BY DEF BoundInv
    <2>2. PICK r : r = llc_link_configure(params, list)
      OBVIOUS
    <2>3. r = llc_link_configure(params, llc_link_encode_parameters(q)) /\ r.ok
      BY <1>5, <2>1, <2>2 DEF Announcement
    <2>4. /\ CanAgree(params.version, q.version)
          /\ r.params.version = llcp_version_agreement(params.version, q.version)
          /\ r.params.remote_lto = q.lto /\ r.params.remote_lsc = q.opt
          /\ r.params.remote_wks
               = llc_link_get_wks(q.saps) - (llc_link_get_wks(q.saps) % 2) + 1
      BY <1>1, <2>3, TakenAsAnnounced
    <2>5. params.version \in {Defaults.version, LowerVersion(q.version, Defaults.version)}
      <3>1. CASE params.version = Defaults.version
        BY <3>1
      <3>2. CASE \E k \in 1 .. Len(pax) :
                   params.version = LowerVersion(pax[k].version, Defaults.version)
        <4>1. PICK k \in 1 .. Len(pax) :
                   params.version = LowerVersion(pax[k].version, Defaults.version)
          BY <3>2
        <4>2. pax[k].version = q.version
          BY <2>1, SameVersions
        <4>3. QED BY <4>1, <4>2
      <3>3. QED BY <3>1, <3>2 DEF VersionInv
    <2>6. r.params.version = LowerVersion(q.version, Defaults.version)
      <3>1. q.version \in Versions
        BY PeersAssumption DEF Versions
      <3>2. QED BY <1>1, <2>4, <2>5, <3>1, AgreementIsLower
    <2>7. {s \in 0 .. 15 : (r.params.remote_wks \div 2 ^ s) % 2 = 1}
            = (q.saps \cap 0 .. 15) \cup {0}
      BY <2>4, ServicesAnnounced, Zenon
    <2>8. Taken(r.params, q)
      BY <2>4, <2>6, <2>7, Zenon DEF Taken
    <2>9. QED BY <2>1, <2>2, <2>8, Zenon
  <1>6. QED BY <1>3, <1>4, <1>5

\* That is what the invariant asks for.
LEMMA TakenIsAnnounced ==
    AnnouncementTaken <=> (pax # <<>> /\ ~Underway("PAX") => Taken(params, pax[Len(pax)]))
  BY Zenon DEF AnnouncementTaken, Taken

\* A list is read: refused, it stays in the buffer of a process that has ended;
\* taken, it is one the peer has announced itself with, and if no other comes
\* behind, the last.
LEMMA LineConfigure ==
    ASSUME OnlyMalformed, OneVersion, TypeInv, BoundInv, LineInv, ~fault, Configure
    PROVE  LineInv'
  <1>1. /\ IsList(buf) /\ pc = "dispatch" /\ UNCHANGED <<pax, up>>
        /\ params' = llc_link_configure(params, buf.data).params
        /\ fault' = ~llc_link_configure(params, buf.data).ok
        /\ llc_link_configure(params, buf.data).ok => buf' = None
        /\ ~llc_link_configure(params, buf.data).ok => buf' = buf
    BY DEF Configure, Sweep, peer, IsList
  <1>2. buf.data \in Lists /\ KnownList(buf.data) /\ (Behind(0) \/ Latest(buf.data))
    <2>1. buf \in Frame \cup {None}
      BY DEF TypeInv
    <2>2. QED BY <1>1, <2>1, PaxCarriesList DEF LineInv, ListsInv, IsList
  <1>3. PICK list \in Lists : list = buf.data
    BY <1>2
  <1>4. CASE ~llc_link_configure(params, buf.data).ok
    <2>1. buf' = buf /\ fault'
      BY <1>1, <1>4
    <2>2. ListsInv'
      BY <1>1, <2>1 DEF LineInv, ListsInv, Behind, KnownList, Latest, Announcement, IsList
    <2>3. VersionInv'
      BY <2>1 DEF VersionInv
    <2>4. Underway("PAX")'
      BY <1>1, <2>1 DEF Underway, IsList
    <2>5. QED BY <2>2, <2>3, <2>4 DEF LineInv, AnnouncementTaken
  <1>5. CASE llc_link_configure(params, buf.data).ok
    <2>1. PICK p : p = llc_link_configure(params, list).params
      OBVIOUS
    <2>2. /\ list \notin Malformed /\ p.version.major >= 1
          /\ \A j \in 1 .. Len(pax) : Announcement(list, j) => Taken(p, pax[j])
      BY <1>2, <1>3, <1>5, <2>1, ListTaken DEF LineInv
    <2>3. params' = p /\ buf' = None /\ ~IsList(buf') /\ up' = up /\ pax' = pax
      BY <1>1, <1>3, <1>5, <2>1, FrameFacts DEF IsList
    <2>4. ListsInv'
      BY <2>3 DEF LineInv, ListsInv, Behind, KnownList, Latest, Announcement, IsList
    <2>5. VersionInv'
      <3>1. PICK j \in 1 .. Len(pax) : Announcement(list, j)
        BY <1>2, <1>3, <2>2 DEF KnownList
      <3>2. p.version = LowerVersion(pax[j].version, Defaults.version)
        BY <2>2, <3>1 DEF Taken
      <3>3. QED BY <2>2, <2>3, <3>2 DEF VersionInv
    <2>6. ASSUME pax # <<>>, ~Underway("PAX")' PROVE Taken(p, pax[Len(pax)])
      <3>1. ~Behind(0)
        BY <2>3, <2>6 DEF Underway, Behind, IsList
      <3>2. Announcement(list, Len(pax))
        BY <1>2, <1>3, <2>2, <3>1 DEF Latest
      <3>3. Len(pax) \in 1 .. Len(pax)
        BY <2>6 DEF BoundInv
      <3>4. QED BY <2>2, <3>2, <3>3
    <2>7. AnnouncementTaken'
      <3>1. (pax # <<>> /\ ~Underway("PAX") => Taken(params, pax[Len(pax)]))'
        BY <2>3, <2>6, Zenon DEF Taken
      <3>2. QED BY <3>1, TakenIsAnnounced, PTL
    <2>8. QED BY <2>4, <2>5, <2>7 DEF LineInv
  <1>6. QED BY <1>4, <1>5

LEMMA LineNext ==
    ASSUME OnlyMalformed, OneVersion, TypeInv, HandsInv, BoundInv, LineInv, [Next]_vars
    PROVE  LineInv'
  <1>1. CASE Mac
    BY <1>1, LineMac
  <1>2. CASE Receive
    BY <1>2, LineReceive
  <1>3. CASE ~fault /\ Configure
    BY <1>3, LineConfigure
  <1>4. CASE Symmetry \/ Ignore \/ Spawn \/ AllPutBack \/ Disaggregate
    <2>1. ~IsList(buf) /\ buf' = None
      BY <1>4, FrameFacts DEF Symmetry, Ignore, Spawn, AllPutBack, Disaggregate, Sweep, IsDatagram,
         IsList, HandsInv
    <2>2. ~IsList(buf') /\ UNCHANGED <<up, pax, params, fault>>
      BY <1>4, <2>1, FrameFacts DEF Symmetry, Ignore, Spawn, AllPutBack, Disaggregate, IsList, peer
    <2>3. QED BY <2>1, <2>2, LineKept
  <1>5. CASE PutBack \/ TakeAnswer \/ PassQuiet \/ EndOfTable \/ Send \/ PeerReceives
             \/ (\E i \in Slot : Server(i)) \/ UNCHANGED vars
    <2>1. UNCHANGED <<up, pax, params, fault, buf>>
      BY <1>5 DEF PutBack, TakeAnswer, PassQuiet, EndOfTable, Send, PeerReceives, Server,
         ServerReceives, SdpAnswers, EchoAnswers, vars, peer, engine
    <2>2. QED BY <2>1, LineKept
  <1>6. QED BY <1>1, <1>2, <1>3, <1>4, <1>5 DEF Next, Engine

\* A process that ends has read a list that is no announcement, or one of a version
\* before 1: any other announcement is read to its end.
LEMMA RefusalNext ==
    ASSUME TypeInv, BoundInv, LineInv, RefusalFounded, [Next]_vars
    PROVE  RefusalFounded'
  <1>1. CASE UNCHANGED vars
    BY <1>1 DEF RefusalFounded, vars, engine, peer
  <1>2. CASE ~fault /\ ~fault'
    BY <1>2 DEF RefusalFounded
  <1>3. CASE ~fault /\ Configure /\ fault'
    <2>1. /\ IsList(buf) /\ UNCHANGED pax /\ buf' = buf
          /\ ~llc_link_configure(params, buf.data).ok
      BY <1>3 DEF Configure, Sweep, peer, IsList
    <2>2. KnownList(buf.data)
      BY <2>1 DEF LineInv, ListsInv
    <2>3. PICK list : list = buf.data
      OBVIOUS
    <2>4. CASE list \in Malformed
      BY <2>1, <2>3, <2>4 DEF RefusalFounded
    <2>5. ASSUME NEW j \in 1 .. Len(pax), Announcement(list, j)
          PROVE  pax[j].version.major < 1
      <3>1. PICK q \in Announcers : q = pax[j]
        BY DEF BoundInv
      <3>2. params \in ParamType /\ params.version.major >= 1
        BY <1>3 DEF BoundInv, LineInv, VersionInv
      <3>3. ~llc_link_configure(params, llc_link_encode_parameters(q)).ok
        BY <2>1, <2>3, <2>5, <3>1 DEF Announcement
      <3>4. ~(q.version.major >= 1)
        BY <3>2, <3>3, AnnouncementRead
      <3>5. q.version.major \in 0 .. 15
        BY PeersAssumption
      <3>6. QED BY <3>1, <3>4, <3>5
    <2>6. CASE \E j \in 1 .. Len(pax) : Announcement(list, j)
      BY <2>1, <2>3, <2>5, <2>6 DEF RefusalFounded, Announcement
    <2>7. QED BY <2>2, <2>3, <2>4, <2>6 DEF KnownList
  <1>4. CASE Next /\ ~Configure
    <2>1. ~fault
      BY <1>4 DEF Next
    <2>2. fault' = fault
      BY <1>4, MacStep DEF Next, Engine, Receive, Symmetry, Disaggregate, PutBack, AllPutBack,
         Ignore, Spawn, TakeAnswer, PassQuiet, EndOfTable, Send, Server, ServerReceives,
         SdpAnswers, EchoAnswers, PeerReceives
    <2>3. QED BY <1>2, <2>1, <2>2
  <1>5. QED BY <1>1, <1>2, <1>3, <1>4 DEF Next

\* When the peer is one device, whose version stays what it is (or it announces itself
\* once), and its other lists are such as the reader refuses: once its last announcement
\* has been read, the link works with the lower of the two versions and knows
\* the peer's services, time-out and link service class as it announced them, through
\* the encoder and the reader and whatever else is in the queue; and no announcement
\* of version 1 or later ends the process.
THEOREM AnnouncedAreTaken ==
    ASSUME OnlyMalformed, OneVersion
    PROVE  Spec => []AnnouncedIsTaken
  <1>1. TypeInv /\ HandsInv /\ BoundInv /\ LineInv /\ [Next]_vars => LineInv'
    BY LineNext
  <1>2. TypeInv /\ BoundInv /\ LineInv /\ RefusalFounded /\ [Next]_vars => RefusalFounded'
    BY RefusalNext
  <1>3. Init => RefusalFounded
    BY DEF Init, RefusalFounded
  <1>4. LineInv /\ RefusalFounded => AnnouncedIsTaken
    BY DEF LineInv, AnnouncedIsTaken
  <1>5. QED BY <1>1, <1>2, <1>3, <1>4, LineInit, Invariance, BoundInvariance, PTL DEF Spec
=============================================================================
