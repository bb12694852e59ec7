------------------------- MODULE LlcDataLinkProofs -------------------------
(***************************************************************************)
(* What each step of LlcDataLink does to the types and to the two          *)
(* pipelines of an endpoint, the accepted and the outgoing I PDUs: the     *)
(* facts the proofs about LlcAnyPeer, at the end of this module, and about *)
(* LlcPair share.                                                          *)
(***************************************************************************)
EXTENDS LlcAnyPeer, SequenceTheorems, TLAPS

-----------------------------------------------------------------------------
(* Message queues as sequences.                                            *)

\* Taking the head of one queue and appending it to another, as a thread does
\* that reads from one end of a pipeline, leaves the concatenation as it was.
LEMMA MoveHead ==
    ASSUME NEW S, NEW s \in Seq(S), NEW t \in Seq(S), t # <<>>
    PROVE  Append(s, Head(t)) \o Tail(t) = s \o t
  <1>1. /\ Head(t) \in S /\ Tail(t) \in Seq(S) /\ Len(Tail(t)) = Len(t) - 1
        /\ Len(t) \in Nat /\ Len(t) >= 1 /\ Len(s) \in Nat
        /\ t[1] = Head(t)
        /\ \A i \in 1..Len(t) - 1 : Tail(t)[i] = t[i + 1]
    BY HeadTailProperties, LenProperties
  <1> DEFINE u == Append(s, Head(t))
  <1>2. /\ u \in Seq(S) /\ Len(u) = Len(s) + 1
        /\ \A i \in 1..Len(s) : u[i] = s[i]
        /\ u[Len(s) + 1] = Head(t)
    BY <1>1, AppendProperties
  <1> HIDE DEF u
  <1>3. /\ u \o Tail(t) \in Seq(S)
        /\ Len(u \o Tail(t)) = Len(u) + Len(Tail(t))
        /\ \A i \in 1..Len(u) + Len(Tail(t)) :
             (u \o Tail(t))[i] = IF i <= Len(u) THEN u[i] ELSE Tail(t)[i - Len(u)]
    BY <1>1, <1>2, ConcatProperties
  <1>4. /\ s \o t \in Seq(S)
        /\ Len(s \o t) = Len(s) + Len(t)
        /\ \A i \in 1..Len(s) + Len(t) :
             (s \o t)[i] = IF i <= Len(s) THEN s[i] ELSE t[i - Len(s)]
    BY ConcatProperties
  <1>5. \A i \in 1..Len(s) + Len(t) : (u \o Tail(t))[i] = (s \o t)[i]
    <2> TAKE i \in 1..Len(s) + Len(t)
    <2>1. CASE i <= Len(s)
      BY <2>1, <1>1, <1>2, <1>3, <1>4
    <2>2. CASE i = Len(s) + 1
      BY <2>2, <1>1, <1>2, <1>3, <1>4
    <2>3. CASE i > Len(s) + 1
      <3>1. Tail(t)[i - Len(u)] = t[i - Len(s)]
        BY <2>3, <1>1, <1>2, <1>4
      <3>2. (u \o Tail(t))[i] = Tail(t)[i - Len(u)]
        BY <2>3, <1>1, <1>2, <1>3
      <3>3. (s \o t)[i] = t[i - Len(s)]
        BY <2>3, <1>1, <1>4
      <3>4. QED BY <3>1, <3>2, <3>3
    <2>4. i <= Len(s) \/ i = Len(s) + 1 \/ i > Len(s) + 1
      BY <1>1
    <2>5. QED BY <2>1, <2>2, <2>3, <2>4
  <1>6. u \o Tail(t) = s \o t
    BY <1>1, <1>2, <1>3, <1>4, <1>5, SeqEqual
  <1>7. QED BY <1>6 DEF u

\* A queue is its head followed by its tail.
LEMMA HeadThenTail ==
    ASSUME NEW S, NEW t \in Seq(S), t # <<>>
    PROVE  <<Head(t)>> \o Tail(t) = t
  <1>1. <<>> \in Seq(S) /\ Append(<<>>, Head(t)) = <<Head(t)>>
    BY EmptySeq
  <1>2. Append(<<>>, Head(t)) \o Tail(t) = <<>> \o t
    BY <1>1, MoveHead
  <1>3. QED BY <1>1, <1>2, ConcatEmptySeq

\* Appending to the last queue of a pipeline appends to the pipeline.
LEMMA AppendToLast ==
    \A S : \A s, t \in Seq(S) : \A x \in S : s \o Append(t, x) = Append(s \o t, x)
  <1> SUFFICES ASSUME NEW S, NEW s \in Seq(S), NEW t \in Seq(S), NEW x \in S
               PROVE  s \o Append(t, x) = Append(s \o t, x)
    OBVIOUS
  <1>1. /\ Append(t, x) = t \o <<x>>
        /\ <<x>> \in Seq(S)
        /\ s \o t \in Seq(S)
        /\ Append(s \o t, x) = (s \o t) \o <<x>>
    BY AppendIsConcat, ConcatProperties
  <1>2. (s \o t) \o <<x>> = s \o (t \o <<x>>)
    BY <1>1, ConcatAssociative
  <1>3. QED BY <1>1, <1>2

\* An element put in front of the last queue of a pipeline stands between the two.
LEMMA BetweenQueues ==
    \A S : \A s, t \in Seq(S) : \A x \in S :
        <<x>> \in Seq(S) /\ s \o (<<x>> \o t) = s \o <<x>> \o t
  <1> SUFFICES ASSUME NEW S, NEW s \in Seq(S), NEW t \in Seq(S), NEW x \in S
               PROVE  <<x>> \in Seq(S) /\ s \o (<<x>> \o t) = s \o <<x>> \o t
    OBVIOUS
  <1>1. <<x>> \in Seq(S)
    OBVIOUS
  <1>2. QED BY <1>1, ConcatAssociative

\* The head of the last queue of a pipeline, taken in hand.
LEMMA HeadInHand ==
    \A S : \A s, t \in Seq(S) :
        t # <<>> => s \o <<Head(t)>> \o Tail(t) = s \o t
  <1> SUFFICES ASSUME NEW S, NEW s \in Seq(S), NEW t \in Seq(S), t # <<>>
               PROVE  s \o <<Head(t)>> \o Tail(t) = s \o t
    OBVIOUS
  <1>1. Head(t) \in S /\ Tail(t) \in Seq(S)
    BY HeadTailProperties
  <1>2. s \o (<<Head(t)>> \o Tail(t)) = s \o <<Head(t)>> \o Tail(t)
    BY <1>1, BetweenQueues
  <1>3. QED BY <1>2, HeadThenTail

-----------------------------------------------------------------------------
(***************************************************************************)
(* The elements of a queue are pairwise in the relation R, the earlier one *)
(* first; and those of one queue precede those of the next one.            *)
(***************************************************************************)
Chained(R, s) == \A i, j \in 1..Len(s) : i < j => <<s[i], s[j]>> \in R
Linked(R, s, t) == \A i \in 1..Len(s) : \A j \in 1..Len(t) : <<s[i], t[j]>> \in R

\* A pipeline is a chain when its parts are and the first precedes the second.
LEMMA ChainedConcat ==
    ASSUME NEW R, NEW S, NEW s \in Seq(S), NEW t \in Seq(S)
    PROVE  Chained(R, s \o t) <=> Chained(R, s) /\ Chained(R, t) /\ Linked(R, s, t)
  <1> DEFINE u == s \o t
  <1>1. /\ Len(u) = Len(s) + Len(t) /\ Len(s) \in Nat /\ Len(t) \in Nat
        /\ \A i \in 1..Len(s) + Len(t) :
             u[i] = IF i <= Len(s) THEN s[i] ELSE t[i - Len(s)]
    BY ConcatProperties, LenProperties
  <1> HIDE DEF u
  <1>2. /\ \A i \in 1..Len(s) : i \in 1..Len(u) /\ u[i] = s[i]
        /\ \A i \in 1..Len(t) : Len(s) + i \in 1..Len(u) /\ u[Len(s) + i] = t[i]
    BY <1>1
  <1>3. ASSUME Chained(R, u) PROVE Chained(R, s) /\ Chained(R, t) /\ Linked(R, s, t)
    <2>1. Chained(R, s)
      BY <1>1, <1>2, <1>3 DEF Chained
    <2>2. ASSUME NEW i \in 1..Len(t), NEW j \in 1..Len(t), i < j
          PROVE  <<t[i], t[j]>> \in R
      <3>1. Len(s) + i < Len(s) + j
        BY <1>1, <2>2
      <3>2. QED BY <3>1, <1>2, <1>3 DEF Chained
    <2>3. ASSUME NEW i \in 1..Len(s), NEW j \in 1..Len(t)
          PROVE  <<s[i], t[j]>> \in R
      <3>1. i < Len(s) + j
        BY <1>1
      <3>2. QED BY <3>1, <1>2, <1>3 DEF Chained
    <2>4. QED BY <2>1, <2>2, <2>3 DEF Chained, Linked
  <1>4. ASSUME Chained(R, s), Chained(R, t), Linked(R, s, t) PROVE Chained(R, u)
    <2>1. SUFFICES ASSUME NEW i \in 1..Len(u), NEW j \in 1..Len(u), i < j
                   PROVE  <<u[i], u[j]>> \in R
      BY DEF Chained
    <2>2. CASE j <= Len(s)
      BY <1>1, <1>4, <2>1, <2>2 DEF Chained
    <2>3. CASE i <= Len(s) /\ j > Len(s)
      <3>1. u[i] = s[i] /\ u[j] = t[j - Len(s)] /\ i \in 1..Len(s) /\ j - Len(s) \in 1..Len(t)
        BY <1>1, <2>3
      <3>2. QED BY <3>1, <1>4 DEF Linked
    <2>4. CASE i > Len(s)
      <3>1. /\ u[i] = t[i - Len(s)] /\ u[j] = t[j - Len(s)]
            /\ i - Len(s) \in 1..Len(t) /\ j - Len(s) \in 1..Len(t)
            /\ i - Len(s) < j - Len(s)
        BY <1>1, <2>1, <2>4
      <3>2. QED BY <3>1, <1>4 DEF Chained
    <2>5. QED BY <1>1, <2>2, <2>3, <2>4
  <1>5. QED BY <1>3, <1>4 DEF u

\* What precedes or follows a pipeline precedes or follows each of its parts.
LEMMA LinkedConcat ==
    ASSUME NEW R, NEW S, NEW s \in Seq(S), NEW t \in Seq(S), NEW v
    PROVE  /\ Linked(R, s \o t, v) <=> Linked(R, s, v) /\ Linked(R, t, v)
           /\ Linked(R, v, s \o t) <=> Linked(R, v, s) /\ Linked(R, v, t)
  <1> DEFINE u == s \o t
  <1>1. /\ Len(u) = Len(s) + Len(t) /\ Len(s) \in Nat /\ Len(t) \in Nat
        /\ \A i \in 1..Len(s) + Len(t) :
             u[i] = IF i <= Len(s) THEN s[i] ELSE t[i - Len(s)]
    BY ConcatProperties, LenProperties
  <1> HIDE DEF u
  <1>2. /\ \A i \in 1..Len(s) : i \in 1..Len(u) /\ u[i] = s[i]
        /\ \A i \in 1..Len(t) : Len(s) + i \in 1..Len(u) /\ u[Len(s) + i] = t[i]
    BY <1>1
  <1>3. \A i \in 1..Len(u) : \/ i \in 1..Len(s) /\ u[i] = s[i]
                             \/ i - Len(s) \in 1..Len(t) /\ u[i] = t[i - Len(s)]
    BY <1>1
  <1>4. Linked(R, u, v) <=> Linked(R, s, v) /\ Linked(R, t, v)
    BY <1>2, <1>3 DEF Linked
  <1>5. Linked(R, v, u) <=> Linked(R, v, s) /\ Linked(R, v, t)
    BY <1>2, <1>3 DEF Linked
  <1>6. QED BY <1>4, <1>5 DEF u

\* A queue of at most one element is a chain; the empty one precedes anything.
LEMMA ShortChains ==
    ASSUME NEW R, NEW s
    PROVE  /\ Chained(R, <<>>) /\ Linked(R, <<>>, s) /\ Linked(R, s, <<>>)
           /\ \A x : Chained(R, <<x>>)
  BY DEF Chained, Linked

\* Taking an element out of a chain leaves a chain.
LEMMA ChainedDrop ==
    ASSUME NEW R, NEW S, NEW s \in Seq(S), NEW t \in Seq(S), NEW x \in S,
           Chained(R, s \o <<x>> \o t)
    PROVE  Chained(R, s \o t)
  <1>1. <<x>> \in Seq(S) /\ s \o <<x>> \in Seq(S)
    BY ConcatProperties
  <1>2. Chained(R, s \o <<x>>) /\ Chained(R, t) /\ Linked(R, s \o <<x>>, t)
    BY <1>1, ChainedConcat
  <1>3. Chained(R, s) /\ Linked(R, s, t)
    BY <1>1, <1>2, ChainedConcat, LinkedConcat
  <1>4. QED BY <1>2, <1>3, ChainedConcat

\* Putting an element into a chain, after what precedes it and before what it precedes.
LEMMA ChainedInsert ==
    ASSUME NEW R, NEW S, NEW s \in Seq(S), NEW t \in Seq(S), NEW x \in S,
           Chained(R, s \o t), \A y \in S : <<y, x>> \in R /\ <<x, y>> \in R
    PROVE  Chained(R, s \o <<x>> \o t)
  <1>1. <<x>> \in Seq(S) /\ s \o <<x>> \in Seq(S)
    BY ConcatProperties
  <1>2. Linked(R, s, <<x>>) /\ Linked(R, <<x>>, t)
    <2>1. \A i \in 1..Len(s) : s[i] \in S
      BY ElementOfSeq
    <2>2. \A i \in 1..Len(t) : t[i] \in S
      BY ElementOfSeq
    <2> DEFINE w == <<x>>
    <2>3. \A i \in 1..Len(w) : w[i] = x
      OBVIOUS
    <2> HIDE DEF w
    <2>4. Linked(R, s, w) /\ Linked(R, w, t)
      BY <2>1, <2>2, <2>3 DEF Linked
    <2>5. QED BY <2>4 DEF w
  <1>3. Chained(R, s \o <<x>>)
    BY <1>1, <1>2, ChainedConcat, ShortChains
  <1>4. Linked(R, s \o <<x>>, t)
    BY <1>1, <1>2, ChainedConcat, LinkedConcat
  <1>5. QED BY <1>1, <1>3, <1>4, ChainedConcat

\* Appending to a chain an element that everything in it precedes.
LEMMA ChainedAppend ==
    ASSUME NEW R, NEW S, NEW s \in Seq(S), NEW x,
           Chained(R, s), \A y \in S : <<y, x>> \in R
    PROVE  Chained(R, Append(s, x))
  <1>1. /\ Append(s, x) \in Seq(S \cup {x}) /\ Len(s) \in Nat
        /\ Len(Append(s, x)) = Len(s) + 1
        /\ \A i \in 1..Len(s) : Append(s, x)[i] = s[i] /\ s[i] \in S
        /\ Append(s, x)[Len(s) + 1] = x
    <2>1. s \in Seq(S \cup {x})
      BY SeqDef
    <2>2. QED BY <2>1, AppendProperties, LenProperties, ElementOfSeq
  <1>2. QED BY <1>1 DEF Chained

-----------------------------------------------------------------------------
\* The pipeline w starts with the queue s and goes on with the queue t.
Leads(s, t, w) ==
    /\ Len(s) + Len(t) <= Len(w)
    /\ \A k \in 1..Len(s) : w[k] = s[k]
    /\ t # <<>> => Len(t) >= 1 /\ w[Len(s) + 1] = Head(t)

LEMMA PipelineParts ==
    ASSUME NEW S, NEW s \in Seq(S), NEW t \in Seq(S), NEW u \in Seq(S)
    PROVE  Leads(s, t, s \o t \o u)
  <1>1. Len(s) \in Nat /\ Len(t) \in Nat /\ Len(u) \in Nat /\ s \o t \in Seq(S)
    BY LenProperties, ConcatProperties
  <1>2. /\ Len(s \o t) = Len(s) + Len(t)
        /\ \A k \in 1..Len(s) + Len(t) :
             (s \o t)[k] = IF k <= Len(s) THEN s[k] ELSE t[k - Len(s)]
    BY ConcatProperties
  <1>3. /\ Len(s \o t \o u) = Len(s \o t) + Len(u)
        /\ \A k \in 1..Len(s \o t) + Len(u) :
             (s \o t \o u)[k] = IF k <= Len(s \o t) THEN (s \o t)[k] ELSE u[k - Len(s \o t)]
    BY <1>1, ConcatProperties
  <1>4. ASSUME t # <<>>
        PROVE  Len(t) >= 1 /\ (s \o t \o u)[Len(s) + 1] = Head(t)
    <2>1. Len(t) >= 1 /\ t[1] = Head(t)
      BY <1>1, <1>4, EmptySeq, HeadTailProperties
    <2>2. (s \o t)[Len(s) + 1] = t[1]
      BY <1>1, <1>2, <2>1
    <2>3. QED BY <1>1, <1>2, <1>3, <2>1, <2>2
  <1>5. QED BY <1>1, <1>2, <1>3, <1>4 DEF Leads

\* Every element of the parts of a pipeline has what every element of it has.
LEMMA PartsOfSeq ==
    ASSUME NEW S, NEW T, NEW s \in Seq(S), NEW t \in Seq(S)
    PROVE  s \o t \in Seq(T) <=> s \in Seq(T) /\ t \in Seq(T)
  <1> DEFINE u == s \o t
  <1>1. /\ Len(u) = Len(s) + Len(t) /\ Len(s) \in Nat /\ Len(t) \in Nat
        /\ \A i \in 1..Len(s) + Len(t) :
             u[i] = IF i <= Len(s) THEN s[i] ELSE t[i - Len(s)]
    BY ConcatProperties, LenProperties
  <1>2. s \in Seq(T) /\ t \in Seq(T) => u \in Seq(T)
    BY ConcatProperties
  <1> HIDE DEF u
  <1>3. /\ \A i \in 1..Len(s) : i \in 1..Len(u) /\ u[i] = s[i]
        /\ \A i \in 1..Len(t) : Len(s) + i \in 1..Len(u) /\ u[Len(s) + i] = t[i]
    BY <1>1
  <1>4. ASSUME u \in Seq(T) PROVE s \in Seq(T) /\ t \in Seq(T)
    <2>1. \A i \in 1..Len(u) : u[i] \in T
      BY <1>4, ElementOfSeq
    <2>2. (\A i \in 1..Len(s) : s[i] \in T) /\ (\A i \in 1..Len(t) : t[i] \in T)
      BY <2>1, <1>3
    <2>3. s \in [1..Len(s) -> S] /\ t \in [1..Len(t) -> S]
      BY LenProperties
    <2>4. s \in [1..Len(s) -> T] /\ t \in [1..Len(t) -> T]
      BY <2>2, <2>3
    <2>5. /\ s \in UNION {[1..n -> T] : n \in Nat}
          /\ t \in UNION {[1..n -> T] : n \in Nat}
      BY <1>1, <2>4
    <2>6. QED BY <2>5, SeqDef, Zenon
  <1>5. QED BY <1>2, <1>4 DEF u

-----------------------------------------------------------------------------
(***************************************************************************)
(* What a step of an unreliable pipeline may do to its content s: leave it *)
(* as it is, lose one element, or put in one of the elements of X.         *)
(***************************************************************************)
Edited(S, X, s, t) ==
    \/ t = s
    \/ \E a, b \in Seq(S) : \E x \in S : s = a \o <<x>> \o b /\ t = a \o b
    \/ \E a, b \in Seq(S) : \E x \in X : s = a \o b /\ t = a \o <<x>> \o b

\* An edited pipeline holds what it held before and elements of X.
LEMMA EditedSeq ==
    ASSUME NEW S, NEW X \in SUBSET S, NEW T, X \subseteq T,
           NEW s \in Seq(S), NEW t, Edited(S, X, s, t)
    PROVE  t \in Seq(S) /\ (s \in Seq(T) => t \in Seq(T))
  <1>1. ASSUME NEW a \in Seq(S), NEW b \in Seq(S), NEW x \in S,
               s = a \o <<x>> \o b, t = a \o b
        PROVE  t \in Seq(S) /\ (s \in Seq(T) => t \in Seq(T))
    <2>1. <<x>> \in Seq(S) /\ a \o <<x>> \in Seq(S) /\ t \in Seq(S)
      BY <1>1, ConcatProperties
    <2>2. ASSUME s \in Seq(T) PROVE t \in Seq(T)
      <3>1. a \o <<x>> \in Seq(T) /\ b \in Seq(T)
        BY <1>1, <2>1, <2>2, PartsOfSeq
      <3>2. a \in Seq(T)
        BY <2>1, <3>1, PartsOfSeq
      <3>3. QED BY <1>1, <3>1, <3>2, ConcatProperties
    <2>3. QED BY <2>1, <2>2
  <1>2. ASSUME NEW a \in Seq(S), NEW b \in Seq(S), NEW x \in X,
               s = a \o b, t = a \o <<x>> \o b
        PROVE  t \in Seq(S) /\ (s \in Seq(T) => t \in Seq(T))
    <2>1. x \in S /\ x \in T
      OBVIOUS
    <2>2. <<x>> \in Seq(S) /\ <<x>> \in Seq(T)
      BY <2>1
    <2>3. a \o <<x>> \in Seq(S)
      BY <2>2, ConcatProperties
    <2>4. t \in Seq(S)
      BY <1>2, <2>3, ConcatProperties
    <2>5. ASSUME s \in Seq(T) PROVE t \in Seq(T)
      <3>1. a \in Seq(T) /\ b \in Seq(T)
        BY <1>2, <2>5, PartsOfSeq
      <3>2. a \o <<x>> \in Seq(T)
        BY <2>2, <3>1, ConcatProperties
      <3>3. QED BY <1>2, <3>1, <3>2, ConcatProperties
    <2>6. QED BY <2>4, <2>5
  <1>3. QED BY <1>1, <1>2 DEF Edited

\* It stays a chain if the elements of X may stand anywhere in one.
LEMMA EditedChained ==
    ASSUME NEW R, NEW S, NEW X \in SUBSET S, NEW s, NEW t, Edited(S, X, s, t),
           \A x \in X : \A y \in S : <<y, x>> \in R /\ <<x, y>> \in R,
           Chained(R, s)
    PROVE  Chained(R, t)
  <1>1. ASSUME NEW a \in Seq(S), NEW b \in Seq(S), NEW x \in S,
               s = a \o <<x>> \o b, t = a \o b
        PROVE  Chained(R, t)
    BY <1>1, ChainedDrop
  <1>2. ASSUME NEW a \in Seq(S), NEW b \in Seq(S), NEW x \in X,
               s = a \o b, t = a \o <<x>> \o b
        PROVE  Chained(R, t)
    BY <1>2, ChainedInsert
  <1>3. QED BY <1>1, <1>2 DEF Edited

\* A step on one part of a pipeline is a step on the whole.
LEMMA EditedPart ==
    ASSUME NEW S, NEW X \in SUBSET S, NEW s, NEW t, Edited(S, X, s, t),
           NEW u \in Seq(S)
    PROVE  Edited(S, X, u \o s, u \o t) /\ Edited(S, X, s \o u, t \o u)
  <1>1. \A a, b, c \in Seq(S) : (a \o b) \o c = a \o (b \o c) /\ a \o b \in Seq(S)
    BY ConcatAssociative, ConcatProperties
  <1>2. \A x \in S : <<x>> \in Seq(S)
    OBVIOUS
  <1>3. ASSUME NEW a \in Seq(S), NEW b \in Seq(S), NEW x \in S
        PROVE  /\ u \o (a \o <<x>> \o b) = (u \o a) \o <<x>> \o b
               /\ u \o (a \o b) = (u \o a) \o b
               /\ (a \o <<x>> \o b) \o u = a \o <<x>> \o (b \o u)
               /\ (a \o b) \o u = a \o (b \o u)
    <2>1. <<x>> \in Seq(S)
      BY <1>2
    <2>2. a \o <<x>> \in Seq(S)
      BY <1>1, <2>1
    <2>3. u \o (a \o <<x>> \o b) = (u \o (a \o <<x>>)) \o b
      BY <1>1, <2>2
    <2>4. u \o (a \o <<x>>) = (u \o a) \o <<x>>
      BY <1>1, <2>1
    <2>5. (a \o <<x>> \o b) \o u = a \o <<x>> \o (b \o u)
      BY <1>1, <2>2, Zenon
    <2>6. u \o (a \o b) = (u \o a) \o b /\ (a \o b) \o u = a \o (b \o u)
      BY <1>1, Zenon
    <2>7. QED BY <2>3, <2>4, <2>5, <2>6
  <1>4. ASSUME NEW a \in Seq(S), NEW b \in Seq(S), NEW x \in S,
               s = a \o <<x>> \o b, t = a \o b
        PROVE  Edited(S, X, u \o s, u \o t) /\ Edited(S, X, s \o u, t \o u)
    <2>1. u \o a \in Seq(S) /\ b \o u \in Seq(S)
      BY <1>1
    <2>2. u \o s = (u \o a) \o <<x>> \o b /\ u \o t = (u \o a) \o b
      BY <1>3, <1>4
    <2>3. s \o u = a \o <<x>> \o (b \o u) /\ t \o u = a \o (b \o u)
      BY <1>3, <1>4
    <2>4. QED BY <2>1, <2>2, <2>3, Zenon DEF Edited
  <1>5. ASSUME NEW a \in Seq(S), NEW b \in Seq(S), NEW x \in X,
               s = a \o b, t = a \o <<x>> \o b
        PROVE  Edited(S, X, u \o s, u \o t) /\ Edited(S, X, s \o u, t \o u)
    <2>1. u \o a \in Seq(S) /\ b \o u \in Seq(S)
      BY <1>1
    <2>2. u \o t = (u \o a) \o <<x>> \o b /\ u \o s = (u \o a) \o b
      BY <1>3, <1>5
    <2>3. t \o u = a \o <<x>> \o (b \o u) /\ s \o u = a \o (b \o u)
      BY <1>3, <1>5
    <2>4. QED BY <2>1, <2>2, <2>3, Zenon DEF Edited
  <1>6. CASE t = s
    BY <1>6 DEF Edited
  <1>7. QED BY <1>4, <1>5, <1>6 DEF Edited

-----------------------------------------------------------------------------
(* The steps of LlcDataLink.                                               *)

\* The PDUs the engine makes itself are PDUs.
LEMMA OwnPdus ==
    /\ Symm \in Pdu /\ Frmr \in Pdu
    /\ \A state \in State :
         \A type \in PduType : Ack(type, state) \in Pdu
  BY DEF Symm, Frmr, Ack, Pdu, PduType, State, Seq16

\* INC_MOD_16 stays within four bits.
LEMMA IncInRange == \A n \in Seq16 : Inc16(n) \in Seq16
  BY DEF Inc16, Seq16

\* The updates the steps make of a state and of a call keep their types.
LEMMA StateUpdates ==
    ASSUME NEW state \in State
    PROVE  /\ state.s \in Seq16 /\ state.r \in Seq16
           /\ [state EXCEPT !.ra = state.r] \in State
           /\ [state EXCEPT !.s = Inc16(state.s)] \in State
           /\ \A n \in Seq16 :
                /\ [state EXCEPT !.sa = n] \in State
                /\ [state EXCEPT !.r = Inc16(state.r), !.sa = n] \in State
  <1>1. state.s \in Seq16 /\ state.r \in Seq16
    BY DEF State
  <1>2. Inc16(state.s) \in Seq16 /\ Inc16(state.r) \in Seq16
    BY <1>1, IncInRange
  <1>3. \A n \in Seq16 : [state EXCEPT !.sa = n] \in State
    BY DEF State
  <1>4. [state EXCEPT !.ra = state.r] \in State
    BY <1>1 DEF State
  <1>5. [state EXCEPT !.s = Inc16(state.s)] \in State
    BY <1>2 DEF State
  <1>6. \A n \in Seq16 : [state EXCEPT !.r = Inc16(state.r), !.sa = n] \in State
    BY <1>2 DEF State
  <1>7. QED BY <1>1, <1>3, <1>4, <1>5, <1>6

LEMMA CallUpdates ==
    ASSUME NEW call \in Call, NEW n \in Seq16
    PROVE  /\ [call EXCEPT !.pc = "enqueue", !.ns = n] \in Call
           /\ [call EXCEPT !.pc = "enqueue", !.nr = n] \in Call
  <1>1. [call EXCEPT !.pc = "enqueue", !.ns = n] \in Call
    BY DEF Call
  <1>2. [call EXCEPT !.pc = "enqueue", !.nr = n] \in Call
    BY DEF Call
  <1>3. QED BY <1>1, <1>2

-----------------------------------------------------------------------------
(***************************************************************************)
(* Every step keeps the variables in their types and the queues within     *)
(* mq_maxmsg.                                                              *)
(***************************************************************************)
LEMMA LinkTypeInit == LinkInit => LinkTypeOK
  <1> SUFFICES ASSUME LinkInit PROVE LinkTypeOK
    OBVIOUS
  <1>1. Start \in Seq16
    BY StartAssumption DEF Seq16
  <1>2. <<>> \in Seq(Pdu) /\ <<>> \in Seq(Payload) /\ Len(<<>>) = 0
    BY EmptySeq
  <1>3. QED
    BY <1>1, <1>2, OwnPdus DEF LinkInit, LinkTypeOK, EnginePc, MaxMsg, State

LEMMA LinkTypeHandle ==
    ASSUME LinkTypeOK, NEW e \in End, NEW p \in Pdu, HandlePdu(e, p)
    PROVE  LinkTypeOK'
  <1> USE DEF LinkTypeOK, EnginePc, MaxMsg
  <1>1. ASSUME HandleInert(e, p) PROVE LinkTypeOK'
    BY <1>1 DEF HandleInert
  <1>2. ASSUME HandleRR(e, p) PROVE LinkTypeOK'
    <2>1. p.nr \in Seq16
      BY DEF Pdu
    <2>2. [dlc[e] EXCEPT !.sa = p.nr] \in State
      BY <2>1, StateUpdates
    <2>3. dlc' = [dlc EXCEPT ![e] = [dlc[e] EXCEPT !.sa = p.nr]]
      BY <1>2 DEF HandleRR
    <2>4. dlc' \in [End -> State]
      BY <2>2, <2>3
    <2>5. QED BY <1>2, <2>4 DEF HandleRR
  <1>3. ASSUME RefuseI(e, p) PROVE LinkTypeOK'
    BY <1>3, OwnPdus DEF RefuseI
  <1>4. ASSUME AcceptI(e, p) PROVE LinkTypeOK'
    <2>1. p \in Pdu /\ p.nr \in Seq16
      BY DEF Pdu
    <2>3. [dlc[e] EXCEPT !.r = Inc16(dlc[e].r), !.sa = p.nr] \in State
      BY <2>1, StateUpdates
    <2>4. dlc' = [dlc EXCEPT ![e] = [dlc[e] EXCEPT !.r = Inc16(dlc[e].r), !.sa = p.nr]]
      BY <1>4 DEF AcceptI
    <2>5. dlc' \in [End -> State]
      BY <2>3, <2>4
    <2>6. buf' \in [End -> Pdu] /\ pc' \in [End -> EnginePc]
      BY <1>4, <2>1 DEF AcceptI
    <2>7. QED BY <1>4, <2>5, <2>6 DEF AcceptI
  <1>5. ASSUME HandleUnsupported(e, p) PROVE LinkTypeOK'
    BY <1>5 DEF HandleUnsupported
  <1>6. QED BY <1>1, <1>2, <1>3, <1>4, <1>5 DEF HandlePdu

LEMMA LinkTypeEngine ==
    ASSUME LinkTypeOK, NEW e \in End, Deliver(e) \/ Sweep(e) \/ HandOver(e)
    PROVE  LinkTypeOK'
  <1> USE DEF LinkTypeOK, EnginePc, MaxMsg
  <1>1. ASSUME Deliver(e) PROVE LinkTypeOK'
    <2>1. /\ Append(up[e], buf[e]) \in Seq(Pdu)
          /\ Len(Append(up[e], buf[e])) = Len(up[e]) + 1 /\ Len(up[e]) \in Nat
      BY AppendProperties, LenProperties
    <2>2. QED BY <1>1, <2>1, OwnPdus DEF Deliver
  <1>2. ASSUME SweepTransmit(e) PROVE LinkTypeOK'
    <2>1. /\ Head(down[e]) \in Pdu /\ Tail(down[e]) \in Seq(Pdu)
          /\ Len(Tail(down[e])) = Len(down[e]) - 1 /\ Len(down[e]) \in Nat
      BY <1>2, HeadTailProperties, LenProperties DEF SweepTransmit
    <2>2. Append(wire[e], Head(down[e])) \in Seq(Pdu)
      BY <2>1, AppendProperties
    <2>4. dlc' \in [End -> State]
      <3>1. [dlc[e] EXCEPT !.s = Inc16(dlc[e].s)] \in State
        BY StateUpdates
      <3>2. dlc' = [dlc EXCEPT ![e] = [dlc[e] EXCEPT !.s = Inc16(dlc[e].s)]]
        BY <1>2 DEF SweepTransmit
      <3>3. QED BY <3>1, <3>2
    <2>5. /\ down' \in [End -> Seq(Pdu)]
          /\ \A f \in End : Len(up'[f]) <= MaxMsg /\ Len(down'[f]) <= MaxMsg
      BY <1>2, <2>1 DEF SweepTransmit
    <2>6. wire' \in [End -> Seq(Pdu)] /\ buf' \in [End -> Pdu] /\ pc' \in [End -> EnginePc]
      BY <1>2, <2>1, <2>2 DEF SweepTransmit
    <2>7. QED BY <1>2, <2>4, <2>5, <2>6 DEF SweepTransmit
  <1>3. ASSUME SweepPostpone(e) PROVE LinkTypeOK'
    <2>1. /\ Head(down[e]) \in Pdu /\ Tail(down[e]) \in Seq(Pdu)
          /\ Len(Tail(down[e])) = Len(down[e]) - 1 /\ Len(down[e]) \in Nat
      BY <1>3, HeadTailProperties, LenProperties DEF SweepPostpone
    <2>2. QED BY <1>3, <2>1 DEF SweepPostpone
  <1>4. ASSUME Requeue(e) PROVE LinkTypeOK'
    <2>1. /\ <<buf[e]>> \in Seq(Pdu) /\ Len(<<buf[e]>>) = 1
          /\ Len(down[e]) \in Nat
          /\ <<buf[e]>> \o down[e] \in Seq(Pdu)
          /\ Len(<<buf[e]>> \o down[e]) = Len(<<buf[e]>>) + Len(down[e])
      BY ConcatProperties, LenProperties
    <2>2. /\ down' \in [End -> Seq(Pdu)]
          /\ \A f \in End : Len(up'[f]) <= MaxMsg /\ Len(down'[f]) <= MaxMsg
      BY <1>4, <2>1 DEF Requeue
    <2>3. buf' \in [End -> Pdu] /\ pc' \in [End -> EnginePc]
      BY <1>4, OwnPdus DEF Requeue
    <2>4. QED BY <1>4, <2>2, <2>3 DEF Requeue
  <1>5. ASSUME SweepUnacknowledged(e) PROVE LinkTypeOK'
    BY <1>5 DEF SweepUnacknowledged
  <1>6. ASSUME Acknowledge(e) PROVE LinkTypeOK'
    <2>1. Ack(IF Len(up[e]) = MaxMsg THEN "RNR" ELSE "RR", dlc[e]) \in Pdu
      BY OwnPdus DEF PduType
    <2>2. [dlc[e] EXCEPT !.ra = dlc[e].r] \in State
      BY StateUpdates
    <2>3. dlc' = [dlc EXCEPT ![e] = [dlc[e] EXCEPT !.ra = dlc[e].r]]
      BY <1>6 DEF Acknowledge
    <2>4. dlc' \in [End -> State]
      BY <2>2, <2>3
    <2>5. QED BY <1>6, <2>1, <2>4 DEF Acknowledge
  <1>7. ASSUME SweepNothing(e) PROVE LinkTypeOK'
    BY <1>7 DEF SweepNothing
  <1>8. ASSUME HandOver(e) PROVE LinkTypeOK'
    BY <1>8, OwnPdus DEF HandOver
  <1>9. QED
    BY <1>1, <1>2, <1>3, <1>4, <1>5, <1>6, <1>7, <1>8 DEF Sweep

LEMMA LinkTypeService ==
    ASSUME LinkTypeOK, NEW e \in End,
           \/ \E m \in Payload : SendCall(e, m)
           \/ SendStamp(e) \/ SendEnqueue(e) \/ SendFails(e) \/ Recv(e)
    PROVE  LinkTypeOK'
  <1> USE DEF LinkTypeOK, EnginePc, MaxMsg
  <1>1. ASSUME NEW m \in Payload, SendCall(e, m) PROVE LinkTypeOK'
    <2>1. dlc[e].s \in Seq16 /\ dlc[e].r \in Seq16
      BY DEF State
    <2>2. [pc |-> "stamp", ns |-> dlc[e].s, nr |-> dlc[e].r, info |-> m] \in Call
      BY <2>1 DEF Call
    <2>3. QED BY <1>1, <2>2 DEF SendCall
  <1>2. ASSUME SendStamp(e) PROVE LinkTypeOK'
    <2>1. app[e] \in Call
      BY <1>2 DEF SendStamp, Idle
    <2>2. dlc[e].s \in Seq16 /\ dlc[e].r \in Seq16
      BY DEF State
    <2>3. /\ [app[e] EXCEPT !.pc = "enqueue", !.ns = dlc[e].s] \in Call
          /\ [app[e] EXCEPT !.pc = "enqueue", !.nr = dlc[e].r] \in Call
      BY <2>1, <2>2, CallUpdates
    <2>4. app' \in [End -> {Idle} \cup Call]
      BY <1>2, <2>3 DEF SendStamp
    <2>5. QED BY <1>2, <2>4 DEF SendStamp
  <1>3. ASSUME SendEnqueue(e) PROVE LinkTypeOK'
    <2>1. app[e] \in Call
      BY <1>3 DEF SendEnqueue, Idle
    <2>2. Stamped(e) \in Pdu /\ app[e].info \in Payload
      BY <2>1 DEF Stamped, Pdu, PduType, Call
    <2>3. /\ Append(down[e], Stamped(e)) \in Seq(Pdu)
          /\ Len(Append(down[e], Stamped(e))) = Len(down[e]) + 1 /\ Len(down[e]) \in Nat
          /\ Append(sent[e], app[e].info) \in Seq(Payload)
      BY <2>2, AppendProperties, LenProperties
    <2>4. QED BY <1>3, <2>3 DEF SendEnqueue
  <1>4. ASSUME SendFails(e) PROVE LinkTypeOK'
    BY <1>4 DEF SendFails
  <1>5. ASSUME Recv(e) PROVE LinkTypeOK'
    <2>1. /\ Head(up[e]) \in Pdu /\ Tail(up[e]) \in Seq(Pdu)
          /\ Len(Tail(up[e])) = Len(up[e]) - 1 /\ Len(up[e]) \in Nat
          /\ Append(got[e], Head(up[e])) \in Seq(Pdu)
      BY <1>5, HeadTailProperties, LenProperties, AppendProperties DEF Recv
    <2>2. QED BY <1>5, <2>1 DEF Recv
  <1>6. QED BY <1>1, <1>2, <1>3, <1>4, <1>5

LEMMA LinkTypeStutter == LinkTypeOK /\ UNCHANGED linkVars => LinkTypeOK'
  BY DEF LinkTypeOK, linkVars

-----------------------------------------------------------------------------
(***************************************************************************)
(* The accepted PDUs of an endpoint.  An engine that blocks in Deliver has *)
(* already advanced V(R), which is why the PDU in its hand is one of them. *)
(* Only AcceptI lengthens Accepted; Deliver and Recv move a PDU along it,  *)
(* and every other step leaves it and V(R) alone.                          *)
(***************************************************************************)
LEMMA AcceptedType ==
    ASSUME LinkTypeOK, NEW e \in End
    PROVE  /\ got[e] \in Seq(Pdu) /\ up[e] \in Seq(Pdu) /\ InHand(e) \in Seq(Pdu)
           /\ got[e] \o up[e] \in Seq(Pdu)
           /\ Accepted(e) \in Seq(Pdu) /\ Len(Accepted(e)) \in Nat
  <1>1. got[e] \in Seq(Pdu) /\ up[e] \in Seq(Pdu) /\ buf[e] \in Pdu
    BY DEF LinkTypeOK
  <1>2. InHand(e) \in Seq(Pdu)
    <2>1. <<>> \in Seq(Pdu) /\ <<buf[e]>> \in Seq(Pdu)
      BY <1>1
    <2>2. QED BY <2>1 DEF InHand
  <1>3. got[e] \o up[e] \in Seq(Pdu)
    BY <1>1, ConcatProperties
  <1>4. Accepted(e) \in Seq(Pdu)
    BY <1>2, <1>3, ConcatProperties DEF Accepted
  <1>5. QED BY <1>1, <1>2, <1>3, <1>4, LenProperties

SameAccepted(f) == Accepted(f)' = Accepted(f) /\ dlc'[f].r = dlc[f].r

LEMMA AcceptedGrows ==
    ASSUME LinkTypeOK, NEW e \in End, NEW p \in Pdu, AcceptI(e, p)
    PROVE  /\ Accepted(e)' = Append(Accepted(e), p)
           /\ p.ns = dlc[e].r /\ dlc'[e].r = Inc16(dlc[e].r)
           /\ \A f \in End : f # e => SameAccepted(f)
  <1>1. ASSUME NEW f \in End, f # e PROVE SameAccepted(f)
    BY <1>1 DEF SameAccepted, AcceptI, Accepted, InHand, LinkTypeOK, State
  <1>2. p.ns = dlc[e].r /\ dlc'[e].r = Inc16(dlc[e].r)
    BY DEF AcceptI, LinkTypeOK, State
  <1>3. /\ Accepted(e) = got[e] \o up[e]
        /\ Accepted(e)' = (got[e] \o up[e]) \o <<p>>
    <2>1. InHand(e) = <<>> /\ InHand(e)' = <<p>>
      BY DEF AcceptI, InHand, LinkTypeOK, State
    <2>2. got' = got /\ up' = up
      BY DEF AcceptI
    <2>3. QED BY <2>1, <2>2, AcceptedType, ConcatEmptySeq DEF Accepted
  <1>4. Accepted(e)' = Append(Accepted(e), p)
    BY <1>3, AcceptedType, AppendIsConcat
  <1>5. QED BY <1>1, <1>2, <1>4

LEMMA AcceptedDelivered ==
    ASSUME LinkTypeOK, NEW e \in End, NEW f \in End, Deliver(e)
    PROVE  SameAccepted(f)
  <1>1. CASE f # e
    BY <1>1 DEF SameAccepted, Deliver, Accepted, InHand, LinkTypeOK, State
  <1>2. CASE f = e
    <2>1. /\ InHand(e) = <<buf[e]>> /\ InHand(e)' = <<>>
          /\ up'[e] = Append(up[e], buf[e]) /\ got' = got /\ dlc' = dlc
      BY DEF Deliver, InHand, LinkTypeOK, State
    <2>2. buf[e] \in Pdu /\ got[e] \in Seq(Pdu) /\ up[e] \in Seq(Pdu)
      BY DEF LinkTypeOK
    <2>3. got[e] \o up[e] \in Seq(Pdu)
      BY AcceptedType
    <2>4. got[e] \o Append(up[e], buf[e]) = Append(got[e] \o up[e], buf[e])
      <3>1. \A g, u \in Seq(Pdu) : \A x \in Pdu :
              g \o Append(u, x) = Append(g \o u, x)
        BY AppendToLast
      <3>2. QED BY <2>2, <3>1, Zenon
    <2>5. /\ Append(got[e] \o up[e], buf[e]) = (got[e] \o up[e]) \o <<buf[e]>>
          /\ Append(got[e] \o up[e], buf[e]) \in Seq(Pdu)
      BY <2>2, <2>3, AppendIsConcat, AppendProperties
    <2>6. Accepted(e)' = (got'[e] \o up'[e]) \o <<>>
      BY <2>1 DEF Accepted
    <2>7. Accepted(e)' = (got[e] \o up[e]) \o <<buf[e]>>
      BY <2>1, <2>4, <2>5, <2>6, ConcatEmptySeq
    <2>8. Accepted(e) = (got[e] \o up[e]) \o <<buf[e]>>
      BY <2>1 DEF Accepted
    <2>9. QED BY <1>2, <2>1, <2>7, <2>8 DEF SameAccepted
  <1>3. QED BY <1>1, <1>2

LEMMA AcceptedReceived ==
    ASSUME LinkTypeOK, NEW e \in End, NEW f \in End, Recv(e)
    PROVE  SameAccepted(f)
  <1>1. InHand(f)' = InHand(f) /\ dlc' = dlc
    BY DEF Recv, InHand
  <1>2. CASE f # e
    <2>1. got'[f] = got[f] /\ up'[f] = up[f]
      BY <1>2 DEF Recv, LinkTypeOK
    <2>2. QED BY <1>1, <2>1 DEF SameAccepted, Accepted
  <1>3. CASE f = e
    <2>1. /\ up[e] # <<>>
          /\ got'[e] = Append(got[e], Head(up[e])) /\ up'[e] = Tail(up[e])
      BY DEF Recv, LinkTypeOK
    <2>2. got'[e] \o up'[e] = got[e] \o up[e]
      BY <2>1, AcceptedType, MoveHead
    <2>3. QED BY <1>1, <1>3, <2>2 DEF SameAccepted, Accepted
  <1>4. QED BY <1>2, <1>3

LEMMA AcceptedFrame ==
    ASSUME LinkTypeOK, NEW e \in End, NEW f \in End,
           pc[e] # "deliver", pc'[e] # "deliver",
           f # e => pc'[f] = pc[f] /\ buf'[f] = buf[f],
           got' = got, up' = up, dlc'[f].r = dlc[f].r
    PROVE  SameAccepted(f)
  <1>1. InHand(f)' = InHand(f)
    BY DEF InHand
  <1>2. QED BY <1>1 DEF SameAccepted, Accepted

LEMMA AcceptedHandled ==
    ASSUME LinkTypeOK, NEW e \in End, NEW f \in End, NEW p \in Pdu,
           \/ HandleInert(e, p) \/ HandleRR(e, p) \/ RefuseI(e, p)
           \/ HandleUnsupported(e, p)
    PROVE  SameAccepted(f)
  <1> USE DEF LinkTypeOK, State
  <1>1. ASSUME HandleInert(e, p) PROVE SameAccepted(f)
    <2>1. /\ pc[e] # "deliver" /\ pc'[e] # "deliver"
          /\ f # e => pc'[f] = pc[f] /\ buf'[f] = buf[f]
      BY <1>1 DEF HandleInert
    <2>2. got' = got /\ up' = up /\ dlc'[f].r = dlc[f].r
      BY <1>1 DEF HandleInert
    <2>3. QED BY <2>1, <2>2, AcceptedFrame
  <1>2. ASSUME HandleRR(e, p) PROVE SameAccepted(f)
    <2>1. /\ pc[e] # "deliver" /\ pc'[e] # "deliver"
          /\ f # e => pc'[f] = pc[f] /\ buf'[f] = buf[f]
      BY <1>2 DEF HandleRR
    <2>2. got' = got /\ up' = up /\ dlc'[f].r = dlc[f].r
      BY <1>2 DEF HandleRR
    <2>3. QED BY <2>1, <2>2, AcceptedFrame
  <1>3. ASSUME RefuseI(e, p) PROVE SameAccepted(f)
    <2>1. /\ pc[e] # "deliver" /\ pc'[e] # "deliver"
          /\ f # e => pc'[f] = pc[f] /\ buf'[f] = buf[f]
      BY <1>3 DEF RefuseI
    <2>2. got' = got /\ up' = up /\ dlc'[f].r = dlc[f].r
      BY <1>3 DEF RefuseI
    <2>3. QED BY <2>1, <2>2, AcceptedFrame
  <1>4. ASSUME HandleUnsupported(e, p) PROVE SameAccepted(f)
    <2>1. /\ pc[e] # "deliver" /\ pc'[e] # "deliver"
          /\ f # e => pc'[f] = pc[f] /\ buf'[f] = buf[f]
      BY <1>4 DEF HandleUnsupported
    <2>2. got' = got /\ up' = up /\ dlc'[f].r = dlc[f].r
      BY <1>4 DEF HandleUnsupported
    <2>3. QED BY <2>1, <2>2, AcceptedFrame
  <1>5. QED BY <1>1, <1>2, <1>3, <1>4

LEMMA AcceptedSwept ==
    ASSUME LinkTypeOK, NEW e \in End, NEW f \in End, Sweep(e) \/ HandOver(e)
    PROVE  SameAccepted(f)
  <1> USE DEF LinkTypeOK, State
  <1>1. ASSUME SweepTransmit(e) PROVE SameAccepted(f)
    <2>1. /\ pc[e] # "deliver" /\ pc'[e] # "deliver"
          /\ f # e => pc'[f] = pc[f] /\ buf'[f] = buf[f]
      BY <1>1 DEF SweepTransmit
    <2>2. got' = got /\ up' = up /\ dlc'[f].r = dlc[f].r
      BY <1>1 DEF SweepTransmit
    <2>3. QED BY <2>1, <2>2, AcceptedFrame
  <1>2. ASSUME SweepPostpone(e) PROVE SameAccepted(f)
    <2>1. /\ pc[e] # "deliver" /\ pc'[e] # "deliver"
          /\ f # e => pc'[f] = pc[f] /\ buf'[f] = buf[f]
      BY <1>2 DEF SweepPostpone
    <2>2. got' = got /\ up' = up /\ dlc'[f].r = dlc[f].r
      BY <1>2 DEF SweepPostpone
    <2>3. QED BY <2>1, <2>2, AcceptedFrame
  <1>3. ASSUME Requeue(e) PROVE SameAccepted(f)
    <2>1. /\ pc[e] # "deliver" /\ pc'[e] # "deliver"
          /\ f # e => pc'[f] = pc[f] /\ buf'[f] = buf[f]
      BY <1>3 DEF Requeue
    <2>2. got' = got /\ up' = up /\ dlc'[f].r = dlc[f].r
      BY <1>3 DEF Requeue
    <2>3. QED BY <2>1, <2>2, AcceptedFrame
  <1>4. ASSUME SweepUnacknowledged(e) PROVE SameAccepted(f)
    <2>1. /\ pc[e] # "deliver" /\ pc'[e] # "deliver"
          /\ f # e => pc'[f] = pc[f] /\ buf'[f] = buf[f]
      BY <1>4 DEF SweepUnacknowledged
    <2>2. got' = got /\ up' = up /\ dlc'[f].r = dlc[f].r
      BY <1>4 DEF SweepUnacknowledged
    <2>3. QED BY <2>1, <2>2, AcceptedFrame
  <1>5. ASSUME Acknowledge(e) PROVE SameAccepted(f)
    <2>1. /\ pc[e] # "deliver" /\ pc'[e] # "deliver"
          /\ f # e => pc'[f] = pc[f] /\ buf'[f] = buf[f]
      BY <1>5 DEF Acknowledge
    <2>2. got' = got /\ up' = up /\ dlc'[f].r = dlc[f].r
      BY <1>5 DEF Acknowledge
    <2>3. QED BY <2>1, <2>2, AcceptedFrame
  <1>6. ASSUME SweepNothing(e) PROVE SameAccepted(f)
    <2>1. /\ pc[e] # "deliver" /\ pc'[e] # "deliver"
          /\ f # e => pc'[f] = pc[f] /\ buf'[f] = buf[f]
      BY <1>6 DEF SweepNothing
    <2>2. got' = got /\ up' = up /\ dlc'[f].r = dlc[f].r
      BY <1>6 DEF SweepNothing
    <2>3. QED BY <2>1, <2>2, AcceptedFrame
  <1>7. ASSUME HandOver(e) PROVE SameAccepted(f)
    <2>1. /\ pc[e] # "deliver" /\ pc'[e] # "deliver"
          /\ f # e => pc'[f] = pc[f] /\ buf'[f] = buf[f]
      BY <1>7 DEF HandOver
    <2>2. got' = got /\ up' = up /\ dlc'[f].r = dlc[f].r
      BY <1>7 DEF HandOver
    <2>3. QED BY <2>1, <2>2, AcceptedFrame
  <1>8. QED BY <1>1, <1>2, <1>3, <1>4, <1>5, <1>6, <1>7 DEF Sweep

LEMMA AcceptedSent ==
    ASSUME LinkTypeOK, NEW e \in End, NEW f \in End, NEW m,
           \/ SendCall(e, m) \/ SendStamp(e) \/ SendEnqueue(e) \/ SendFails(e)
    PROVE  SameAccepted(f)
  BY DEF SameAccepted, SendCall, SendStamp, SendEnqueue, SendFails, Accepted, InHand

-----------------------------------------------------------------------------
(***************************************************************************)
(* The accepted PDUs carry consecutive N(S) values from Start on, and V(R) *)
(* is the next one.                                                        *)
(***************************************************************************)
GaplessAt(e) ==
    /\ \A k \in 1..Len(Accepted(e)) : Accepted(e)[k].ns = (Start + k - 1) % 16
    /\ dlc[e].r = (Start + Len(Accepted(e))) % 16

LEMMA GaplessStart == LinkInit => \A e \in End : GaplessAt(e)
  <1> SUFFICES ASSUME LinkInit, NEW e \in End PROVE GaplessAt(e)
    OBVIOUS
  <1>1. Accepted(e) = <<>>
    BY DEF LinkInit, Accepted, InHand
  <1>2. Len(<<>>) = 0 /\ dlc[e].r = Start
    BY DEF LinkInit
  <1>3. QED BY <1>1, <1>2, StartAssumption DEF GaplessAt

\* Numbering from Start goes on as Inc16 does.
LEMMA NextNumber ==
    ASSUME NEW n \in Nat
    PROVE  Inc16((Start + n) % 16) = (Start + (n + 1)) % 16
  <1>1. PICK m \in Int : m = Start + n
    BY StartAssumption
  <1>2. ((m % 16) + 1) % 16 = (m + 1) % 16
    BY <1>1, SMTT(60)
  <1>3. Start + (n + 1) = m + 1
    BY <1>1, StartAssumption
  <1>4. QED BY <1>1, <1>2, <1>3, Zenon DEF Inc16

\* The next PDU in sequence extends a gapless sequence.
LEMMA GaplessGrows ==
    ASSUME LinkTypeOK, NEW e \in End, NEW p \in Pdu, GaplessAt(e), AcceptI(e, p)
    PROVE  GaplessAt(e)'
  <1>1. /\ Accepted(e) \in Seq(Pdu) /\ Len(Accepted(e)) \in Nat
        /\ Accepted(e)' = Append(Accepted(e), p)
        /\ p.ns = dlc[e].r /\ dlc'[e].r = Inc16(dlc[e].r)
    BY AcceptedType, AcceptedGrows
  <1>2. /\ Len(Accepted(e)') = Len(Accepted(e)) + 1
        /\ \A k \in 1..Len(Accepted(e)) : Accepted(e)'[k] = Accepted(e)[k]
        /\ Accepted(e)'[Len(Accepted(e)) + 1] = p
    BY <1>1, AppendProperties
  <1>3. dlc[e].r = (Start + Len(Accepted(e))) % 16
    BY DEF GaplessAt
  <1>4. dlc'[e].r = (Start + Len(Accepted(e)')) % 16
    BY <1>1, <1>2, <1>3, NextNumber, Zenon
  <1>5. ASSUME NEW k \in 1..Len(Accepted(e)')
        PROVE  Accepted(e)'[k].ns = (Start + k - 1) % 16
    <2>1. CASE k \in 1..Len(Accepted(e))
      BY <2>1, <1>2 DEF GaplessAt
    <2>2. CASE k = Len(Accepted(e)) + 1
      BY <2>2, <1>1, <1>2, <1>3, StartAssumption
    <2>3. QED BY <2>1, <2>2, <1>1, <1>2
  <1>6. QED BY <1>4, <1>5 DEF GaplessAt

-----------------------------------------------------------------------------
(***************************************************************************)
(* One endpoint against any peer, for every set of endpoints, window,      *)
(* start of the sequence numbers and set of incoming PDUs.                 *)
(***************************************************************************)
\* A step is one of the engine or of the service thread of some endpoint, or a stutter.
LEMMA AnyPeerStepCases ==
    ASSUME AnyPeerTypeOK, [AnyPeerNext]_linkVars
    PROVE  \/ \E e \in End : \E p \in Pdu : HandlePdu(e, p)
           \/ \E e \in End : Deliver(e) \/ Sweep(e) \/ HandOver(e)
           \/ \E e \in End : \E m \in Payload : m = Len(sent[e]) + 1 /\ SendCall(e, m)
           \/ \E e \in End : SendStamp(e) \/ SendEnqueue(e) \/ SendFails(e) \/ Recv(e)
           \/ UNCHANGED linkVars
  <1>1. ASSUME NEW e \in End, SendCall(e, Len(sent[e]) + 1)
        PROVE  Len(sent[e]) + 1 \in Payload
    <2>1. Len(sent[e]) \in Nat /\ Len(sent[e]) < MaxSend
      BY <1>1, LenProperties DEF SendCall, AnyPeerTypeOK, LinkTypeOK
    <2>2. QED BY <2>1, NumberAssumption, BoundAssumption
  <1>2. ASSUME NEW e \in End, AnyPeerArrive(e) PROVE \E p \in Pdu : HandlePdu(e, p)
    BY <1>2, IncomingAssumption DEF AnyPeerArrive
  <1>3. QED BY <1>1, <1>2 DEF AnyPeerNext, AnyPeerEngine, AnyPeerService

-----------------------------------------------------------------------------
(***************************************************************************)
(* Type correctness: every queue, program counter and state variable stays *)
(* in its type and no queue exceeds mq_maxmsg.                             *)
(***************************************************************************)
LEMMA AnyPeerTypeNext == AnyPeerTypeOK /\ [AnyPeerNext]_linkVars => AnyPeerTypeOK'
  <1> SUFFICES ASSUME AnyPeerTypeOK, [AnyPeerNext]_linkVars PROVE AnyPeerTypeOK'
    OBVIOUS
  <1> USE DEF AnyPeerTypeOK
  <1>1. ASSUME NEW e \in End, NEW p \in Pdu, HandlePdu(e, p) PROVE AnyPeerTypeOK'
    BY <1>1, LinkTypeHandle
  <1>2. ASSUME NEW e \in End, Deliver(e) \/ Sweep(e) \/ HandOver(e) PROVE AnyPeerTypeOK'
    BY <1>2, LinkTypeEngine
  <1>3. ASSUME NEW e \in End, \E m \in Payload : SendCall(e, m) PROVE AnyPeerTypeOK'
    BY <1>3, LinkTypeService
  <1>4. ASSUME NEW e \in End, SendStamp(e) \/ SendEnqueue(e) \/ SendFails(e) \/ Recv(e)
        PROVE  AnyPeerTypeOK'
    BY <1>4, LinkTypeService
  <1>5. CASE UNCHANGED linkVars
    BY <1>5, LinkTypeStutter
  <1>6. QED BY <1>1, <1>2, <1>3, <1>4, <1>5, AnyPeerStepCases

THEOREM AnyPeerTypeCorrect == AnyPeerSpec => []AnyPeerTypeOK
  <1>1. AnyPeerInit => AnyPeerTypeOK
    BY LinkTypeInit DEF AnyPeerInit, AnyPeerTypeOK
  <1>2. QED BY <1>1, AnyPeerTypeNext, PTL DEF AnyPeerSpec

-----------------------------------------------------------------------------
(***************************************************************************)
(* Gapless is inductive with the types: V(R) and the end of Accepted       *)
(* advance together, in AcceptI only.                                      *)
(***************************************************************************)
LEMMA GaplessInit == AnyPeerInit => Gapless
  BY GaplessStart DEF AnyPeerInit, Gapless, GaplessAt

LEMMA GaplessNext == AnyPeerTypeOK /\ Gapless /\ [AnyPeerNext]_linkVars => Gapless'
  <1> SUFFICES ASSUME AnyPeerTypeOK, Gapless, [AnyPeerNext]_linkVars, NEW f \in End
               PROVE  GaplessAt(f)'
    BY DEF Gapless, GaplessAt
  <1>1. GaplessAt(f)
    BY DEF Gapless, GaplessAt
  <1>2. ASSUME SameAccepted(f) PROVE GaplessAt(f)'
    BY <1>1, <1>2 DEF GaplessAt, SameAccepted
  <1> USE DEF AnyPeerTypeOK
  <1>3. ASSUME NEW e \in End, NEW p \in Pdu, HandlePdu(e, p) PROVE GaplessAt(f)'
    <2>1. CASE AcceptI(e, p)
      BY <2>1, <1>1, <1>2, GaplessGrows, AcceptedGrows
    <2>2. CASE ~AcceptI(e, p)
      BY <2>2, <1>2, <1>3, AcceptedHandled DEF HandlePdu
    <2>3. QED BY <2>1, <2>2
  <1>4. ASSUME NEW e \in End, Deliver(e) \/ Sweep(e) \/ HandOver(e) PROVE GaplessAt(f)'
    BY <1>2, <1>4, AcceptedDelivered, AcceptedSwept
  <1>5. ASSUME NEW e \in End, NEW m \in Payload, SendCall(e, m) PROVE GaplessAt(f)'
    BY <1>2, <1>5, AcceptedSent
  <1>6. ASSUME NEW e \in End, SendStamp(e) \/ SendEnqueue(e) \/ SendFails(e) \/ Recv(e)
        PROVE  GaplessAt(f)'
    BY <1>2, <1>6, AcceptedSent, AcceptedReceived
  <1>7. CASE UNCHANGED linkVars
    BY <1>2, <1>7 DEF linkVars, SameAccepted, Accepted, InHand
  <1>8. QED BY <1>3, <1>4, <1>5, <1>6, <1>7, AnyPeerStepCases

(***************************************************************************)
(* Whatever a peer sends, what the service thread is handed carries        *)
(* consecutive N(S) values: no I PDU is delivered twice, skipped or        *)
(* reordered by the receive side of the engine.                            *)
(***************************************************************************)
THEOREM GaplessDelivery == AnyPeerSpec => []Gapless
  <1>1. AnyPeerInit => AnyPeerTypeOK /\ Gapless
    BY LinkTypeInit, GaplessInit DEF AnyPeerInit, AnyPeerTypeOK
  <1>2. AnyPeerTypeOK /\ Gapless /\ [AnyPeerNext]_linkVars => (AnyPeerTypeOK /\ Gapless)'
    BY AnyPeerTypeNext, GaplessNext
  <1>3. QED BY <1>1, <1>2, PTL DEF AnyPeerSpec

-----------------------------------------------------------------------------
(***************************************************************************)
(* The send order.  SendOrder alone is not inductive: a message is         *)
(* appended in order only because its number exceeds those of all messages *)
(* accepted before it, which the call in progress took before it queued.   *)
(***************************************************************************)
Numbered(n) == {p \in Pdu : p.info \in 1..n}
Increasing  == {pq \in Pdu \X Pdu : pq[1].info < pq[2].info}

OrderAt(e) ==
    /\ app[e].pc # "idle" => app[e].info = Len(sent[e]) + 1
    /\ Outgoing(e) \in Seq(Numbered(Len(sent[e])))
    /\ Chained(Increasing, Outgoing(e))

OrderInv == \A e \in End : OrderAt(e)

LEMMA OutgoingType ==
    ASSUME AnyPeerTypeOK, NEW e \in End
    PROVE  /\ wire[e] \in Seq(Pdu) /\ down[e] \in Seq(Pdu) /\ buf[e] \in Pdu
           /\ Postponed(e) \in Seq(Pdu) /\ wire[e] \o Postponed(e) \in Seq(Pdu)
           /\ Outgoing(e) \in Seq(Pdu)
           /\ pc[e] = "postpone" => Outgoing(e) = wire[e] \o <<buf[e]>> \o down[e]
           /\ pc[e] # "postpone" => Outgoing(e) = wire[e] \o down[e]
  <1>1. wire[e] \in Seq(Pdu) /\ down[e] \in Seq(Pdu) /\ buf[e] \in Pdu
    BY DEF AnyPeerTypeOK, LinkTypeOK
  <1>2. Postponed(e) \in Seq(Pdu)
    <2>1. <<>> \in Seq(Pdu) /\ <<buf[e]>> \in Seq(Pdu)
      BY <1>1
    <2>2. QED BY <2>1 DEF Postponed
  <1>3. wire[e] \o Postponed(e) \in Seq(Pdu)
    BY <1>1, <1>2, ConcatProperties
  <1>4. Outgoing(e) \in Seq(Pdu)
    BY <1>1, <1>3, ConcatProperties DEF Outgoing
  <1>5. pc[e] = "postpone" => Outgoing(e) = wire[e] \o <<buf[e]>> \o down[e]
    BY DEF Outgoing, Postponed
  <1>6. pc[e] # "postpone" => Outgoing(e) = wire[e] \o down[e]
    <2>1. wire[e] \o <<>> = wire[e]
      BY <1>1, ConcatEmptySeq
    <2>2. QED BY <2>1 DEF Outgoing, Postponed
  <1>7. QED BY <1>1, <1>2, <1>3, <1>4, <1>5, <1>6

SameOutgoing(f) ==
    Outgoing(f)' = Outgoing(f) /\ sent'[f] = sent[f] /\ app'[f] = app[f]

\* Transmission and postponing move the head of llc_down along the pipeline.
LEMMA OutgoingSwept ==
    ASSUME AnyPeerTypeOK, NEW e \in End, NEW f \in End, SweepTransmit(e) \/ SweepPostpone(e)
    PROVE  SameOutgoing(f)
  <1>0. wire[e] \in Seq(Pdu) /\ down[e] \in Seq(Pdu) /\ buf[e] \in Pdu
    BY OutgoingType
  <1>1. sent' = sent /\ app' = app
    BY DEF SweepTransmit, SweepPostpone, AnyPeerTypeOK, LinkTypeOK
  <1>2. CASE f # e
    BY <1>1, <1>2 DEF SameOutgoing, SweepTransmit, SweepPostpone, Outgoing, Postponed, AnyPeerTypeOK, LinkTypeOK
  <1>3. CASE f = e /\ SweepTransmit(e)
    <2>1. /\ wire'[e] = Append(wire[e], Head(down[e])) /\ down'[e] = Tail(down[e])
          /\ down[e] # <<>> /\ pc[e] = "sweep" /\ pc'[e] = "transmit"
      BY <1>3 DEF SweepTransmit, AnyPeerTypeOK, LinkTypeOK
    <2>2. Outgoing(e) = wire[e] \o down[e]
      BY <2>1, OutgoingType
    <2>3. Outgoing(e)' = (wire'[e] \o <<>>) \o down'[e]
      BY <2>1 DEF Outgoing, Postponed
    <2>4. wire'[e] \in Seq(Pdu)
      <3>1. Head(down[e]) \in Pdu
        BY <1>0, <2>1, HeadTailProperties
      <3>2. QED BY <1>0, <2>1, <3>1, AppendProperties
    <2>5. Outgoing(e)' = wire'[e] \o down'[e]
      BY <2>3, <2>4, ConcatEmptySeq
    <2>6. wire'[e] \o down'[e] = wire[e] \o down[e]
      BY <1>0, <2>1, MoveHead
    <2>7. QED BY <1>1, <1>3, <2>2, <2>5, <2>6 DEF SameOutgoing
  <1>4. CASE f = e /\ SweepPostpone(e)
    <2>1. /\ wire'[e] = wire[e] /\ down'[e] = Tail(down[e]) /\ buf'[e] = Head(down[e])
          /\ down[e] # <<>> /\ pc[e] = "sweep" /\ pc'[e] = "postpone"
      BY <1>4 DEF SweepPostpone, AnyPeerTypeOK, LinkTypeOK
    <2>2. Outgoing(e) = wire[e] \o down[e]
      BY <2>1, OutgoingType
    <2>3. Outgoing(e)' = (wire[e] \o <<Head(down[e])>>) \o Tail(down[e])
      BY <2>1 DEF Outgoing, Postponed
    <2>4. (wire[e] \o <<Head(down[e])>>) \o Tail(down[e]) = wire[e] \o down[e]
      BY <1>0, <2>1, HeadInHand
    <2>5. QED BY <1>1, <1>4, <2>2, <2>3, <2>4 DEF SameOutgoing
  <1>5. QED BY <1>2, <1>3, <1>4

\* A postponed PDU goes back where it was taken from, or is lost.
LEMMA OutgoingRequeued ==
    ASSUME AnyPeerTypeOK, NEW e \in End, NEW f \in End, Requeue(e)
    PROVE  /\ sent'[f] = sent[f] /\ app'[f] = app[f]
           /\ \/ Outgoing(f)' = Outgoing(f)
              \/ /\ Outgoing(f) = wire[f] \o <<buf[f]>> \o down[f]
                 /\ Outgoing(f)' = wire[f] \o down[f]
  <1>0. wire[e] \in Seq(Pdu) /\ down[e] \in Seq(Pdu) /\ buf[e] \in Pdu
    BY OutgoingType
  <1>1. sent' = sent /\ app' = app /\ wire' = wire
    BY DEF Requeue, AnyPeerTypeOK, LinkTypeOK
  <1>2. CASE f # e
    BY <1>1, <1>2 DEF Requeue, Outgoing, Postponed, AnyPeerTypeOK, LinkTypeOK
  <1>3. CASE f = e
    <2>1. /\ down'[e] = IF Len(down[e]) < MaxMsg THEN <<buf[e]>> \o down[e] ELSE down[e]
          /\ pc[e] = "postpone" /\ pc'[e] = "recv"
      BY DEF Requeue, AnyPeerTypeOK, LinkTypeOK
    <2>2. Outgoing(e) = wire[e] \o <<buf[e]>> \o down[e]
      BY <2>1, OutgoingType
    <2>3. Outgoing(e)' = (wire[e] \o <<>>) \o down'[e]
      BY <1>1, <2>1 DEF Outgoing, Postponed
    <2>4. Outgoing(e)' = wire[e] \o down'[e]
      BY <2>3, OutgoingType, ConcatEmptySeq
    <2>5. wire[e] \o (<<buf[e]>> \o down[e]) = wire[e] \o <<buf[e]>> \o down[e]
      <3>1. \A s, t \in Seq(Pdu) : \A x \in Pdu : s \o (<<x>> \o t) = s \o <<x>> \o t
        BY BetweenQueues
      <3>2. QED BY <1>0, <3>1, Zenon
    <2>6. QED BY <1>1, <1>3, <2>1, <2>2, <2>4, <2>5
  <1>4. QED BY <1>2, <1>3

\* llc_connection_send appends the message it has just numbered.
LEMMA OutgoingQueued ==
    ASSUME AnyPeerTypeOK, NEW e \in End, NEW f \in End, SendEnqueue(e)
    PROVE  /\ f # e => SameOutgoing(f)
           /\ Stamped(e) \in Pdu
           /\ Outgoing(e)' = Append(Outgoing(e), Stamped(e))
           /\ sent'[e] = Append(sent[e], app[e].info) /\ app'[e] = Idle
           /\ Len(sent'[e]) = Len(sent[e]) + 1
  <1>1. f # e => SameOutgoing(f)
    BY DEF SameOutgoing, SendEnqueue, Outgoing, Postponed, AnyPeerTypeOK, LinkTypeOK
  <1>2. app[e] \in Call
    BY DEF SendEnqueue, Idle, AnyPeerTypeOK, LinkTypeOK
  <1>3. Stamped(e) \in Pdu /\ app[e].info \in Payload
    BY <1>2 DEF Stamped, Pdu, PduType, Call
  <1>4. /\ down'[e] = Append(down[e], Stamped(e))
        /\ sent'[e] = Append(sent[e], app[e].info) /\ app'[e] = Idle
    BY DEF SendEnqueue, AnyPeerTypeOK, LinkTypeOK
  <1>5. Outgoing(e)' = (wire[e] \o Postponed(e)) \o Append(down[e], Stamped(e))
    BY <1>4 DEF SendEnqueue, Outgoing, Postponed, AnyPeerTypeOK, LinkTypeOK
  <1>6. Outgoing(e)' = Append(Outgoing(e), Stamped(e))
    <2>1. \A s, t \in Seq(Pdu) : \A x \in Pdu : s \o Append(t, x) = Append(s \o t, x)
      BY AppendToLast
    <2>2. wire[e] \o Postponed(e) \in Seq(Pdu) /\ down[e] \in Seq(Pdu)
      BY OutgoingType
    <2>3. (wire[e] \o Postponed(e)) \o Append(down[e], Stamped(e))
            = Append((wire[e] \o Postponed(e)) \o down[e], Stamped(e))
      BY <1>3, <2>1, <2>2, Zenon
    <2>4. QED BY <1>5, <2>3 DEF Outgoing
  <1>7. Len(sent'[e]) = Len(sent[e]) + 1
    BY <1>3, <1>4, AppendProperties
  <1>8. QED BY <1>1, <1>3, <1>4, <1>6, <1>7

\* Nothing else touches the outgoing I PDUs.
LEMMA OutgoingFrame ==
    ASSUME AnyPeerTypeOK, NEW e \in End, NEW f \in End,
           pc[e] # "postpone", pc'[e] # "postpone",
           f # e => pc'[f] = pc[f] /\ buf'[f] = buf[f],
           wire' = wire, down' = down, sent' = sent, app' = app
    PROVE  SameOutgoing(f)
  BY DEF SameOutgoing, Outgoing, Postponed

LEMMA OrderInit == AnyPeerInit => OrderInv
  <1> SUFFICES ASSUME AnyPeerInit, NEW e \in End PROVE OrderAt(e)
    BY DEF OrderInv
  <1>1. app[e] = Idle
    BY DEF AnyPeerInit, LinkInit
  <1>2. Outgoing(e) = <<>>
    BY DEF AnyPeerInit, LinkInit, Outgoing, Postponed
  <1>3. Outgoing(e) \in Seq(Numbered(Len(sent[e])))
    BY <1>2, EmptySeq
  <1>4. Chained(Increasing, Outgoing(e))
    BY <1>2, ShortChains
  <1>5. QED BY <1>1, <1>3, <1>4 DEF OrderAt, Idle

\* A pipeline keeps its order when one of its messages is lost.
LEMMA OrderDrop ==
    ASSUME AnyPeerTypeOK, NEW f \in End, OrderAt(f),
           Outgoing(f) = wire[f] \o <<buf[f]>> \o down[f],
           Outgoing(f)' = wire[f] \o down[f],
           sent'[f] = sent[f], app'[f] = app[f]
    PROVE  OrderAt(f)'
  <1> DEFINE N == Numbered(Len(sent[f]))
  <1>0. wire[f] \in Seq(Pdu) /\ down[f] \in Seq(Pdu) /\ buf[f] \in Pdu
    BY OutgoingType
  <1>1. /\ wire[f] \in Seq(Pdu) /\ down[f] \in Seq(Pdu) /\ buf[f] \in Pdu
        /\ <<buf[f]>> \in Seq(Pdu)
    BY <1>0
  <1>2. wire[f] \o <<buf[f]>> \in Seq(Pdu)
    BY <1>1, ConcatProperties
  <1>3. wire[f] \o <<buf[f]>> \o down[f] \in Seq(N)
    BY DEF OrderAt
  <1>4. wire[f] \in Seq(N) /\ down[f] \in Seq(N)
    BY <1>1, <1>2, <1>3, PartsOfSeq
  <1>5. Outgoing(f)' \in Seq(N)
    BY <1>4, ConcatProperties
  <1>6. Chained(Increasing, Outgoing(f)')
    BY <1>1, ChainedDrop DEF OrderAt
  <1>7. QED BY <1>5, <1>6 DEF OrderAt

\* A queued message has a higher number than all before it.
LEMMA OrderAppend ==
    ASSUME AnyPeerTypeOK, NEW e \in End, OrderAt(e), SendEnqueue(e)
    PROVE  OrderAt(e)'
  <1> DEFINE n == Len(sent[e])
  <1>1. /\ Stamped(e) \in Pdu
        /\ Outgoing(e)' = Append(Outgoing(e), Stamped(e))
        /\ app'[e] = Idle /\ Len(sent'[e]) = n + 1
    BY OutgoingQueued
  <1>2. n \in Nat
    BY LenProperties DEF AnyPeerTypeOK, LinkTypeOK
  <1>3. Stamped(e).info = n + 1
    BY DEF SendEnqueue, OrderAt, Stamped
  <1>4. Outgoing(e) \in Seq(Numbered(n)) /\ Chained(Increasing, Outgoing(e))
    BY DEF OrderAt
  <1>5. Outgoing(e) \in Seq(Numbered(n + 1)) /\ Stamped(e) \in Numbered(n + 1)
    <2>1. Numbered(n) \subseteq Numbered(n + 1)
      BY <1>2 DEF Numbered
    <2>2. Stamped(e) \in Numbered(n + 1)
      BY <1>1, <1>2, <1>3 DEF Numbered
    <2>3. QED BY <1>4, <2>1, <2>2, SeqMonotonic
  <1>6. Outgoing(e)' \in Seq(Numbered(n + 1))
    BY <1>1, <1>5, AppendProperties
  <1>7. \A y \in Numbered(n) : <<y, Stamped(e)>> \in Increasing
    BY <1>1, <1>2, <1>3 DEF Numbered, Increasing
  <1>8. Chained(Increasing, Outgoing(e)')
    BY <1>1, <1>4, <1>7, ChainedAppend
  <1>9. QED BY <1>1, <1>6, <1>8 DEF OrderAt, Idle

LEMMA OrderNext == AnyPeerTypeOK /\ OrderInv /\ [AnyPeerNext]_linkVars => OrderInv'
  <1> SUFFICES ASSUME AnyPeerTypeOK, OrderInv, [AnyPeerNext]_linkVars, NEW f \in End
               PROVE  OrderAt(f)'
    BY DEF OrderInv
  <1>1. OrderAt(f)
    BY DEF OrderInv
  <1>2. ASSUME SameOutgoing(f) PROVE OrderAt(f)'
    BY <1>1, <1>2 DEF OrderAt, SameOutgoing
  <1>3. ASSUME NEW e \in End, NEW p \in Pdu, HandlePdu(e, p) PROVE OrderAt(f)'
    <2>1. /\ pc[e] # "postpone" /\ pc'[e] # "postpone"
          /\ f # e => pc'[f] = pc[f] /\ buf'[f] = buf[f]
          /\ wire' = wire /\ down' = down /\ sent' = sent /\ app' = app
      BY <1>3 DEF HandlePdu, HandleInert, HandleRR, RefuseI, AcceptI, HandleUnsupported,
                  AnyPeerTypeOK, LinkTypeOK
    <2>2. QED BY <2>1, <1>2, OutgoingFrame
  <1>4. ASSUME NEW e \in End, Deliver(e) \/ HandOver(e) PROVE OrderAt(f)'
    <2>1. /\ pc[e] # "postpone" /\ pc'[e] # "postpone"
          /\ f # e => pc'[f] = pc[f] /\ buf'[f] = buf[f]
          /\ wire' = wire /\ down' = down /\ sent' = sent /\ app' = app
      BY <1>4 DEF Deliver, HandOver, AnyPeerTypeOK, LinkTypeOK
    <2>2. QED BY <2>1, <1>2, OutgoingFrame
  <1>5. ASSUME NEW e \in End, SweepUnacknowledged(e) \/ Acknowledge(e) \/ SweepNothing(e)
        PROVE  OrderAt(f)'
    <2>1. /\ pc[e] # "postpone" /\ pc'[e] # "postpone"
          /\ f # e => pc'[f] = pc[f] /\ buf'[f] = buf[f]
          /\ wire' = wire /\ down' = down /\ sent' = sent /\ app' = app
      BY <1>5 DEF SweepUnacknowledged, Acknowledge, SweepNothing, AnyPeerTypeOK, LinkTypeOK
    <2>2. QED BY <2>1, <1>2, OutgoingFrame
  <1>6. ASSUME NEW e \in End, SweepTransmit(e) \/ SweepPostpone(e) PROVE OrderAt(f)'
    BY <1>2, <1>6, OutgoingSwept
  <1>7. ASSUME NEW e \in End, Requeue(e) PROVE OrderAt(f)'
    BY <1>1, <1>2, <1>7, OutgoingRequeued, OrderDrop DEF SameOutgoing
  <1>8. ASSUME NEW e \in End, NEW m \in Payload, m = Len(sent[e]) + 1, SendCall(e, m)
        PROVE  OrderAt(f)'
    <2>1. Outgoing(f)' = Outgoing(f) /\ sent' = sent
      BY <1>8 DEF SendCall, Outgoing, Postponed
    <2>2. app'[f] = app[f] \/ (f = e /\ app'[f].info = m)
      BY <1>8 DEF SendCall, AnyPeerTypeOK, LinkTypeOK
    <2>3. QED BY <1>1, <1>8, <2>1, <2>2 DEF OrderAt
  <1>9. ASSUME NEW e \in End, SendStamp(e) \/ SendFails(e) PROVE OrderAt(f)'
    <2>1. Outgoing(f)' = Outgoing(f) /\ sent' = sent
      BY <1>9 DEF SendStamp, SendFails, Outgoing, Postponed
    <2>2. \/ app'[f] = app[f] \/ app'[f] = Idle
          \/ app[f].pc # "idle" /\ app'[f].info = app[f].info
      <3>1. CASE SendFails(e)
        BY <3>1 DEF SendFails, AnyPeerTypeOK, LinkTypeOK
      <3>2. CASE SendStamp(e)
        <4>1. CASE f # e
          BY <3>2, <4>1 DEF SendStamp, AnyPeerTypeOK, LinkTypeOK
        <4>2. CASE f = e
          <5>1. app[f].pc = "stamp" /\ app[f] \in Call
            BY <3>2, <4>2 DEF SendStamp, Idle, AnyPeerTypeOK, LinkTypeOK
          <5>2. \/ app'[f] = [app[f] EXCEPT !.pc = "enqueue", !.ns = dlc[f].s]
                \/ app'[f] = [app[f] EXCEPT !.pc = "enqueue", !.nr = dlc[f].r]
            BY <3>2, <4>2 DEF SendStamp, AnyPeerTypeOK, LinkTypeOK
          <5>3. app'[f].info = app[f].info
            BY <5>1, <5>2 DEF Call
          <5>4. QED BY <5>1, <5>3
        <4>3. QED BY <4>1, <4>2
      <3>3. QED BY <1>9, <3>1, <3>2
    <2>3. QED BY <1>1, <2>1, <2>2 DEF OrderAt, Idle
  <1>10. ASSUME NEW e \in End, SendEnqueue(e) PROVE OrderAt(f)'
    BY <1>1, <1>2, <1>10, OutgoingQueued, OrderAppend
  <1>11. ASSUME NEW e \in End, Recv(e) PROVE OrderAt(f)'
    BY <1>2, <1>11 DEF Recv, SameOutgoing, Outgoing, Postponed
  <1>12. CASE UNCHANGED linkVars
    BY <1>2, <1>12 DEF linkVars, SameOutgoing, Outgoing, Postponed
  <1>13. QED
    BY <1>3, <1>4, <1>5, <1>6, <1>7, <1>8, <1>9, <1>10, <1>11, <1>12, AnyPeerStepCases DEF Sweep

(***************************************************************************)
(* Messages leave in the order in which llc_connection_send accepted them, *)
(* none twice: a postponed message is never overtaken by the ones the      *)
(* service thread queues while the engine holds it.                        *)
(***************************************************************************)
THEOREM SendOrdered == AnyPeerSpec => []SendOrder
  <1>1. AnyPeerInit => AnyPeerTypeOK /\ OrderInv
    BY LinkTypeInit, OrderInit DEF AnyPeerInit, AnyPeerTypeOK
  <1>2. AnyPeerTypeOK /\ OrderInv /\ [AnyPeerNext]_linkVars => (AnyPeerTypeOK /\ OrderInv)'
    BY AnyPeerTypeNext, OrderNext
  <1>3. OrderInv => SendOrder
    <2> SUFFICES ASSUME OrderInv, NEW e \in End,
                        NEW i \in 1..Len(Outgoing(e)), NEW j \in 1..Len(Outgoing(e)), i < j
                 PROVE  Outgoing(e)[i].info < Outgoing(e)[j].info
      BY DEF SendOrder
    <2>1. <<Outgoing(e)[i], Outgoing(e)[j]>> \in Increasing
      BY DEF OrderInv, OrderAt, Chained
    <2>2. QED BY <2>1 DEF Increasing
  <1>4. QED BY <1>1, <1>2, <1>3, PTL DEF AnyPeerSpec
=============================================================================
