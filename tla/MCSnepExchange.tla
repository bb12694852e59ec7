--------------------------- MODULE MCSnepExchange ---------------------------
(***************************************************************************)
(* SnepExchange on small instances.  Texts are short or just fill an I PDU *)
(* and include one of two lines and a letter of two UTF-8 bytes; the       *)
(* command lines are those of ndef-encode up to a bounded length, kept     *)
(* when the tool writes something for them.                                *)
(***************************************************************************)
EXTENDS SnepExchange

\* The first four of the table: they begin with one another.
Http == <<104, 116, 116, 112>>    Tail3 == <<58, 47, 47>>    Www == <<119, 119, 119, 46>>
MCUriIdentifiers ==
  << Http \o Tail3 \o Www, Http \o <<115>> \o Tail3 \o Www,
     Http \o Tail3, Http \o <<115>> \o Tail3 >>

Letters(n) == [i \in 1..n |-> 97]
MCTexts == {<<72, 233, 13, 10, 105, 10>>, Letters(240)}
MCTextsLong == {Letters(240), Letters(241)}

\* A phone sends what fits, one byte less than that, or a part of the header;
\* behind a header cut off the server may find a record, or nothing.
MCParts == {2, 5, 255, 256}
MCLeftovers == {<<>>, <<208, 0, 0>>}

Poster == Option("-sp", Http \o Tail3 \o Www \o <<110>>, <<>>)
Poster2 == Option("-sp", <<116, 101, 108>>, <<>>)
Options ==
  { Poster, Poster2, Option("-s-", <<>>, <<>>),
    Option("-t", <<233>>, <<101, 110, 45, 85, 83>>),
    Option("-u", Http \o <<115>> \o Tail3, <<>>),
    Option("-m", <<116>>, Letters(300)),
    Option("-sa", 1, <<>>), Option("-ss", 70000, <<>>), Option("-st", <<120>>, <<>>) }

Unnested(options) == \A n \in 1..Len(options) : Depth(options, n) <= 1
Written(options) == ndef_encode(options) # <<>>

\* Up to three options, and a poster with two records in it.
MCLines == UNION {[1..k -> Options \ {Poster2}] : k \in 1..3}
           \cup {<<Poster, a, b, Option("-s-", <<>>, <<>>)>> : a, b \in Options \ {Poster, Poster2}}
MCOffers == {options \in MCLines : Unnested(options) /\ Written(options)}
MCFewOffers == {<<Option("-t", <<233>>, <<101, 110>>)>>}

\* A poster within a poster.
MCNested == {<<Poster, Poster2, a, Option("-s-", <<>>, <<>>), Option("-s-", <<>>, <<>>)>> :
               a \in {Option("-t", <<233>>, <<101, 110>>)}}
=============================================================================
