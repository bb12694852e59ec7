------------------------------ MODULE NdefCodec ------------------------------
(***************************************************************************)
(* libndef: how NDEF records, messages and TLV blocks become bytes and how *)
(* bytes are read back, and the two tools made of it, ndef-encode and      *)
(* ndef-decode.  A byte is a number, a QByteArray a sequence of them, a    *)
(* QString a sequence of code points.  There is no state: the operators    *)
(* are used by SnepExchange.                                               *)
(***************************************************************************)
EXTENDS Integers, Sequences
LOCAL INSTANCE SequencesExt
LOCAL INSTANCE FiniteSetsExt

\* The table of createUriRecord and uriProtocol: byte strings, numbered from 1.
CONSTANT UriIdentifiers
ASSUME UriIdentifiersAssumption ==
  \A i \in 1..Len(UriIdentifiers) : Len(UriIdentifiers[i]) > 0

Byte == 0..255
First(data, n) == SubSeq(data, 1, IF n < Len(data) THEN n ELSE Len(data))
Rest(data, n) == SubSeq(data, n + 1, Len(data))

-----------------------------------------------------------------------------
(* Record types and records.                                               *)

Empty == 0          Rtd == 1          Mime == 2         Uri == 3
ExternalRtd == 4    Unknown == 5      Unchanged == 6    Invalid == 7

MB == 128    ME == 64    CF == 32    SR == 16    IL == 8
Has(byte, flag) == (byte \div flag) % 2 = 1

T == <<84>>    U == <<85>>    Sp == <<83, 112>>
Act == <<97, 99, 116>>    S == <<115>>    TypeName == <<116>>

\* checkConsistency, called by every setter: an empty record with a payload
\* becomes one of unknown type; an empty type has no name.
NDEFRecord(tnf, name, id, payload, chunked) ==
  [tnf |-> IF tnf = Empty /\ payload # <<>> THEN Unknown ELSE tnf,
   name |-> IF tnf = Empty THEN <<>> ELSE name,
   id |-> id, payload |-> payload, chunked |-> chunked]

isShort(record) == Len(record.payload) < 256

flags(record) == (IF isShort(record) THEN SR ELSE 0)
               + (IF record.id # <<>> THEN IL ELSE 0)
               + (IF record.chunked THEN CF ELSE 0)

BigEndian(n, bytes) == [i \in 1..bytes |-> (n \div 256^(bytes - i)) % 256]

\* The bytes of a record of a message; `place` holds MB and ME.
toByteArray(record, place) ==
  LET header == <<place + flags(record) + record.tnf>>
      count(data) == <<Len(data) % 256>>
      idLength == IF record.id # <<>> THEN count(record.id) ELSE <<>>
  IN CASE record.tnf = Empty ->
            header \o <<0, 0>> \o (IF record.id # <<>> THEN <<0>> ELSE <<>>)
       [] record.tnf \in {Rtd, Mime, Uri, ExternalRtd} ->
            header \o count(record.name)
            \o (IF isShort(record) THEN count(record.payload)
                ELSE BigEndian(Len(record.payload), 4))
            \o idLength \o record.name \o record.id \o record.payload
       [] record.tnf \in {Unknown, Unchanged} ->
            header \o <<0>> \o BigEndian(Len(record.payload), 4)
            \o idLength \o record.id \o record.payload
       [] record.tnf = Invalid -> <<>>

\* QDataStream gives zeros once the data is used up.
At(data, i) == IF i <= Len(data) THEN data[i] ELSE 0
Number32(data, i) ==
  IF i + 3 > Len(data) THEN 0
  ELSE ((data[i] * 256 + data[i + 1]) * 256 + data[i + 2]) * 256 + data[i + 3]

\* The record at the head of data; of type Invalid when it has no header.
fromByteArray(data) ==
  IF Len(data) <= 2 \/ At(data, 1) % 8 = Invalid
    THEN NDEFRecord(Invalid, <<>>, <<>>, <<>>, FALSE)
  ELSE
    LET short == Has(data[1], SR)
        hasId == Has(data[1], IL)
        lengths == IF short THEN 3 ELSE 6
        payloadLength == IF short THEN At(data, 3) ELSE Number32(data, 3)
        idLength == IF hasId THEN At(data, lengths + 1) ELSE 0
        nameAt == lengths + (IF hasId THEN 1 ELSE 0)
        idAt == nameAt + data[2]
    IN NDEFRecord(data[1] % 8, [i \in 1..data[2] |-> At(data, nameAt + i)],
                  First(Rest(data, idAt), idLength),
                  First(Rest(data, idAt + idLength), payloadLength),
                  Has(data[1], CF))

-----------------------------------------------------------------------------
(* Messages: sequences of records.                                         *)

messageToByteArray(records) ==
  FlattenSeq([i \in 1..Len(records) |->
    toByteArray(records[i], (IF i = 1 THEN MB ELSE 0)
                            + (IF i = Len(records) THEN ME ELSE 0))])

\* The reader drops from the data as many bytes as the record it has read
\* takes when written again.
messageFromByteArray(data) ==
  LET from[rest \in Seq(Byte)] ==
        LET record == fromByteArray(rest)
            taken == Len(toByteArray(record, 0))
        IN IF rest = <<>> \/ record.tnf = Invalid THEN <<>>
           ELSE <<record>> \o from[Rest(rest, taken)]
  IN from[data]

-----------------------------------------------------------------------------
(* The records the tools make.                                             *)

\* UTF-8, for the code points below 2048: a lead byte for those above 127
\* (-1 stands for none) and a last byte.
toUtf8(text) ==
  LET Lead(c) == IF c < 128 THEN -1 ELSE 192 + c \div 64
      LastOf(c) == IF c < 128 THEN c ELSE 128 + (c % 64)
      Present(byte) == byte >= 0
  IN SelectSeq([k \in 1..(2 * Len(text)) |->
                  IF k % 2 = 1 THEN Lead(text[(k + 1) \div 2])
                  ELSE LastOf(text[k \div 2])], Present)
fromUtf8(data) ==
  LET Begins(i) == data[i] < 128 \/ data[i] >= 192
      heads == SelectSeq([i \in 1..Len(data) |-> i], Begins)
  IN [k \in 1..Len(heads) |->
        IF data[heads[k]] < 128 THEN data[heads[k]]
        ELSE (data[heads[k]] % 32) * 64 + (data[heads[k] + 1] % 64)]

rtdRecord(name, payload) == NDEFRecord(Rtd, name, <<>>, payload, FALSE)

\* The codec is NDEF_UTF8 in every program.
createTextRecord(text, locale) ==
  LET kept == First(locale, 5)
  IN rtdRecord(T, <<Len(kept)>> \o kept \o toUtf8(text))
textLocale(payload) == First(Rest(payload, 1), payload[1] % 32)
textText(payload) == fromUtf8(Rest(payload, 1 + (payload[1] % 32)))

\* The longest identifier the uri starts with, the earlier one of equals.
createUriRecord(uri) ==
  LET starts == {i \in 1..Len(UriIdentifiers) : IsPrefix(UriIdentifiers[i], uri)}
      longest == {i \in starts : \A j \in starts :
                    Len(UriIdentifiers[j]) <= Len(UriIdentifiers[i])}
      identifier == IF starts = {} THEN 0 ELSE Min(longest)
      size == IF identifier = 0 THEN 0 ELSE Len(UriIdentifiers[identifier])
  IN rtdRecord(U, <<identifier>> \o toUtf8(Rest(uri, size)))
uriProtocol(payload) ==
  IF payload[1] \in 1..Len(UriIdentifiers) THEN UriIdentifiers[payload[1]] ELSE <<>>

createMimeRecord(type, payload) == NDEFRecord(Mime, type, <<>>, payload, FALSE)
createSpActionRecord(action) == rtdRecord(Act, <<action % 256>>)
createSpSizeRecord(size) == rtdRecord(S, BigEndian(size, 4))
createSpTypeRecord(type) == rtdRecord(TypeName, toUtf8(type))

\* Mutant: the poster's URI first.
createSmartPosterRecordFirst(uri, records) ==
  rtdRecord(Sp, messageToByteArray(<<createUriRecord(uri)>> \o records))

\* The records given, in their order, and the poster's URI last.
createSmartPosterRecord(uri, records) ==
  rtdRecord(Sp, messageToByteArray(Append(records, createUriRecord(uri))))

-----------------------------------------------------------------------------
(* ndef-encode: the options of a command line, one after another.          *)
(* `containers` is the stack of record lists, the message at the bottom;   *)
(* uri is current_sp_uri, of the poster opened last.                       *)

Option(kind, value, detail) == [kind |-> kind, value |-> value, detail |-> detail]

Started == [containers |-> <<<< >>>>, uri |-> <<>>, failed |-> FALSE]

AddTo(containers, record) ==
  Front(containers) \o <<Append(Last(containers), record)>>

recordOf(option) ==
  CASE option.kind = "-t" -> createTextRecord(option.value, option.detail)
    [] option.kind = "-u" -> createUriRecord(option.value)
    [] option.kind = "-m" -> createMimeRecord(option.value, option.detail)
    [] option.kind = "-sa" -> createSpActionRecord(option.value)
    [] option.kind = "-ss" -> createSpSizeRecord(option.value)
    [] option.kind = "-st" -> createSpTypeRecord(option.value)

takeOption(state, option) ==
  LET stack == state.containers
  IN CASE state.failed -> state
       [] option.kind = "-sp" ->
            [state EXCEPT !.containers = Append(stack, <<>>), !.uri = option.value]
       [] option.kind = "-s-" ->
            IF Len(stack) < 2 THEN [state EXCEPT !.failed = TRUE]
            ELSE [state EXCEPT !.containers =
                    AddTo(Front(stack), createSmartPosterRecord(state.uri, Last(stack)))]
       [] option.kind \in {"-sa", "-ss", "-st"} /\ Len(stack) < 2 ->
            [state EXCEPT !.failed = TRUE]
       [] OTHER -> [state EXCEPT !.containers = AddTo(stack, recordOf(option))]

\* What the tool writes; nothing when it gives up.
ndef_encode(options) ==
  LET final == FoldLeft(takeOption, Started, options)
  IN IF final.failed \/ Len(final.containers) > 1 \/ final.containers[1] = <<>>
     THEN <<>> ELSE messageToByteArray(final.containers[1])

-----------------------------------------------------------------------------
(* ndef-decode: what decodeNDEFMessage reports of a message, one entry per *)
(* record and one at the end of each nested message.  Actions, sizes and   *)
(* types are told apart only within a poster, where alone ndef-encode puts *)
(* them.                                                                   *)

reportOf(record) ==
  LET payload == record.payload
  IN CASE record.tnf # Rtd -> Option("-m", record.name, payload)
       [] record.name = T -> Option("-t", textText(payload), textLocale(payload))
       [] record.name = U -> Option("-u", uriProtocol(payload) \o Rest(payload, 1), <<>>)
       [] record.name = Act -> Option("-sa", payload[1], <<>>)
       [] record.name = S -> Option("-ss", Number32(payload, 1), <<>>)
       [] OTHER -> Option("-st", fromUtf8(payload), <<>>)

decodeNDEFMessage(data) ==
  LET report[nested \in Seq(Byte)] ==
        LET records == messageFromByteArray(nested)
        IN FlattenSeq([i \in 1..Len(records) |->
             IF records[i].tnf = Rtd /\ records[i].name = Sp
             THEN <<Option("-sp", <<>>, <<>>)>> \o report[records[i].payload]
                  \o <<Option("-s-", <<>>, <<>>)>>
             ELSE <<reportOf(records[i])>>])
  IN report[data]

-----------------------------------------------------------------------------
(* TLV blocks.                                                             *)

NullTlv == 0    Terminator == 254

tlvToByteArray(type, value) ==
  LET length == Len(value) % 65536
  IN IF type \in {NullTlv, Terminator} THEN <<type>>
     ELSE <<type>> \o (IF length <= 254 THEN <<length>>
                       ELSE <<255, length \div 256, length % 256>>) \o value

\* A byte of the array is a signed char: as a quint16 one above 127 becomes
\* a number above 65407.
tlvFromByteArray(data) ==
  LET from[rest \in Seq(Byte)] ==
        LET byte == rest[2]
            sign == IF byte > 127 THEN byte + 65280 ELSE byte
            long == sign > 254
            given == ~long \/ Len(rest) > 4
            length == IF ~long THEN sign
                      ELSE IF given THEN rest[3] * 256 + rest[4] ELSE 0
            header == IF long /\ given THEN 4 ELSE 2
        IN CASE rest = <<>> -> <<>>
             [] rest # <<>> /\ rest[1] = NullTlv -> from[Rest(rest, 1)]
             [] rest # <<>> /\ rest[1] = Terminator -> <<<<Terminator, <<>>>>>>
             [] rest # <<>> /\ rest[1] \notin {NullTlv, Terminator} ->
                  IF Len(rest) < 2 \/ Len(rest) - header < length THEN <<>>
                  ELSE <<<<rest[1], First(Rest(rest, header), length)>>>>
                       \o from[Rest(rest, header + length)]
  IN from[data]
=============================================================================
