---------------------------- MODULE LlcpParameters ----------------------------
(***************************************************************************)
(* The parameters of a link: the TLV lists in which two devices announce   *)
(* them (llcp_parameters.c, llc_link_encode_parameters), what a device     *)
(* makes of the list it gets (llc_link_configure), and the agreement on a  *)
(* version (llcp_version_agreement).                                       *)
(*                                                                         *)
(* A list is a sequence of bytes.  Encoders that do not fit their buffer   *)
(* are left out: the callers' buffers hold every list made here.           *)
(***************************************************************************)
EXTENDS Integers, SequencesExt

VersionType == 1     \* LLCP_PARAMETER_VERSION and the others
MiuxType    == 2
WksType     == 3
LtoType     == 4
OptType     == 7

\* What llc_link_activate sets before it reads a list.  The LTO is kept in
\* milliseconds.
Defaults ==
  [version |-> [major |-> 1, minor |-> 1], remote_miu |-> 256,
   remote_wks |-> 1, remote_lto |-> 100, remote_lsc |-> 3]

UINT8_MAX  == 255
UINT16_MAX == 65535
MaxMiux    == 2047   \* 0x07FF
Byte       == 0 .. UINT8_MAX

ParamType ==
  [version : [major : 0 .. 15, minor : 0 .. 15],
   remote_miu : 128 .. 128 + MaxMiux, remote_wks : 0 .. UINT16_MAX,
   remote_lto : 0 .. 10 * UINT8_MAX, remote_lsc : 0 .. 3]

-------------------------------------------------------------------------------
(* Reading *)

\* The TLVs of a list, in order; the last is Broken if the list ends inside it.
\* A list of one byte is broken as well: the code's bound test wraps around,
\* but the next one fails whatever byte it finds behind the list.  No byte is
\* the type of Broken: a TLV of type 0 that holds nothing is not.
Broken == [type |-> -1, value |-> <<>>]

Tlvs(list) ==
  LET from[o \in 1 .. Len(list) + 1] ==
        CASE o = Len(list) + 1 -> <<>>
          [] o = Len(list) -> <<Broken>>
          [] OTHER ->
               LET end == o + 2 + list[o + 1] IN
               IF end > Len(list) + 1 THEN <<Broken>>
               ELSE <<[type |-> list[o], value |-> SubSeq(list, o + 2, end - 1)]>>
                      \o from[end]
  IN  from[1]

\* The values of the parameters, from the bytes that hold them.
Word(value) == 256 * value[1] + value[2]

parameter_decode_version(value) == [major |-> value[1] \div 16, minor |-> value[1] % 16]
parameter_decode_miux(value)    == Word(value) % (MaxMiux + 1)
parameter_decode_wks(value)     == Word(value) - (Word(value) % 2) + 1
parameter_decode_lto(value)     == value[1]
parameter_decode_opt(value)     == value[1]

\* The version both ends use: each end computes it from its own and the one it
\* has been told.  0 stands for no agreement.
Lower(m, n) == IF m <= n THEN m ELSE n

CanAgree(own, other) == other.major >= own.major \/ other.major >= 1

\* Mutant: each end keeps its own minor version.
AgreementOwn(own, other) == IF own.major > other.major THEN other ELSE own

llcp_version_agreement(own, other) ==
  CASE own.major = other.major -> [own EXCEPT !.minor = Lower(own.minor, other.minor)]
    [] own.major > other.major -> other
    [] OTHER -> own

\* The length each parameter must have; others are skipped whatever they hold.
ValueLength(type) ==
  CASE type \in {VersionType, LtoType, OptType} -> 1
    [] type \in {MiuxType, WksType} -> 2

Known == {VersionType, MiuxType, WksType, LtoType, OptType}

Refused(params, tlv) ==
  \/ tlv = Broken
  \/ tlv.type \in Known /\ Len(tlv.value) # ValueLength(tlv.type)
  \/ tlv.type = VersionType /\ ~CanAgree(params.version, parameter_decode_version(tlv.value))

Take(params, tlv) ==
  LET v == tlv.value IN
  CASE tlv.type = VersionType ->
         [params EXCEPT !.version = llcp_version_agreement(@, parameter_decode_version(v))]
    [] tlv.type = MiuxType -> [params EXCEPT !.remote_miu = 128 + parameter_decode_miux(v)]
    [] tlv.type = WksType  -> [params EXCEPT !.remote_wks = parameter_decode_wks(v)]
    [] tlv.type = LtoType  -> [params EXCEPT !.remote_lto = 10 * parameter_decode_lto(v)]
    [] tlv.type = OptType  -> [params EXCEPT !.remote_lsc = parameter_decode_opt(v) % 4]
    [] OTHER -> params

\* The loop of llc_link_configure: it stops at the first TLV it refuses, with
\* those before it taken.
ReadTlv(sofar, tlv) ==
  IF ~sofar.ok \/ Refused(sofar.params, tlv) THEN [sofar EXCEPT !.ok = FALSE]
  ELSE [sofar EXCEPT !.params = Take(@, tlv)]

ReadTlvs(params, tlvs) ==
  LET after[n \in 0 .. Len(tlvs)] ==
        IF n = 0 THEN [ok |-> TRUE, params |-> params]
        ELSE ReadTlv(after[n - 1], tlvs[n])
  IN  after[Len(tlvs)]

llc_link_configure(params, list) == ReadTlvs(params, Tlvs(list))

-------------------------------------------------------------------------------
(* Writing *)

\* The SAPs below 16 that have a service, as a bit mask; parameter_encode_wks
\* sets the lowest.
llc_link_get_wks(saps) ==
  LET wks[i \in 0 .. 16] ==
        IF i = 0 THEN 0 ELSE wks[i - 1] + IF i - 1 \in saps THEN 2 ^ (i - 1) ELSE 0
  IN  wks[16]

TwoBytes(w) == <<w \div 256, w % 256>>

parameter_encode_version(v) == <<VersionType, 1, 16 * v.major + v.minor>>
parameter_encode_miux(miux) == <<MiuxType, 2>> \o TwoBytes(miux)
parameter_encode_wks(wks)   == <<WksType, 2>> \o TwoBytes(wks - (wks % 2) + 1)
parameter_encode_lto(lto)   == <<LtoType, 1, lto>>
parameter_encode_opt(opt)   == <<OptType, 1, opt>>

\* local is [version, miu, saps, lto, opt] of the announcing device.
llc_link_encode_parameters(local) ==
  parameter_encode_version(local.version) \o parameter_encode_miux(local.miu)
    \o parameter_encode_wks(llc_link_get_wks(local.saps))
    \o parameter_encode_lto(local.lto \div 10) \o parameter_encode_opt(local.opt)
===============================================================================
