---------------------------- MODULE MCLlcAnyPeer ----------------------------
(***************************************************************************)
(* LlcAnyPeer for TLC.  Start = 15 puts the wrap of the sequence numbers   *)
(* between the first and the second PDU of either direction; the peer      *)
(* numbers its PDUs 15, 0, 1 in any order, with replays and gaps, and      *)
(* acknowledges 14, 15 or 0 whether or not that was sent.                  *)
(***************************************************************************)
EXTENDS LlcAnyPeer

MCPayload  == 1..4
MCOversize == {4}
MCWindow   == [e \in End |-> 1]
MCIncoming ==
    {Symm, Frmr}
    \cup [ptype : {"I"}, ns : {15, 0, 1}, nr : {15, 0}, info : {1, 4}]
    \cup [ptype : {"RR"}, ns : {0}, nr : {14, 15, 0}, info : {NoInfo}]
    \cup [ptype : {"RNR"}, ns : {0}, nr : {0}, info : {NoInfo}]
=============================================================================
