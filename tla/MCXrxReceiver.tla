--------------------------- MODULE MCXrxReceiver ---------------------------
(* The instance of XrxReceiver that TLC checks: a buffer of three words,   *)
(* data words of three fabric words, frames for this station, for another  *)
(* one and of another ethertype.                                           *)
EXTENDS XrxReceiver

ToUs      == [dest |-> "local", src |-> "remote", type |-> "ethertype"]
ToOther   == [ToUs EXCEPT !.dest = "other"]
OtherType == [ToUs EXCEPT !.type = "other"]

OursAndForeign == {ToUs, ToOther, OtherType}
QuietStates    == {"IDLE", "HEADER", "SUBFRAME_HEADER"}
=============================================================================
