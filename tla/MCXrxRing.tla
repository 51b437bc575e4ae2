----------------------------- MODULE MCXrxRing -----------------------------
(* The instances of XrxRing that TLC checks: data words of three fabric    *)
(* words, frames for this station that may be cut.                         *)
EXTENDS XrxRing

OnlyToUs  == {[dest |-> "local", src |-> "remote", type |-> "ethertype"]}
AllPhases == {"header", "start", "payload", "closing"}
=============================================================================
