----------------------------- MODULE MCDdsLink -----------------------------
(* The instances of DdsLink that TLC checks. *)
EXTENDS DdsLink
=============================================================================
