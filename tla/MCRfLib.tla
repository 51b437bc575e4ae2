------------------------------ MODULE MCRfLib ------------------------------
(* The instance of RfLib that TLC checks: two words for the AD9516, three  *)
(* for the ADF4002, of three bits each.                                    *)
EXTENDS RfLib

TwoRegs    == <<<<0, 1, 1>>, <<1, 0, 0>>>>
ThreeWords == <<<<0, 1, 0>>, <<1, 0, 0>>, <<1, 1, 0>>>>
=============================================================================
