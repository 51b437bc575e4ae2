---------------------------- MODULE MCTestLoop ----------------------------
(* The instance of TestLoop that TLC checks: three taps, so that the ring  *)
(* turns; coefficients that make the order of the samples and both limits  *)
(* show.                                                                   *)
EXTENDS TestLoop

MCCoefs == [i \in 0 .. 2 |-> CASE i = 0 -> 5 [] i = 1 -> -6 [] i = 2 -> 7]
MCInputs == -2 .. 1
=============================================================================
