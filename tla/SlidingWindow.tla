--------------------------- MODULE SlidingWindow ---------------------------
(* What a FIR filter promises: its output is the weighted sum of the last  *)
(* NTaps inputs, the oldest with the first coefficient, zeros before the   *)
(* first input.                                                            *)
EXTENDS Integers

CONSTANTS NTaps, Coefs, Scale, Inputs

Taps == 0 .. NTaps - 1

VARIABLES window, out

(* C's division and its conversion to int: towards zero. *)
Quot(a, b) == IF a >= 0 THEN a \div b ELSE -((-a) \div b)

Response(w) ==
  LET sum[n \in 0 .. NTaps] ==
        IF n = 0 THEN 0 ELSE sum[n - 1] + Coefs[n - 1] * w[n - 1]
  IN  Quot(sum[NTaps], Scale)

Slid(w, x) == [i \in Taps |-> IF i = NTaps - 1 THEN x ELSE w[i + 1]]

Input(x) ==
  /\ window' = Slid(window, x)
  /\ out' = Response(window')

Init == window = [i \in Taps |-> 0] /\ out = 0
Next == \E x \in Inputs : Input(x)
Spec == Init /\ [][Next]_<<window, out>>
=============================================================================
