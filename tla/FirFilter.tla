----------------------------- MODULE FirFilter -----------------------------
(***************************************************************************)
(* fir_load and fir_process of filters.c: the delay line is a ring, pos    *)
(* the place of the next input.  It implements SlidingWindow.              *)
(***************************************************************************)
EXTENDS Integers

CONSTANTS
  NTaps,    \* the numbers in the file
  Coefs,    \* those numbers, in units of 1 / Scale
  Scale,
  Inputs    \* the samples that may come

ASSUME FilterAssumption ==
  /\ NTaps \in Nat \ {0}
  /\ Coefs \in [0 .. NTaps - 1 -> Int]
  /\ Scale \in Nat \ {0}
  /\ 0 \in Inputs /\ Inputs \subseteq Int

VARIABLES delay, pos, acc

firVars == <<delay, pos, acc>>

(* Faulty: the window starts at the sample that has just left it. *)
IdxOneBehind(p, i) ==
  LET idx == p - NTaps + i
  IN  IF idx < 0 THEN idx + NTaps
      ELSE IF idx >= NTaps THEN idx - NTaps ELSE idx

(* The sample that meets coefficient i: pos - n_taps + 1 + i, brought into *)
(* the ring. *)
Idx(p, i) ==
  LET idx == p - NTaps + 1 + i
  IN  IF idx < 0 THEN idx + NTaps
      ELSE IF idx >= NTaps THEN idx - NTaps ELSE idx

Ring(d, p) == [i \in 0 .. NTaps - 1 |-> d[Idx(p, i)]]

(* The samples that the next input will find, the oldest first: the one at *)
(* pos is the next to go.                                                  *)
Before(p) == IF p = 0 THEN NTaps - 1 ELSE p - 1

Window == INSTANCE SlidingWindow
            WITH window <- Ring(delay, Before(pos)), out <- acc

fir_load ==
  /\ delay = [i \in Window!Taps |-> 0]
  /\ pos = 0
  /\ acc = 0

NextPos(p) == IF p + 1 = NTaps THEN 0 ELSE p + 1

fir_process(x) ==
  /\ delay' = [delay EXCEPT ![pos] = x]
  /\ acc' = Window!Response(Ring(delay', pos))
  /\ pos' = NextPos(pos)

FirNext == \E x \in Inputs : fir_process(x)
FirSpec == fir_load /\ [][FirNext]_firVars

FirTypeOK == /\ delay \in [Window!Taps -> Inputs]
             /\ pos \in Window!Taps

(* The filter is the sliding window, for every number of taps, from the    *)
(* zeros of fir_load on and across every turn of the ring (filters.c:      *)
(* 52-68). *)
ImplementsWindow == Window!Spec
=============================================================================
