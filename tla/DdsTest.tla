------------------------------ MODULE DdsTest ------------------------------
(***************************************************************************)
(* The stand-alone model of the synthesizer, c/dds-test.c: a phase         *)
(* accumulator, a table of half a sine wave with slopes, and the rounding  *)
(* of the output.  The widths are constants here.                          *)
(***************************************************************************)
EXTENDS Integers

CONSTANTS
  LUT_SIZE,   \* 1024
  FRAC,       \* 2^ACC_FRAC_BITS, 32 bits
  SLOPE_STEP, \* 2^(ACC_FRAC_BITS - SLOPE_BITS), 14 bits
  SLOPES,     \* 2^SLOPE_BITS, 18 bits
  SLOPE_ONE,  \* 2^(SLOPE_BITS + SLOPE_SHIFT), 25 bits
  delta,      \* dds_init computes it, and then overwrites it by 100000000000
  lut         \* what calc_lut computes

ACC_SIZE == 4 * (LUT_SIZE * FRAC)   \* 2^ACC_BITS

(* The table, and what the theorems need of the widths. *)
calc_lut == lut \in [0 .. LUT_SIZE - 1 -> [value : Int, slope : Int]]

Widths == /\ {LUT_SIZE, FRAC, SLOPE_STEP, SLOPES, SLOPE_ONE} \subseteq Nat \ {0}
          /\ delta \in Nat

VARIABLES acc, rv

vars == <<acc, rv>>

index(a) == (a \div FRAC) % LUT_SIZE
quad(a)  == (a \div (LUT_SIZE * FRAC)) % 2
frac(a)  == (a \div SLOPE_STEP) % SLOPES

sign(a) == IF quad(a) = 0 THEN 1 ELSE -1

(* The value between two entries. *)
Interpolated(a) ==
  LET e == lut[index(a)]
  IN  e.value + ((e.slope * frac(a)) \div SLOPE_ONE)

(* One bit is dropped, then six more; the bit looked at is the lowest of   *)
(* those kept, not the highest of those dropped (dither_bits - 1 = 6). *)
Rounded(v0) ==
  LET v  == v0 \div 2
      vb == (v \div 64) % 2
  IN  (v \div 64) + vb

Init == acc = 0 /\ rv = 0

dds_update ==
  /\ rv'  = Rounded(Interpolated(acc) * sign(acc))
  /\ acc' = (acc + delta) % ACC_SIZE

Spec == Init /\ [][dds_update]_vars
=============================================================================
