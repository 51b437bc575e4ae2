----------------------------- MODULE Timestamps -----------------------------
(***************************************************************************)
(* White Rabbit time stamps and the two pipelines that compute with them:  *)
(* rtl/timestamp_adder.vhd and rtl/timestamp_compare.vhd, stage by stage,  *)
(* each stage a function of the registers before it.  The fractions are    *)
(* left out: no instance connects them, and they default to zero.          *)
(***************************************************************************)
EXTENDS Integers

CONSTANTS Rate,        \* g_ref_clk_rate, the cycles of a second
          TaiSize,     \* 2^g_tai_bits
          CyclesSize   \* 2^g_cycles_bits

ASSUME TimeAssumption ==
  /\ {Rate, TaiSize, CyclesSize} \subseteq Nat \ {0}
  /\ 2 * Rate <= CyclesSize     \* a count of cycles is a positive signed

Timestamp == [tai : 0 .. TaiSize - 1, cycles : 0 .. CyclesSize - 1]
Normal    == [tai : 0 .. TaiSize - 1, cycles : 0 .. Rate - 1]

Stamp(tai, cycles) == [tai |-> tai, cycles |-> cycles]

(* The time stamp of cycle n. *)
StampOf(n) == Stamp((n \div Rate) % TaiSize, n % Rate)

-----------------------------------------------------------------------------
(* timestamp_adder *)

Signed(c) == IF 2 * c >= CyclesSize THEN c - CyclesSize ELSE c

(* p_stage0, and p_stage1 with no fraction to carry: field by field. *)
FieldSum(a, b) == [utc    |-> (a.tai + b.tai) % TaiSize,
                   coarse |-> Signed(a.cycles) + Signed(b.cycles)]

(* Faulty, to see that a property notices: a second has a cycle more. *)
CarryLate(s) == IF s.coarse < 0 THEN -1
                ELSE IF s.coarse > 2 * Rate THEN 2
                ELSE IF s.coarse > Rate THEN 1 ELSE 0

(* unf_coarse and ovf_coarse of p_stage2, as the seconds to carry. *)
Carry(s) == IF s.coarse < 0 THEN -1
            ELSE IF s.coarse >= 2 * Rate THEN 2
            ELSE IF s.coarse >= Rate THEN 1 ELSE 0

(* p_stage3, and the clipping of its result. *)
Normalise(s, carry) == Stamp((s.utc + carry) % TaiSize,
                             (s.coarse - carry * Rate) % CyclesSize)

-----------------------------------------------------------------------------
(* timestamp_compare *)

(* p_stage1 *)
FieldCompare(a, b) == [tai_less     |-> a.tai < b.tai,
                       tai_equal    |-> a.tai = b.tai,
                       cycles_less  |-> a.cycles < b.cycles,
                       cycles_equal |-> a.cycles = b.cycles]
Comparison == [tai_less : BOOLEAN, tai_equal : BOOLEAN,
               cycles_less : BOOLEAN, cycles_equal : BOOLEAN]

(* equal_o and a_great_o of p_stage2 *)
Equal(c) == c.tai_equal /\ c.cycles_equal

(* Faulty, to see that a property notices: a_less_o instead. *)
GreatIsLess(c) == c.tai_less \/ (c.tai_equal /\ c.cycles_less)

Great(c) == \/ ~(c.tai_equal \/ c.tai_less)
            \/ c.tai_equal /\ ~(c.cycles_less \/ c.cycles_equal)
=============================================================================
