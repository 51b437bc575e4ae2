-------------------------- MODULE EscapeDetector --------------------------
(***************************************************************************)
(* rtl/streamers/gc_escape_detector.vhd: the inverse of EscapeInserter at  *)
(* the receiving end.  The outputs are operators of the inputs of the      *)
(* cycle; Edge is p_fsm at a rising clock edge.                            *)
(***************************************************************************)
CONSTANTS EscapeCode,  \* g_escape_code
          Zero         \* the word x"0000"

VARIABLE state         \* "IDLE" or "CHECK_ESCAPE"

is_escape_code(enable, d, valid) ==
  enable /\ state = "IDLE" /\ valid /\ d = EscapeCode

d_o(d) == IF state = "CHECK_ESCAPE" /\ d = Zero THEN EscapeCode ELSE d

d_valid_o(enable, d, valid) == valid /\ ~is_escape_code(enable, d, valid)

(* Not qualified by the valid input: it may be up while d_valid_o is down. *)
d_escape_o(d) == state = "CHECK_ESCAPE" /\ d # Zero

Edge(enable, d, valid) ==
  state' = IF ~enable THEN "IDLE"
           ELSE IF is_escape_code(enable, d, valid) THEN "CHECK_ESCAPE"
           ELSE IF d_valid_o(enable, d, valid) THEN "IDLE" ELSE state

Init == state = "IDLE"
=============================================================================
