-------------------------- MODULE EscapeInserter --------------------------
(***************************************************************************)
(* rtl/streamers/gc_escape_inserter.vhd: turns a stream of words, some     *)
(* marked as control words, into a stream of plain words.  The outputs are *)
(* combinational, so they are operators of the inputs of the cycle; Edge   *)
(* is p_fsm at a rising clock edge.                                        *)
(***************************************************************************)
CONSTANTS EscapeCode,  \* g_escape_code
          Zero         \* the word x"0000"

VARIABLES state,       \* "IDLE" or "INSERT_ESCAPE"
          d_prev,      \* the word owed after an escape code
          d_req_prev   \* d_req_i of the previous cycle

vars == <<state, d_prev, d_req_prev>>

match_esc_code(d) == d = EscapeCode

(* A word that takes two words on the output. *)
Escaped(d, escape, valid) == valid /\ (escape \/ match_esc_code(d))

(* Variants marked "Faulty" are wrong on purpose: they take the place of   *)
(* the definition below them to see that a property notices.               *)

(* Faulty: the producer may go on while an escape code goes out. *)
d_req_o_ungated(d, escape, valid, req) == req

d_req_o(d, escape, valid, req) == req /\ ~Escaped(d, escape, valid)

d_o(d, escape) == IF state = "INSERT_ESCAPE" THEN d_prev
                  ELSE IF escape THEN EscapeCode ELSE d

(* Faulty: the word behind an escape code is never shown as valid. *)
d_valid_o_first_half(valid) == state = "IDLE" /\ valid

d_valid_o(valid) == IF state = "IDLE" THEN valid ELSE d_req_prev

Disabled == state' = "IDLE" /\ d_req_prev' = FALSE /\ UNCHANGED d_prev

(* Faulty: a data word is escaped like a control word. *)
IdleKeepsWord(d, escape, valid) ==
  /\ state = "IDLE"
  /\ state' = IF Escaped(d, escape, valid) THEN "INSERT_ESCAPE" ELSE state
  /\ d_prev' = IF Escaped(d, escape, valid) THEN d ELSE d_prev

Idle(d, escape, valid) ==
  /\ state = "IDLE"
  /\ state' = IF Escaped(d, escape, valid) THEN "INSERT_ESCAPE" ELSE state
  /\ d_prev' = IF ~Escaped(d, escape, valid) THEN d_prev
               ELSE IF escape THEN d ELSE Zero

InsertEscape ==
  /\ state = "INSERT_ESCAPE"
  /\ state' = IF d_req_prev THEN "IDLE" ELSE state
  /\ UNCHANGED d_prev

(* Faulty: a request is not looked for again while an escape waits. *)
EdgeMissesRequest(d, escape, valid, enable, req) ==
  \/ ~enable /\ Disabled
  \/ /\ enable
     /\ d_req_prev' = (req /\ (state = "IDLE" \/ d_req_prev))
     /\ Idle(d, escape, valid) \/ InsertEscape

Edge(d, escape, valid, enable, req) ==
  \/ ~enable /\ Disabled
  \/ /\ enable
     /\ d_req_prev' = req
     /\ Idle(d, escape, valid) \/ InsertEscape

(* p_fsm gives d_prev no value before the first escaped word. *)
Init(Words) == /\ state = "IDLE"
               /\ d_prev \in Words
               /\ d_req_prev = FALSE
=============================================================================
