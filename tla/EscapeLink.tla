---------------------------- MODULE EscapeLink ----------------------------
(***************************************************************************)
(* The escape codec end to end: a producer that keeps to the inserter's    *)
(* request signal, the inserter, a fabric that may stall it, and the       *)
(* detector.  This is the data path of a streamer frame once escaping is   *)
(* enabled; delays between the two ends keep the order of the words and    *)
(* are left out.  A step is one clock edge.                                *)
(***************************************************************************)
EXTENDS Naturals, Sequences

CONSTANTS Word,        \* the 16-bit words
          EscapeCode,  \* x"cafe"
          Zero,        \* x"0000"
          Stalls       \* whether the fabric ever takes its request away

ASSUME CodecAssumption == /\ {EscapeCode, Zero} \subseteq Word
                          /\ EscapeCode # Zero
                          /\ Stalls \in BOOLEAN

VARIABLES d_i, d_escape_i, d_valid_i,       \* what the producer registered
          ins_state, d_prev, d_req_prev,    \* the inserter
          det_state,                        \* the detector
          owed   \* history: words taken by the inserter, not yet detected

producer == <<d_i, d_escape_i, d_valid_i>>
vars == <<producer, ins_state, d_prev, d_req_prev, det_state, owed>>

Ins == INSTANCE EscapeInserter WITH state <- ins_state
Det == INSTANCE EscapeDetector WITH state <- det_state

(* The words the streamer sends: "when E == 1, D must not be 0". *)
Sent == {w \in Word \X BOOLEAN : w[2] => w[1] # Zero}

(* The wire, and what the detector makes of it in the same cycle. *)
WireData  == Ins!d_o(d_i, d_escape_i)
WireValid == Ins!d_valid_o(d_valid_i)
GotWord   == Det!d_valid_o(TRUE, WireData, WireValid)
Got       == <<Det!d_o(WireData), Det!d_escape_o(WireData)>>

(* The inserter looks at its input in IDLE only: a word that arrives while *)
(* it is inserting is gone.                                                *)
Overrun == d_valid_i /\ ins_state = "INSERT_ESCAPE"

(* The producer, as p_fsm of xtx_streamer.vhd: a word may follow in the    *)
(* next cycle only if the request is up in this one.                       *)
Produce(req) ==
  \/ /\ Ins!d_req_o(d_i, d_escape_i, d_valid_i, req)
     /\ d_valid_i' = TRUE
     /\ \E w \in Sent : d_i' = w[1] /\ d_escape_i' = w[2]
  \/ d_valid_i' = FALSE /\ UNCHANGED <<d_i, d_escape_i>>

Cycle(req) ==
  /\ ~req => Stalls
  /\ Produce(req)
  /\ Ins!Edge(d_i, d_escape_i, d_valid_i, TRUE, req)
  /\ Det!Edge(TRUE, WireData, WireValid)
  /\ LET left == IF GotWord /\ owed # <<>> THEN Tail(owed) ELSE owed
         taken == d_valid_i' /\ ins_state' = "IDLE"
     IN  owed' = IF taken THEN Append(left, <<d_i', d_escape_i'>>) ELSE left

Init == /\ d_i \in Word /\ d_escape_i = FALSE /\ d_valid_i = FALSE
        /\ Ins!Init(Word)
        /\ Det!Init
        /\ owed = <<>>

Next == \E req \in BOOLEAN : Cycle(req)

Spec == Init /\ [][Next]_vars

(* The clock runs, and the fabric does not stall for ever. *)
FairSpec == Spec /\ WF_vars(Next) /\ SF_vars(Cycle(TRUE))

-----------------------------------------------------------------------------
TypeOK == /\ <<d_i, d_escape_i>> \in Word \X BOOLEAN
          /\ d_valid_i \in BOOLEAN
          /\ ins_state \in {"IDLE", "INSERT_ESCAPE"}
          /\ d_prev \in Word
          /\ d_req_prev \in BOOLEAN
          /\ det_state \in {"IDLE", "CHECK_ESCAPE"}
          /\ owed \in Seq(Sent) /\ Len(owed) <= 1

(* The detector hands out the words the inserter took, in order, each      *)
(* once, with its control mark: a data word that looks like the escape     *)
(* code, or a control word equal to it, is never misread                   *)
(* (gc_escape_inserter.vhd:13-20).                                         *)
DecodesInOrder == GotWord => owed # <<>> /\ Head(owed) = Got

(* The inserter never shows the fabric a word in a cycle after one in      *)
(* which the fabric asked for none (gc_escape_inserter.vhd:80).            *)
OutputOnlyOnRequest == WireValid => d_req_prev

(* When a word the inserter asked for is lost: only if the fabric took its *)
(* request away between the two halves of an escape and has made it again  *)
(* just now.  d_req_o then passes the request on while the second half     *)
(* still waits, and the word of the next cycle meets a busy inserter; the  *)
(* one after it does not (gc_escape_inserter.vhd:103, 132-135).            *)
LosesOnlyAfterStall ==
  [][Overrun' => /\ ins_state = "INSERT_ESCAPE"
                 /\ ~d_req_prev /\ d_req_prev'
                 /\ ~Overrun]_vars

(* Every word the inserter took reaches the other side, even when the      *)
(* fabric stalls between the two halves of an escape.                      *)
EveryWordArrives == owed # <<>> ~> GotWord
=============================================================================
