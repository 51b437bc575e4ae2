------------------------- MODULE EscapeLinkProofs -------------------------
(***************************************************************************)
(* Theorems about the escape codec, for every set of words and every       *)
(* pattern of stalls.  What makes the codec work is that the two state     *)
(* machines move together (InStep) and that the words under way are at     *)
(* most one: the one on the inserter's input, or the one whose escape code *)
(* has gone out (OneWordUnderWay).                                         *)
(***************************************************************************)
EXTENDS EscapeLink, SequenceTheorems, TLAPS

InStep == det_state = IF ins_state = "IDLE" THEN "IDLE" ELSE "CHECK_ESCAPE"

(* What the detector is going to make of d_prev. *)
Halved == IF d_prev = Zero THEN <<EscapeCode, FALSE>> ELSE <<d_prev, TRUE>>

OneWordUnderWay ==
  owed = IF ins_state = "INSERT_ESCAPE" THEN <<Halved>>
         ELSE IF d_valid_i THEN <<<<d_i, d_escape_i>>>> ELSE <<>>

CodecInv == /\ TypeOK
            /\ <<d_i, d_escape_i>> \in Sent
            /\ d_valid_i => d_req_prev
            /\ InStep
            /\ OneWordUnderWay

-----------------------------------------------------------------------------
(* The detector's output in each state of the link: a word as it was sent, *)
(* nothing for an escape code, then the word the code stood before.        *)
LEMMA Decoding ==
  ASSUME CodecInv
  PROVE  /\ GotWord => owed = <<Got>>
         /\ ~GotWord => \/ owed = <<>>
                        \/ ins_state = "INSERT_ESCAPE" /\ ~d_req_prev
                        \/ /\ ins_state = "IDLE"
                           /\ Ins!Escaped(d_i, d_escape_i, d_valid_i)
<1> USE CodecAssumption DEF CodecInv, TypeOK
<1>1. CASE ins_state = "INSERT_ESCAPE"
  <2>1. /\ WireData = d_prev /\ WireValid = d_req_prev
        /\ det_state = "CHECK_ESCAPE"
    BY <1>1 DEF WireData, WireValid, Ins!d_o, Ins!d_valid_o, InStep
  <2>2. GotWord = d_req_prev /\ Got = Halved
    BY <2>1 DEF GotWord, Got, Halved, Det!d_valid_o, Det!is_escape_code,
                Det!d_o, Det!d_escape_o
  <2>3. QED BY <1>1, <2>2 DEF OneWordUnderWay
<1>2. CASE ins_state = "IDLE"
  <2>1. /\ WireData = IF d_escape_i THEN EscapeCode ELSE d_i
        /\ WireValid = d_valid_i /\ det_state = "IDLE"
    BY <1>2 DEF WireData, WireValid, Ins!d_o, Ins!d_valid_o, InStep
  <2>2. /\ GotWord = (d_valid_i /\ ~Ins!Escaped(d_i, d_escape_i, d_valid_i))
        /\ Got = <<WireData, FALSE>>
    BY <2>1 DEF GotWord, Got, Det!d_valid_o, Det!is_escape_code,
                Det!d_o, Det!d_escape_o, Ins!Escaped, Ins!match_esc_code
  <2>3. QED BY <1>2, <2>1, <2>2
              DEF OneWordUnderWay, Ins!Escaped, Ins!match_esc_code
<1>3. QED BY <1>1, <1>2

(* One clock edge. *)
LEMMA CodecStep ==
  ASSUME CodecInv, NEW req \in BOOLEAN, Cycle(req)
  PROVE  CodecInv'
<1> USE CodecAssumption DEF CodecInv, TypeOK
<1>1. /\ d_req_prev' = req
      /\ \/ Ins!Idle(d_i, d_escape_i, d_valid_i)
         \/ Ins!InsertEscape
  BY DEF Cycle, Ins!Edge
<1>2. /\ <<d_i, d_escape_i>>' \in Sent /\ d_valid_i' \in BOOLEAN
      /\ d_valid_i' => /\ req
                       /\ ~Ins!Escaped(d_i, d_escape_i, d_valid_i)
  BY DEF Cycle, Produce, Sent, Ins!d_req_o
<1>3. /\ ins_state' \in {"IDLE", "INSERT_ESCAPE"} /\ d_prev' \in Word
      /\ ins_state' = "INSERT_ESCAPE" <=>
           \/ /\ ins_state = "IDLE"
              /\ Ins!Escaped(d_i, d_escape_i, d_valid_i)
           \/ ins_state = "INSERT_ESCAPE" /\ ~d_req_prev
  BY <1>1 DEF Ins!Idle, Ins!InsertEscape, Ins!Escaped
<1>4. InStep' /\ det_state' \in {"IDLE", "CHECK_ESCAPE"}
  <2>1. det_state' = IF Det!is_escape_code(TRUE, WireData, WireValid)
                     THEN "CHECK_ESCAPE"
                     ELSE IF GotWord THEN "IDLE" ELSE det_state
    BY DEF Cycle, Det!Edge, GotWord
  <2>2. CASE ins_state = "INSERT_ESCAPE"
    BY <2>1, <2>2, <1>3 DEF InStep, GotWord, WireValid, Det!d_valid_o,
                            Det!is_escape_code, Ins!d_valid_o
  <2>3. CASE ins_state = "IDLE"
    BY <2>1, <2>3, <1>3 DEF InStep, GotWord, WireValid, WireData,
            Det!d_valid_o, Det!is_escape_code, Ins!d_valid_o, Ins!d_o,
            Ins!Escaped, Ins!match_esc_code
  <2>4. QED BY <2>2, <2>3
<1>5. OneWordUnderWay'
  <2> DEFINE left  == IF GotWord /\ owed # <<>> THEN Tail(owed) ELSE owed
             taken == d_valid_i' /\ ins_state' = "IDLE"
  <2>1. owed' = IF taken THEN Append(left, <<d_i', d_escape_i'>>) ELSE left
    BY DEF Cycle
  <2>2. CASE ins_state' = "IDLE"
    <3>1. ASSUME GotWord PROVE left = <<>>
      <4>1. owed = <<Got>>
        BY <3>1, Decoding
      <4>2. Tail(<<Got>>) = <<>> /\ <<Got>> # <<>>
        OBVIOUS
      <4>3. QED BY <3>1, <4>1, <4>2
    <3>2. ASSUME ~GotWord PROVE left = <<>>
      <4>1. owed = <<>>
        BY <3>2, <2>2, <1>3, Decoding
      <4>2. QED BY <3>2, <4>1
    <3>3. owed' = IF d_valid_i' THEN <<<<d_i', d_escape_i'>>>> ELSE <<>>
      <4> HIDE DEF left
      <4>1. left = <<>>
        BY <3>1, <3>2
      <4>2. Append(<<>>, <<d_i', d_escape_i'>>) = <<<<d_i', d_escape_i'>>>>
        OBVIOUS
      <4>3. QED BY <2>1, <2>2, <4>1, <4>2
    <3>4. QED BY <2>2, <3>3 DEF OneWordUnderWay
  <2>3. CASE ins_state' = "INSERT_ESCAPE" /\ ins_state = "IDLE"
    <3>1. Ins!Escaped(d_i, d_escape_i, d_valid_i)
      BY <2>3, <1>3
    <3>2. /\ owed = <<<<d_i, d_escape_i>>>>
          /\ d_prev' = IF d_escape_i THEN d_i ELSE Zero
      BY <2>3, <3>1, <1>1
         DEF OneWordUnderWay, Ins!Idle, Ins!InsertEscape, Ins!Escaped
    <3>3. ~GotWord
      BY <2>3, <3>1 DEF InStep, GotWord, WireValid, WireData,
            Det!d_valid_o, Det!is_escape_code, Ins!d_valid_o, Ins!d_o,
            Ins!Escaped, Ins!match_esc_code
    <3>4. <<d_i, d_escape_i>> = Halved'
      BY <3>1, <3>2 DEF Halved, Sent, Ins!Escaped, Ins!match_esc_code
    <3>5. QED BY <2>1, <2>3, <3>2, <3>3, <3>4 DEF OneWordUnderWay
  <2>4. CASE ins_state' = "INSERT_ESCAPE" /\ ins_state = "INSERT_ESCAPE"
    <3>1. ~d_req_prev /\ d_prev' = d_prev
      BY <2>4, <1>1, <1>3 DEF Ins!Idle, Ins!InsertEscape
    <3>2. ~GotWord
      BY <2>4, <3>1 DEF GotWord, WireValid, Det!d_valid_o, Ins!d_valid_o
    <3>3. owed = <<Halved>> /\ Halved' = Halved
      BY <2>4, <3>1 DEF OneWordUnderWay, Halved
    <3>4. QED BY <2>1, <2>4, <3>2, <3>3 DEF OneWordUnderWay
  <2>5. QED BY <2>2, <2>3, <2>4, <1>3
<1>6. d_valid_i' => d_req_prev'
  BY <1>1, <1>2
<1>7. owed' \in Seq(Sent) /\ Len(owed') <= 1
  <2>1. Halved' \in Sent
    BY <1>3 DEF Halved, Sent
  <2>2. QED BY <1>2, <1>5, <2>1 DEF OneWordUnderWay
<1>8. <<d_i, d_escape_i>>' \in Word \X BOOLEAN
  BY <1>2 DEF Sent
<1>9. QED BY <1>1, <1>2, <1>3, <1>4, <1>5, <1>6, <1>7, <1>8

(* The invariant: the state machines in step, one word under way. *)
THEOREM CodecInvariant == Spec => []CodecInv
<1>1. Init => CodecInv
  <2> SUFFICES ASSUME Init PROVE CodecInv
    OBVIOUS
  <2>1. /\ ins_state = "IDLE" /\ d_prev \in Word /\ d_req_prev = FALSE
        /\ det_state = "IDLE"
    BY DEF Init, Ins!Init, Det!Init
  <2>2. /\ d_i \in Word /\ d_escape_i = FALSE /\ d_valid_i = FALSE
        /\ owed = <<>>
    BY DEF Init
  <2>3. <<d_i, d_escape_i>> \in Sent
    BY <2>2 DEF Sent
  <2>4. owed \in Seq(Sent) /\ Len(owed) <= 1
    BY <2>2
  <2>5. QED BY <2>1, <2>2, <2>3, <2>4
              DEF CodecInv, TypeOK, InStep, OneWordUnderWay
<1>2. CodecInv /\ [Next]_vars => CodecInv'
  <2> SUFFICES ASSUME CodecInv, [Next]_vars PROVE CodecInv'
    OBVIOUS
  <2>1. CASE Next
    BY <2>1, CodecStep DEF Next
  <2>2. CASE UNCHANGED vars
    BY <2>2 DEF vars, producer, CodecInv, TypeOK, InStep, OneWordUnderWay,
                Halved
  <2>3. QED BY <2>1, <2>2
<1>3. QED BY <1>1, <1>2, PTL DEF Spec

(* Every signal of the codec keeps its type. *)
THEOREM CodecTypeCorrect == Spec => []TypeOK
<1>1. CodecInv => TypeOK
  BY DEF CodecInv
<1>2. QED BY <1>1, CodecInvariant, PTL

(* Whatever the stalls, the detector hands out the words the inserter took *)
(* in their order, each once, with its control mark                        *)
(* (gc_escape_inserter.vhd:13-20).                                         *)
THEOREM CodecDecodesInOrder == Spec => []DecodesInOrder
<1>1. CodecInv => DecodesInOrder
  <2> SUFFICES ASSUME CodecInv, GotWord
               PROVE  owed # <<>> /\ Head(owed) = Got
    BY DEF DecodesInOrder
  <2>1. QED BY Decoding
<1>2. QED BY <1>1, CodecInvariant, PTL

(* Whatever the stalls, a word reaches the fabric only in the cycle after  *)
(* one in which the fabric asked for it (gc_escape_inserter.vhd:80).       *)
THEOREM CodecOutputOnlyOnRequest == Spec => []OutputOnlyOnRequest
<1>1. CodecInv => OutputOnlyOnRequest
  BY DEF CodecInv, TypeOK, OutputOnlyOnRequest, WireValid, Ins!d_valid_o
<1>2. QED BY <1>1, CodecInvariant, PTL

-----------------------------------------------------------------------------
(* However the fabric stalls, a word the inserter asked for is lost only   *)
(* if the request was taken away between the two halves of an escape and   *)
(* has just come back, and then only that word                             *)
(* (gc_escape_inserter.vhd:103, 132-135).                                  *)
THEOREM CodecLosesOnlyAfterStall == Spec => LosesOnlyAfterStall
<1> DEFINE Excused == /\ ins_state = "INSERT_ESCAPE"
                      /\ ~d_req_prev /\ d_req_prev'
                      /\ ~Overrun
<1>1. CodecInv /\ [Next]_vars => [Overrun' => Excused]_vars
  <2> SUFFICES ASSUME CodecInv, NEW req \in BOOLEAN, Cycle(req), Overrun'
               PROVE  Excused
    BY DEF Next
  <2>1. d_req_prev' = req /\ req /\ ~Ins!Escaped(d_i, d_escape_i, d_valid_i)
    BY DEF Cycle, Ins!Edge, Produce, Ins!d_req_o, Overrun
  <2>2. ins_state = "INSERT_ESCAPE" /\ ~d_req_prev
    BY <2>1 DEF Overrun, Cycle, Ins!Edge, Ins!Idle, Ins!InsertEscape, CodecInv, TypeOK
  <2>3. ~Overrun
    BY <2>2 DEF CodecInv, Overrun
  <2>4. QED BY <2>1, <2>2, <2>3
<1>2. QED BY <1>1, CodecInvariant, PTL DEF Spec, LosesOnlyAfterStall
=============================================================================
