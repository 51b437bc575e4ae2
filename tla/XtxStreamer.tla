---------------------------- MODULE XtxStreamer ----------------------------
(***************************************************************************)
(* rtl/streamers/xtx_streamer.vhd: the user's data words go through a      *)
(* buffer and leave in frames, cut in subframes, over the escape inserter  *)
(* to the fabric.  A step is one rising edge of clk_sys_i.                 *)
(*                                                                         *)
(* Outside src/ and modelled from its use: the buffer (generic_sync_fifo,  *)
(* show-ahead), the CRC generator (its value is how many words it covers)  *)
(* and the fabric, which takes every valid word and may stall.             *)
(***************************************************************************)
EXTENDS Naturals, Sequences, FiniteSets, StreamerFrame

CONSTANTS Threshold,       \* g_tx_threshold
          MaxWords,        \* g_tx_max_words_per_frame
          Timeout,         \* g_tx_timeout
          TimerSize,       \* 2^12, where timeout_counter wraps
          CountSize,       \* 2^8, where count wraps
          FrameCountSize,  \* 2^6, where buf_frame_count wraps
          SeqSize,         \* 2^15, where seq_no wraps
          Requests,        \* inputs the user pulses: "flush", "reset_seq"
          Entry,           \* data words of the user, with tx_last_i: the
                           \* subwords equal to the escape code in each
          StallStates,     \* where the fabric may stall: states of p_fsm
          StallsEscapes    \* and whether it may stall an escape code

ASSUME TxAssumption ==
  /\ {Threshold, MaxWords, TimerSize, CountSize, FrameCountSize, SeqSize}
       \subseteq Nat \ {0}
  /\ HeaderWords <= CountSize
  /\ Timeout \in 0 .. TimerSize - 1
  /\ Entry \subseteq [last : BOOLEAN, cafe : SUBSET (0 .. Subwords - 1)]
  /\ Requests \subseteq {"flush", "reset_seq"}

States == {"IDLE", "SOF", "ETH_HEADER", "SUBFRAME_HEADER", "PAYLOAD",
           "CRC_WORD", "PADDING", "EOF"}

VARIABLES
  fifo,                                    \* U_TX_Buffer
  buf_frame_count, timeout_counter, tx_timeout_hit, tx_flush_latched,
  state, fsm_out, fsm_escape, fsm_escape_enable,
  count, ser_count, seq_no, total_words,
  crc_en, crc_reset, crc,
  reset_dly,
  ins_state, d_prev, d_req_prev,           \* U_Insert_Escape
  (* The user and the observer, not part of the design. *)
  may_write,     \* tx_dreq_o of the last cycle
  asked,         \* whether the fabric asked for a word in the last cycle
  open,          \* words of the user's unfinished block
  det_state,     \* an escape detector on the wire
  inflight,      \* subwords taken from the buffer, not yet on the wire
  frame          \* where the wire is in a frame

bufferVars == <<fifo, buf_frame_count>>
timerVars  == <<timeout_counter, tx_timeout_hit, tx_flush_latched>>
fsmVars    == <<state, fsm_out, fsm_escape, fsm_escape_enable, count,
                ser_count, seq_no, crc_en, crc_reset>>
insVars    == <<ins_state, d_prev, d_req_prev>>
userVars   == <<may_write, open, asked>>
wireVars   == <<det_state, inflight, frame>>
vars == <<bufferVars, timerVars, fsmVars, total_words, crc, reset_dly,
          insVars, userVars, wireVars>>

Ins == INSTANCE EscapeInserter WITH state <- ins_state
Det == INSTANCE EscapeDetector WITH state <- det_state

-----------------------------------------------------------------------------
(* Variants marked "Faulty" are wrong on purpose: they take the place of   *)
(* the definition below them to see that a property notices.               *)

(* The buffer, and the words in it. *)
Subword(e, i) == IF i \in e.cafe THEN EscapeCode ELSE DataWord(i)

tx_fifo_empty   == fifo = <<>>
tx_fifo_full    == Len(fifo) = 2 * Threshold
tx_almost_empty == Len(fifo) < Threshold
(* Faulty: no margin. *)
AlmostFullLate == tx_fifo_full

tx_almost_full  == Len(fifo) >= 2 * Threshold - 2
tx_fifo_last    == ~tx_fifo_empty /\ Head(fifo).last

tx_threshold_hit == ~tx_almost_empty /\ buf_frame_count # 0
tx_dreq_o        == ~tx_almost_full /\ reset_dly

last_subword == ser_count = Subwords - 1

(* p_comb_fx_fifo_read; dreq is fsm_out.dreq. *)
tx_fifo_rd(dreq) == state = "PAYLOAD" /\ last_subword /\ dreq /\ ~tx_fifo_empty

(* Faulty: the request of the fabric is not passed on. *)
DreqUnlinked(req) == ~Ins!Escaped(fsm_out.data, fsm_escape, fsm_out.dvalid)

(* The request of the inserter to p_fsm, given the fabric's. *)
Dreq(req) == Ins!d_req_o(fsm_out.data, fsm_escape, fsm_out.dvalid, req)

(* tx_fifo_we and U_TX_Buffer; `word` is what the user writes, as a        *)
(* sequence of at most one entry.                                          *)
Written(word) == IF tx_fifo_full THEN <<>> ELSE word

Buffer(dreq, word) ==
  fifo' = (IF tx_fifo_rd(dreq) THEN Tail(fifo) ELSE fifo) \o Written(word)

(* Faulty: a block that ends while another starts to leave counts twice. *)
FrameCounterInFirst(dreq, word) ==
  LET in  == Written(word) # <<>> /\ Head(word).last
      out == tx_fifo_rd(dreq) /\ tx_fifo_last
  IN  buf_frame_count' =
        IF in THEN (buf_frame_count + 1) % FrameCountSize
        ELSE IF out THEN (buf_frame_count + FrameCountSize - 1) % FrameCountSize
        ELSE buf_frame_count

(* p_frame_counter: a last word written and none read, or the reverse. *)
FrameCounter(dreq, word) ==
  LET in  == Written(word) # <<>> /\ Head(word).last
      out == tx_fifo_rd(dreq) /\ tx_fifo_last
  IN  buf_frame_count' =
        IF in /\ ~out THEN (buf_frame_count + 1) % FrameCountSize
        ELSE IF out /\ ~in THEN (buf_frame_count + FrameCountSize - 1) % FrameCountSize
        ELSE buf_frame_count

(* Faulty: a counter wider than its type. *)
TxTimeoutUnwrapped ==
  /\ timeout_counter' = IF ~tx_fifo_empty /\ ~tx_threshold_hit
                        THEN timeout_counter + 1 ELSE 0
  /\ tx_timeout_hit' = (timeout_counter = Timeout)

(* p_tx_timeout: the hit lasts one cycle, and comes back only when the     *)
(* counter has wrapped.                                                    *)
TxTimeout ==
  /\ timeout_counter' = IF ~tx_fifo_empty /\ ~tx_threshold_hit
                        THEN (timeout_counter + 1) % TimerSize ELSE 0
  /\ tx_timeout_hit' = (timeout_counter = Timeout)

(* Faulty: the timeout is not latched. *)
LatchFlushOnly(flush) == tx_flush_latched' = (state = "IDLE" /\ flush)

(* p_latch_tx_flush *)
LatchTxFlush(flush) ==
  tx_flush_latched' = (state = "IDLE" /\ (flush \/ tx_timeout_hit))

-----------------------------------------------------------------------------
(* p_fsm, one action per state.  Where the code drives data with 'X' the   *)
(* word is not valid and nothing looks at it: Zero stands for it.          *)
NoWord  == [sof |-> FALSE, eof |-> FALSE, dvalid |-> FALSE, data |-> Zero]
Word(w) == [NoWord EXCEPT !.dvalid = TRUE, !.data = w]

(* seq_no, where the state of p_fsm does not overrule tx_reset_seq_i. *)
SeqReset(reset_seq) == seq_no' = IF reset_seq THEN 0 ELSE seq_no

Idle(dreq, flush, reset_seq) ==
  /\ state = "IDLE"
  /\ crc_en' = FALSE /\ crc_reset' = FALSE
  /\ fsm_escape' = FALSE /\ fsm_escape_enable' = FALSE
  /\ LET start == dreq /\ (tx_flush_latched \/ flush \/ tx_threshold_hit)
     IN  /\ state' = IF start THEN "SOF" ELSE state
         /\ fsm_out' = [fsm_out EXCEPT !.eof = FALSE, !.sof = start]
  /\ SeqReset(reset_seq)
  /\ UNCHANGED <<count, ser_count>>

Sof(reset_seq) ==
  /\ state = "SOF"
  /\ state' = "ETH_HEADER"
  /\ fsm_out' = [fsm_out EXCEPT !.sof = FALSE]
  /\ ser_count' = 0 /\ count' = 0
  /\ SeqReset(reset_seq)
  /\ UNCHANGED <<fsm_escape, fsm_escape_enable, crc_en, crc_reset>>

EthHeader(dreq, reset_seq) ==
  /\ state = "ETH_HEADER"
  /\ \/ /\ dreq
        /\ fsm_out' = Word(HeadWord)
        /\ count' = IF count = HeaderWords - 1 THEN 0 ELSE count + 1
        /\ state' = IF count = HeaderWords - 1
                    THEN "SUBFRAME_HEADER" ELSE state
     \/ /\ ~dreq
        /\ fsm_out' = [fsm_out EXCEPT !.dvalid = FALSE]
        /\ UNCHANGED <<state, count>>
  /\ SeqReset(reset_seq)
  /\ UNCHANGED <<ser_count, fsm_escape, fsm_escape_enable, crc_en, crc_reset>>

(* The increment is the later assignment: it overrules tx_reset_seq_i. *)
SubframeHeader(dreq, reset_seq) ==
  /\ state = "SUBFRAME_HEADER"
  /\ crc_en' = TRUE /\ crc_reset' = FALSE
  /\ \/ /\ dreq
        /\ fsm_out' = Word(SeqWord(seq_no))
        /\ fsm_escape' = TRUE /\ fsm_escape_enable' = TRUE
        /\ seq_no' = (seq_no + 1) % SeqSize
        /\ state' = "PAYLOAD"
     \/ /\ ~dreq
        /\ fsm_out' = NoWord
        /\ SeqReset(reset_seq)
        /\ UNCHANGED <<state, fsm_escape, fsm_escape_enable>>
  /\ UNCHANGED <<count, ser_count>>

Payload(dreq, reset_seq) ==
  /\ state = "PAYLOAD"
  /\ fsm_escape' = FALSE
  /\ \/ /\ dreq
        /\ state' = IF tx_fifo_empty \/ (last_subword /\ tx_fifo_last)
                    THEN "CRC_WORD" ELSE state
        /\ ser_count' = IF last_subword THEN 0 ELSE ser_count + 1
        /\ count' = IF last_subword THEN (count + 1) % CountSize ELSE count
        /\ fsm_out' = IF tx_fifo_empty THEN NoWord
                      ELSE Word(Subword(Head(fifo), ser_count))
     \/ /\ ~dreq
        /\ fsm_out' = NoWord
        /\ UNCHANGED <<state, ser_count, count>>
  /\ SeqReset(reset_seq)
  /\ UNCHANGED <<fsm_escape_enable, crc_en, crc_reset>>

(* crc_value: not registered, so it covers the word of this cycle too. *)
crc_value == IF crc_en /\ fsm_out.dvalid THEN crc + 1 ELSE crc

(* Without dreq the state leaves fsm_out as it is, dvalid included. *)
CrcState(dreq, reset_seq) ==
  /\ state = "CRC_WORD"
  /\ crc_en' = FALSE
  /\ ser_count' = 0
  /\ \/ /\ dreq
        /\ \E w \in {CrcWord(crc_value), EscapeCode} : fsm_out' = Word(w)
        /\ crc_reset' = TRUE
        /\ state' = IF tx_fifo_empty \/ count >= MaxWords
                    THEN "PADDING" ELSE "SUBFRAME_HEADER"
     \/ /\ ~dreq
        /\ UNCHANGED <<fsm_out, crc_reset, state>>
  /\ SeqReset(reset_seq)
  /\ UNCHANGED <<fsm_escape, fsm_escape_enable, count>>

Padding(dreq, reset_seq) ==
  /\ state = "PADDING"
  /\ \/ /\ dreq
        /\ fsm_escape' = TRUE
        /\ fsm_out' = Word(PadWord)
        /\ state' = IF total_words >= MinWords THEN "EOF" ELSE state
     \/ /\ ~dreq
        /\ fsm_out' = NoWord
        /\ UNCHANGED <<fsm_escape, state>>
  /\ SeqReset(reset_seq)
  /\ UNCHANGED <<fsm_escape_enable, count, ser_count, crc_en, crc_reset>>

Eof(dreq, reset_seq) ==
  /\ state = "EOF"
  /\ fsm_out' = [fsm_out EXCEPT !.dvalid = FALSE, !.eof = dreq]
  /\ state' = IF dreq THEN "IDLE" ELSE state
  /\ SeqReset(reset_seq)
  /\ UNCHANGED <<fsm_escape, fsm_escape_enable, count, ser_count, crc_en,
                 crc_reset>>

Fsm(dreq, flush, reset_seq) ==
  \/ Idle(dreq, flush, reset_seq)
  \/ Sof(reset_seq)
  \/ EthHeader(dreq, reset_seq)
  \/ SubframeHeader(dreq, reset_seq)
  \/ Payload(dreq, reset_seq)
  \/ CrcState(dreq, reset_seq)
  \/ Padding(dreq, reset_seq)
  \/ Eof(dreq, reset_seq)

(* p_count_words; the count is only compared with MinWords. *)
CountWords ==
  total_words' = CASE fsm_out.sof -> 0
                   [] ~fsm_out.sof /\ fsm_out.dvalid /\ total_words < MinWords
                        -> total_words + 1
                   [] OTHER -> total_words

(* Faulty: not restarted between subframes. *)
CrcNeverReset == crc' = crc_value

(* U_tx_crc_generator *)
CrcGen == crc' = IF crc_reset THEN 0 ELSE crc_value

-----------------------------------------------------------------------------
(* The user: a word only after a cycle with tx_dreq_o, blocks of at most   *)
(* MaxWords words (the documented limit).                                  *)
UserWrites(word) ==
  /\ word = <<>> \/ (may_write /\ \E e \in Entry : word = <<e>>)
  /\ word # <<>> => (open + 1 = MaxWords => Head(word).last)
  /\ open' = IF word = <<>> THEN open
             ELSE IF Head(word).last THEN 0 ELSE open + 1
  /\ may_write' = tx_dreq_o

UserAsks(flush, reset_seq) == /\ flush => "flush" \in Requests
                              /\ reset_seq => "reset_seq" \in Requests

(* The observer: the wire of this cycle, decoded as the receiver does it.  *)
WireData  == Ins!d_o(fsm_out.data, fsm_escape)
WireValid == Ins!d_valid_o(fsm_out.dvalid)
Enabled   == frame.phase \notin {"none", "header", "lost"}
GotWord   == Det!d_valid_o(Enabled, WireData, WireValid)
Got       == Det!d_o(WireData)
GotEscape == Det!d_escape_o(WireData)

GotData == GotWord /\ frame.phase = "payload" /\ ~GotEscape /\ inflight # <<>>
GotCrc  == GotWord /\ frame.phase = "payload" /\ ~GotEscape /\ inflight = <<>>

(* The fabric takes its request away where the design does not cope: in    *)
(* CRC_WORD, or while an escape holds the inserter's input.  The observer  *)
(* then gives the frame up.                                                *)
GivesUp(req) ==
  /\ ~req
  /\ \/ state = "CRC_WORD"
     \/ Ins!Escaped(fsm_out.data, fsm_escape, fsm_out.dvalid)

FrameAfterWord ==
  CASE GotData -> IF Got = Head(inflight) THEN AfterData(frame) ELSE BadFrame
    [] GotCrc  -> AfterCrc(frame, Got)
    [] GotWord /\ ~GotData /\ ~GotCrc -> AfterOther(frame, Got, GotEscape)
    [] OTHER   -> frame

FrameAfterMarks == CASE fsm_out.sof -> AfterSof(FrameAfterWord)
                     [] fsm_out.eof -> AfterEof(FrameAfterWord)
                     [] OTHER       -> FrameAfterWord

Observe(dreq, req) ==
  /\ Det!Edge(Enabled, WireData, WireValid)
  /\ frame' = IF GivesUp(req) THEN LostFrame ELSE FrameAfterMarks
  /\ inflight' = IF frame'.phase = "lost" THEN <<>>
                 ELSE (IF GotData THEN Tail(inflight) ELSE inflight)
                      \o (IF state = "PAYLOAD" /\ dreq /\ ~tx_fifo_empty
                          THEN <<Subword(Head(fifo), ser_count)>> ELSE <<>>)

(* The fabric may stall where the constants let it. *)
MayStall == /\ state \in StallStates
            /\ Ins!Escaped(fsm_out.data, fsm_escape, fsm_out.dvalid)
                 => StallsEscapes

-----------------------------------------------------------------------------
Clock(req, flush, reset_seq, word) ==
  LET dreq == Dreq(req) IN
  /\ ~req => MayStall
  /\ UserWrites(word)
  /\ UserAsks(flush, reset_seq)
  /\ Buffer(dreq, word)
  /\ FrameCounter(dreq, word)
  /\ TxTimeout
  /\ LatchTxFlush(flush)
  /\ Fsm(dreq, flush, reset_seq)
  /\ CountWords
  /\ CrcGen
  /\ Ins!Edge(fsm_out.data, fsm_escape, fsm_out.dvalid, fsm_escape_enable, req)
  /\ reset_dly' = TRUE
  /\ Observe(dreq, req) /\ asked' = req

(* The reset edge.  p_fsm leaves the escape controls, crc_en, ser_count    *)
(* and the counters of words alone; IDLE and SOF set them before their use.*)
Reset ==
  /\ fifo' = <<>> /\ buf_frame_count' = 0
  /\ timeout_counter' = 0 /\ tx_timeout_hit' = FALSE
  /\ tx_flush_latched' = FALSE
  /\ state' = "IDLE" /\ fsm_out' = [NoWord EXCEPT !.data = fsm_out.data]
  /\ count' = 0 /\ seq_no' = 0 /\ crc_reset' = TRUE
  /\ UNCHANGED <<fsm_escape, fsm_escape_enable, ser_count, crc_en>>
  /\ CountWords /\ CrcGen
  /\ Ins!Disabled
  /\ reset_dly' = FALSE
  /\ may_write' = FALSE /\ open' = 0 /\ asked' = FALSE
  /\ det_state' = "IDLE" /\ inflight' = <<>> /\ frame' = NoFrame

Init ==
  /\ fifo = <<>> /\ buf_frame_count = 0
  /\ timeout_counter = 0 /\ tx_timeout_hit = FALSE
  /\ tx_flush_latched = FALSE
  /\ state = "IDLE" /\ fsm_out = NoWord
  /\ fsm_escape = FALSE /\ fsm_escape_enable = FALSE
  /\ count = 0 /\ ser_count = 0 /\ seq_no = 0 /\ total_words = 0
  /\ crc_en = FALSE /\ crc_reset = TRUE /\ crc = 0
  /\ reset_dly = FALSE
  /\ Ins!Init({Zero})
  /\ may_write = FALSE /\ open = 0 /\ asked = FALSE
  /\ Det!Init /\ inflight = <<>> /\ frame = NoFrame

UserWords == {<<>>} \cup {<<e>> : e \in Entry}

Tick(req) == \E flush, reset_seq \in BOOLEAN, word \in UserWords :
                Clock(req, flush, reset_seq, word)

Next == Reset \/ \E req \in BOOLEAN : Tick(req)

Spec == Init /\ [][Next]_vars

(* The clock runs, the fabric asks for words again and again, and is not   *)
(* stalled in just the cycles in which the time-out's flush is latched: a  *)
(* stall in step with the timer could put the start of a frame off for     *)
(* ever, because the latch holds for one cycle only.                       *)
FairSpec == /\ Spec
            /\ WF_vars(\E req \in BOOLEAN : Tick(req))
            /\ SF_vars(Tick(TRUE))
            /\ SF_vars(tx_flush_latched /\ Tick(TRUE))

-----------------------------------------------------------------------------
TypeOK ==
  /\ fifo \in Seq(Entry) /\ Len(fifo) <= 2 * Threshold
  /\ buf_frame_count \in 0 .. FrameCountSize - 1
  /\ timeout_counter \in 0 .. TimerSize - 1
  /\ {tx_timeout_hit, tx_flush_latched, fsm_escape, fsm_escape_enable,
      crc_en, crc_reset, reset_dly, d_req_prev, may_write, asked} \subseteq BOOLEAN
  /\ state \in States
  /\ {fsm_out.sof, fsm_out.eof, fsm_out.dvalid} \subseteq BOOLEAN
  /\ count \in 0 .. CountSize - 1 /\ ser_count \in 0 .. Subwords - 1
  /\ seq_no \in 0 .. SeqSize - 1 /\ total_words \in 0 .. MinWords
  /\ crc \in 0 .. 1 + Subwords * MaxWords
  /\ ins_state \in {"IDLE", "INSERT_ESCAPE"}
  /\ det_state \in {"IDLE", "CHECK_ESCAPE"}
  /\ open \in 0 .. MaxWords /\ Len(inflight) <= 2

(* What reaches the fabric is a sequence of frames as the receiver parses  *)
(* them: the header, subframes of whole data words whose CRC covers        *)
(* exactly the words on the wire, padding up to the minimum size; and the  *)
(* data are the words the user wrote, in order, each once.  It takes p_fsm,*)
(* the escape inserter, the CRC controls and the buffer together.  A frame *)
(* the observer gives up (GivesUp) is not judged after that; the next is.  *)
FramesWellFormed == frame.phase # "bad"

(* A word the fabric did not ask for is never a new one.  Wherever the     *)
(* fabric takes its request away - between the two halves of an escape, in *)
(* a header, between the last word and the CRC - nothing goes out but the  *)
(* last data word, which CRC_WORD shows again until it is asked for the    *)
(* CRC (xtx_streamer.vhd:505-520, gc_escape_inserter.vhd:80-81).           *)
UnaskedWordIsRepeated ==
  [][WireValid' /\ ~asked' =>
       state = "CRC_WORD" /\ state' = "CRC_WORD" /\ fsm_out' = fsm_out]_vars

(* The request of the fabric, as the inserter's port comment promises it:  *)
(* "when 1, d_o/d_valid_o may output a character in the next clock cycle"  *)
(* (gc_escape_inserter.vhd:80).  It does not hold: see                     *)
(* UnaskedWordIsRepeated.                                                  *)
OutputOnlyOnRequest == WireValid => asked

BlockEnds(q) == {i \in DOMAIN q : q[i].last}

(* buf_frame_count is the number of block ends in the buffer (modulo its   *)
(* width), although a block may end and another start to leave in the same *)
(* cycle (p_frame_counter).                                                *)
FrameCountIsBlockEnds ==
  buf_frame_count = Cardinality(BlockEnds(fifo)) % FrameCountSize

(* A user who writes only after a cycle with tx_dreq_o never hits a full   *)
(* buffer: the margin of tx_almost_full covers the cycle of delay, and the *)
(* request is down until the buffer is out of reset (p_delay_reset).       *)
RequestedWordFits == may_write => ~tx_fifo_full

(* Whatever is in the buffer, some word leaves it again and again: neither *)
(* a block short of the threshold nor one without an end gets stuck        *)
(* (g_tx_timeout, xtx_streamer.vhd:47-50).                                 *)
BufferedWordsLeave ==
  []<>(tx_fifo_empty \/ (state = "PAYLOAD" /\ last_subword))
=============================================================================
