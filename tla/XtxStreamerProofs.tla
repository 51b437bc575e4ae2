-------------------------- MODULE XtxStreamerProofs --------------------------
(***************************************************************************)
(* xtx_streamer.vhd, for every size of its buffer, counters and frames and *)
(* every set of data words.  First the buffer: a word that was asked for   *)
(* finds room, and buf_frame_count counts the block ends in it.  Then the  *)
(* wire: an invariant for each state of p_fsm says where the wire is in    *)
(* the frame and which word is still on its way to it.                     *)
(***************************************************************************)
EXTENDS XtxStreamer, FiniteSetTheorems, TLAPS

(* The invariant: the two properties, and that the buffer is a sequence of *)
(* data words no longer than it is deep. *)
BufferInv == /\ fifo \in Seq(Entry)
             /\ Len(fifo) <= 2 * Threshold
             /\ RequestedWordFits
             /\ FrameCountIsBlockEnds

Ends(q) == Cardinality(BlockEnds(q))

Bit(b) == IF b THEN 1 ELSE 0

-----------------------------------------------------------------------------
(* Block ends in a sequence. *)
LEMMA EndsFinite ==
  ASSUME NEW q \in Seq(Entry)
  PROVE  IsFiniteSet(BlockEnds(q)) /\ Ends(q) \in Nat
<1>1. IsFiniteSet(1 .. Len(q)) /\ BlockEnds(q) \in SUBSET (1 .. Len(q))
      BY FS_Interval DEF BlockEnds
<1>2. IsFiniteSet(BlockEnds(q))
      BY <1>1, FS_Subset
<1>. QED BY <1>2, FS_CardinalityType DEF Ends

LEMMA EndsOfEmpty == Ends(<<>>) = 0
<1>1. BlockEnds(<<>>) = {}
      BY DEF BlockEnds
<1>. QED BY <1>1, FS_EmptySet DEF Ends

LEMMA EndsOfAppend ==
  ASSUME NEW q \in Seq(Entry), NEW e \in Entry
  PROVE  Ends(Append(q, e)) = Ends(q) + Bit(e.last)
<1>0. IsFiniteSet(BlockEnds(q)) /\ Ends(q) \in Nat
      BY EndsFinite
<1>1. BlockEnds(Append(q, e)) =
        BlockEnds(q) \cup (IF e.last THEN {Len(q) + 1} ELSE {})
      BY DEF BlockEnds
<1>2. Len(q) + 1 \notin BlockEnds(q)
      BY DEF BlockEnds
<1>3. CASE e.last
  <2>1. BlockEnds(Append(q, e)) = BlockEnds(q) \cup {Len(q) + 1}
        BY <1>1, <1>3
  <2>2. Cardinality(BlockEnds(q) \cup {Len(q) + 1}) = Cardinality(BlockEnds(q)) + 1
        BY <1>0, <1>2, FS_AddElement
  <2>. QED BY <1>3, <2>1, <2>2 DEF Ends, Bit
<1>4. CASE ~e.last
  <2>1. BlockEnds(Append(q, e)) = BlockEnds(q)
        BY <1>1, <1>4
  <2>. QED BY <1>0, <1>4, <2>1 DEF Ends, Bit
<1>. QED BY <1>3, <1>4

LEMMA EndsOfTail ==
  ASSUME NEW q \in Seq(Entry), q # <<>>
  PROVE  Ends(q) = Ends(Tail(q)) + Bit(Head(q).last)
<1> DEFINE rest == BlockEnds(q) \ {1}
           Shift == [i \in BlockEnds(Tail(q)) |-> i + 1]
<1>0. /\ IsFiniteSet(BlockEnds(q)) /\ Ends(q) \in Nat
      /\ IsFiniteSet(BlockEnds(Tail(q))) /\ Ends(Tail(q)) \in Nat
  <2>1. Tail(q) \in Seq(Entry)
        OBVIOUS
  <2>. QED BY <2>1, EndsFinite
<1>1. /\ Shift \in [BlockEnds(Tail(q)) -> rest]
      /\ \A i, j \in BlockEnds(Tail(q)) : Shift[i] = Shift[j] => i = j
      BY DEF BlockEnds
<1>2. \A k \in rest : \E i \in BlockEnds(Tail(q)) : Shift[i] = k
  <2> SUFFICES ASSUME NEW k \in rest
               PROVE  \E i \in BlockEnds(Tail(q)) : Shift[i] = k
      OBVIOUS
  <2>1. k - 1 \in BlockEnds(Tail(q)) /\ (k - 1) + 1 = k
        BY DEF BlockEnds
  <2>. QED BY <2>1
<1> HIDE DEF rest
<1>3. Shift \in Bijection(BlockEnds(Tail(q)), rest)
      BY <1>1, <1>2 DEF Bijection, Injection, IsInjective, Surjection
<1> HIDE DEF Shift
<1>4. Cardinality(rest) = Ends(Tail(q))
      BY <1>0, <1>3, FS_Bijection DEF ExistsBijection, Ends
<1>5. Cardinality(rest) = IF 1 \in BlockEnds(q) THEN Ends(q) - 1 ELSE Ends(q)
      BY <1>0, FS_RemoveElement DEF Ends, rest
<1>6. 1 \in BlockEnds(q) <=> Head(q).last
      BY DEF BlockEnds
<1>. QED BY <1>0, <1>4, <1>5, <1>6 DEF Bit

-----------------------------------------------------------------------------
(* Counting modulo m. *)
LEMMA RemainderIs ==
  ASSUME NEW m \in Nat \ {0}, NEW k \in Int, NEW r \in 0 .. m - 1
  PROVE  (m * k + r) % m = r
<1> DEFINE x == m * k + r
           d == x \div m
           t == x % m
<1>1. x \in Int /\ d \in Int /\ t \in 0 .. m - 1 /\ x = m * d + t
      OBVIOUS
<1>2. m * (k - d) = t - r
      BY <1>1
<1> HIDE DEF d, t
<1>3. ~(k - d >= 1)
  <2>1. k - d >= 1 => m * (k - d) >= m
        BY <1>1
  <2>. QED BY <1>1, <1>2, <2>1
<1>4. ~(k - d <= -1)
  <2>1. k - d <= -1 => m * (k - d) <= -m
        BY <1>1
  <2>. QED BY <1>1, <1>2, <2>1
<1>5. k = d
      BY <1>1, <1>3, <1>4
<1>. QED BY <1>1, <1>2, <1>5 DEF t

LEMMA CountUp ==
  ASSUME NEW m \in Nat \ {0}, NEW n \in Nat
  PROVE  ((n % m) + 1) % m = (n + 1) % m
<1> DEFINE q == n \div m
           r == n % m
<1>1. q \in Int /\ r \in 0 .. m - 1 /\ n = m * q + r
      OBVIOUS
<1> HIDE DEF q, r
<1>2. CASE r + 1 < m
  <2>1. n + 1 = m * q + (r + 1) /\ r + 1 \in 0 .. m - 1 /\ r + 1 = m * 0 + (r + 1)
        BY <1>1, <1>2
  <2>2. (n + 1) % m = r + 1
        BY <1>1, <2>1, RemainderIs
  <2>3. (r + 1) % m = r + 1
        BY <2>1, RemainderIs
  <2>. QED BY <2>2, <2>3 DEF r
<1>3. CASE r + 1 = m
  <2>1. n + 1 = m * (q + 1) + 0 /\ q + 1 \in Int /\ r + 1 = m * 1 + 0 /\ 0 \in 0 .. m - 1
        BY <1>1, <1>3
  <2>2. (n + 1) % m = 0
        BY <2>1, RemainderIs
  <2>3. (r + 1) % m = 0
        BY <2>1, RemainderIs
  <2>. QED BY <2>2, <2>3 DEF r
<1>. QED BY <1>1, <1>2, <1>3

LEMMA CountDown ==
  ASSUME NEW m \in Nat \ {0}, NEW n \in Nat \ {0}
  PROVE  ((n % m) + m - 1) % m = (n - 1) % m
<1> DEFINE q == n \div m
           r == n % m
<1>1. q \in Int /\ r \in 0 .. m - 1 /\ n = m * q + r
      OBVIOUS
<1> HIDE DEF q, r
<1>2. CASE r >= 1
  <2>1. /\ n - 1 = m * q + (r - 1) /\ r - 1 \in 0 .. m - 1
        /\ r + m - 1 = m * 1 + (r - 1)
        BY <1>1, <1>2
  <2>2. (n - 1) % m = r - 1
        BY <1>1, <2>1, RemainderIs
  <2>3. (m * 1 + (r - 1)) % m = r - 1
        BY <2>1, RemainderIs
  <2>. QED BY <2>1, <2>2, <2>3 DEF r
<1>3. CASE r = 0
  <2>1. /\ n - 1 = m * (q - 1) + (m - 1) /\ q - 1 \in Int /\ m - 1 \in 0 .. m - 1
        /\ r + m - 1 = m * 0 + (m - 1)
        BY <1>1, <1>3
  <2>2. (n - 1) % m = m - 1
        BY <2>1, RemainderIs
  <2>3. (r + m - 1) % m = m - 1
        BY <2>1, RemainderIs
  <2>. QED BY <2>2, <2>3 DEF r
<1>. QED BY <1>1, <1>2, <1>3

-----------------------------------------------------------------------------
(* One edge of the clock, in the buffer: a word may go and one may come. *)
LEMMA BufferEdge ==
  ASSUME BufferInv, NEW dreq, NEW word \in UserWords,
         UserWrites(word), Buffer(dreq, word), FrameCounter(dreq, word)
  PROVE  BufferInv'
<1> DEFINE rd   == tx_fifo_rd(dreq)
           kept == IF rd THEN Tail(fifo) ELSE fifo
           new  == Written(word)
           in   == Written(word) # <<>> /\ Head(word).last
           out  == tx_fifo_rd(dreq) /\ tx_fifo_last
<1>1. Threshold \in Nat \ {0} /\ FrameCountSize \in Nat \ {0}
      BY TxAssumption
<1>2. /\ fifo \in Seq(Entry) /\ Len(fifo) <= 2 * Threshold
      /\ buf_frame_count = Ends(fifo) % FrameCountSize /\ Ends(fifo) \in Nat
      BY EndsFinite DEF BufferInv, FrameCountIsBlockEnds, Ends
<1>3. rd => fifo # <<>>
      BY DEF tx_fifo_rd, tx_fifo_empty
<1>4. kept \in Seq(Entry) /\ Len(kept) = Len(fifo) - Bit(rd)
      BY <1>2, <1>3 DEF Bit
<1>5. Ends(kept) = Ends(fifo) - Bit(out) /\ Ends(kept) \in Nat
  <2>1. CASE rd
    <3>1. Ends(fifo) = Ends(Tail(fifo)) + Bit(Head(fifo).last)
          BY <1>2, <1>3, <2>1, EndsOfTail
    <3>2. Ends(Tail(fifo)) \in Nat
          BY <1>4, <2>1, EndsFinite
    <3>3. Bit(out) = Bit(Head(fifo).last)
          BY <1>3, <2>1 DEF Bit, tx_fifo_last, tx_fifo_empty
    <3>4. Bit(Head(fifo).last) \in {0, 1}
          BY DEF Bit
    <3>. QED BY <2>1, <3>1, <3>2, <3>3, <3>4
  <2>2. CASE ~rd
        BY <1>2, <2>2 DEF Bit
  <2>. QED BY <2>1, <2>2
<1>6. /\ fifo' \in Seq(Entry)
      /\ Len(fifo') = Len(kept) + Bit(new # <<>>)
      /\ Ends(fifo') = Ends(kept) + Bit(in)
  <2>1. CASE new = <<>>
    <3>1. fifo' = kept
          BY <1>4, <2>1 DEF Buffer
    <3>. QED BY <1>4, <1>5, <2>1, <3>1 DEF Bit
  <2>2. CASE new # <<>>
    <3>1. PICK e \in Entry : word = <<e>>
          BY <2>2 DEF UserWords, Written
    <3>2. new = <<e>> /\ Head(word) = e
          BY <2>2, <3>1 DEF Written
    <3>3. fifo' = Append(kept, e)
          BY <1>4, <3>2 DEF Buffer
    <3>4. Ends(fifo') = Ends(kept) + Bit(e.last)
          BY <1>4, <3>3, EndsOfAppend
    <3>5. Bit(in) = Bit(e.last)
          BY <2>2, <3>2 DEF Bit
    <3>. QED BY <1>4, <2>2, <3>3, <3>4, <3>5 DEF Bit
  <2>. QED BY <2>1, <2>2
<1>b. /\ Bit(rd) \in {0, 1} /\ Bit(new # <<>>) \in {0, 1}
      /\ Len(fifo) = 2 * Threshold => Bit(new # <<>>) = 0
      BY DEF Bit, Written, tx_fifo_full
<1>l. Len(fifo) \in Nat /\ Len(fifo') \in Nat
      /\ Len(fifo') = Len(fifo) - Bit(rd) + Bit(new # <<>>)
      BY <1>2, <1>4, <1>6, <1>b
<1>7. Len(fifo') <= 2 * Threshold
  <2> DEFINE l == Len(fifo)
             m == Len(fifo')
             o == Bit(rd)
             i == Bit(new # <<>>)
             d == 2 * Threshold
  <2>1. /\ l \in Nat /\ m \in Nat /\ d \in Nat /\ o \in {0, 1} /\ i \in {0, 1}
        /\ m = l - o + i /\ l <= d /\ (l = d => i = 0)
        BY <1>1, <1>2, <1>b, <1>l
  <2> HIDE DEF l, m, o, i, d
  <2>2. m <= d
        BY <2>1
  <2>. QED BY <2>2 DEF m, d
<1>8. RequestedWordFits'
  <2>1. may_write' = tx_dreq_o
        BY DEF UserWrites
  <2>2. ASSUME may_write'
        PROVE  Len(fifo') # 2 * Threshold
    <3>1. ~(Len(fifo) >= 2 * Threshold - 2)
          BY <2>1, <2>2 DEF tx_dreq_o, tx_almost_full
    <3> DEFINE l == Len(fifo)
               m == Len(fifo')
               o == Bit(rd)
               i == Bit(new # <<>>)
    <3>2. l \in Nat /\ o \in {0, 1} /\ i \in {0, 1} /\ m = l - o + i
          BY <1>b, <1>l
    <3>3. ~(l >= 2 * Threshold - 2)
          BY <3>1
    <3> HIDE DEF l, m, o, i
    <3>4. m # 2 * Threshold
          BY <1>1, <3>2, <3>3
    <3>. QED BY <3>4 DEF m
  <2>. QED BY <2>2 DEF RequestedWordFits, tx_fifo_full
<1>9. FrameCountIsBlockEnds'
  <2>0. Ends(fifo') = Ends(fifo) - Bit(out) + Bit(in)
        BY <1>2, <1>5, <1>6 DEF Bit
  <2>1. CASE in /\ ~out
    <3>1. Ends(fifo') = Ends(fifo) + 1
          BY <1>2, <2>0, <2>1 DEF Bit
    <3>2. buf_frame_count' = (buf_frame_count + 1) % FrameCountSize
          BY <2>1 DEF FrameCounter
    <3>. QED BY <1>1, <1>2, <3>1, <3>2, CountUp DEF FrameCountIsBlockEnds, Ends
  <2>2. CASE out /\ ~in
    <3>1. Ends(fifo') = Ends(fifo) - 1 /\ Ends(fifo) \in Nat \ {0}
          BY <1>2, <1>5, <2>0, <2>2 DEF Bit
    <3>2. buf_frame_count' = (buf_frame_count + FrameCountSize - 1) % FrameCountSize
          BY <2>2 DEF FrameCounter
    <3>. QED BY <1>1, <1>2, <3>1, <3>2, CountDown DEF FrameCountIsBlockEnds, Ends
  <2>3. CASE in <=> out
    <3>1. Ends(fifo') = Ends(fifo)
          BY <1>2, <2>0, <2>3 DEF Bit
    <3>2. buf_frame_count' = buf_frame_count
          BY <2>3 DEF FrameCounter
    <3>. QED BY <1>2, <3>1, <3>2 DEF FrameCountIsBlockEnds, Ends
  <2>. QED BY <2>1, <2>2, <2>3
<1>. QED BY <1>6, <1>7, <1>8, <1>9 DEF BufferInv

LEMMA BufferInvariant == Spec => []BufferInv
<1>0. Threshold \in Nat \ {0} /\ FrameCountSize \in Nat \ {0} /\ 0 % FrameCountSize = 0
      BY TxAssumption
<1>e. <<>> \in Seq(Entry) /\ Len(<<>>) = 0 /\ Cardinality(BlockEnds(<<>>)) = 0
      BY EndsOfEmpty DEF Ends
<1>1. Init => BufferInv
      BY <1>0, <1>e DEF Init, BufferInv, RequestedWordFits, FrameCountIsBlockEnds
<1>2. BufferInv /\ [Next]_vars => BufferInv'
  <2> SUFFICES ASSUME BufferInv, [Next]_vars PROVE BufferInv'
      OBVIOUS
  <2>1. CASE Reset
        BY <1>0, <1>e, <2>1 DEF Reset, BufferInv, RequestedWordFits, FrameCountIsBlockEnds
  <2>2. CASE \E req \in BOOLEAN : Tick(req)
    <3>1. PICK req \in BOOLEAN, flush \in BOOLEAN, reset_seq \in BOOLEAN, word \in UserWords :
            Clock(req, flush, reset_seq, word)
          BY <2>2 DEF Tick
    <3>2. /\ UserWrites(word) /\ Buffer(Dreq(req), word)
          /\ FrameCounter(Dreq(req), word)
          BY <3>1 DEF Clock
    <3>. QED BY <3>2, BufferEdge
  <2>3. CASE UNCHANGED vars
        BY <2>3 DEF vars, bufferVars, userVars, BufferInv, RequestedWordFits,
                    FrameCountIsBlockEnds, tx_fifo_full
  <2>. QED BY <2>1, <2>2, <2>3 DEF Next
<1>. QED BY <1>1, <1>2, PTL DEF Spec

(* A user who writes only after a cycle with tx_dreq_o never meets a full  *)
(* buffer, whatever its depth: the margin of tx_almost_full is enough      *)
(* (xtx_streamer.vhd, U_TX_Buffer and p_delay_reset). *)
THEOREM RequestedWordsFit == Spec => []RequestedWordFits
BY BufferInvariant, PTL DEF BufferInv

(* p_frame_counter keeps the number of block ends in the buffer, modulo    *)
(* the counter's size, through simultaneous writes and reads. *)
THEOREM FrameCountCorrect == Spec => []FrameCountIsBlockEnds
BY BufferInvariant, PTL DEF BufferInv

-----------------------------------------------------------------------------
(* The frames on the wire. *)

(* The fabric stalls only where the transmitter copes with it, and no block *)
(* ends in a subword equal to the escape code (xtx_streamer.vhd:507-512 and *)
(* gc_escape_inserter.vhd:82-90 lose or repeat a word otherwise).          *)
HandledTraffic ==
  /\ "CRC_WORD" \notin StallStates /\ ~StallsEscapes
  /\ \A e \in Entry : e.last => Subwords - 1 \notin e.cafe

FabricWord == [kind : {"cafe", "zero", "head", "0bad", "seq", "data", "crc"},
               v : Nat]
Signals == [sof : BOOLEAN, eof : BOOLEAN, dvalid : BOOLEAN, data : FabricWord]
Frames  == [phase : {"none", "header", "start", "payload", "closed", "padding"},
            n : Nat, words : 0 .. MinWords]

RegsOK ==
  /\ state \in States /\ fsm_out \in Signals
  /\ fsm_escape \in BOOLEAN /\ fsm_escape_enable \in BOOLEAN
  /\ count \in 0 .. CountSize - 1 /\ ser_count \in 0 .. Subwords - 1
  /\ state = "ETH_HEADER" => count < HeaderWords
  /\ seq_no \in 0 .. SeqSize - 1 /\ total_words \in 0 .. MinWords
  /\ crc_en \in BOOLEAN /\ crc_reset \in BOOLEAN /\ crc \in Nat
  /\ d_prev \in FabricWord /\ d_req_prev \in BOOLEAN
  /\ ins_state \in {"IDLE", "INSERT_ESCAPE"}
  /\ det_state \in {"IDLE", "CHECK_ESCAPE"}

(* The word on its way to the wire: in the register of p_fsm, or behind its *)
(* escape code in the inserter. *)
Owing   == ins_state = "INSERT_ESCAPE"
Waiting == Owing \/ fsm_out.dvalid
TheWord == IF ~Owing THEN fsm_out.data
           ELSE IF d_prev = Zero THEN EscapeCode ELSE d_prev
TheMark == IF Owing THEN d_prev # Zero ELSE fsm_escape

WireInv ==
  /\ frame \in Frames /\ inflight \in Seq(FabricWord)
  /\ (det_state = "CHECK_ESCAPE") = Owing
  /\ Owing => /\ d_req_prev /\ ~fsm_out.dvalid /\ fsm_escape_enable
              /\ frame.phase \notin {"none", "header"}
  /\ frame.phase # "none" =>
       total_words = IF Owing /\ frame.words < MinWords
                     THEN frame.words + 1 ELSE frame.words
  /\ frame.phase = "payload" /\ fsm_out.dvalid => d_req_prev

CrcIdle == crc_reset \/ (crc = 0 /\ ~(crc_en /\ fsm_out.dvalid))

Quiet == ~fsm_out.sof /\ ~fsm_out.eof

IdleInv == state = "IDLE" =>
  /\ ~fsm_out.sof /\ ~Waiting /\ inflight = <<>> /\ CrcIdle
  /\ IF fsm_out.eof THEN frame.phase = "padding" /\ frame.words = MinWords
     ELSE frame = NoFrame

SofInv == state = "SOF" =>
  /\ fsm_out.sof /\ ~fsm_out.eof /\ ~Waiting /\ inflight = <<>> /\ CrcIdle
  /\ frame = NoFrame /\ ~fsm_escape /\ ~fsm_escape_enable /\ ~crc_en

HeaderInv == state = "ETH_HEADER" =>
  /\ Quiet /\ ~Owing /\ inflight = <<>> /\ CrcIdle /\ ser_count = 0
  /\ ~fsm_escape /\ ~fsm_escape_enable /\ ~crc_en
  /\ frame.phase = "header"
  /\ frame.n + (IF fsm_out.dvalid THEN 1 ELSE 0) = count
  /\ fsm_out.dvalid => fsm_out.data = HeadWord

(* The CRC is on its way. *)
CrcWaits == /\ Waiting /\ ~TheMark /\ frame.n % Subwords = 0
            /\ TheWord \in {CrcWord(frame.n + 1), EscapeCode}

SubframeInv == state = "SUBFRAME_HEADER" =>
  /\ Quiet /\ inflight = <<>> /\ CrcIdle /\ ser_count = 0
  /\ \/ /\ frame.phase = "header" /\ frame.n = HeaderWords - 1
        /\ fsm_out.dvalid /\ fsm_out.data = HeadWord
        /\ ~fsm_escape /\ ~fsm_escape_enable
     \/ frame.phase = "start" /\ ~Waiting
     \/ frame.phase = "payload" /\ fsm_escape_enable /\ CrcWaits
     \/ frame.phase = "closed" /\ fsm_escape_enable /\ ~Waiting

Sent == frame.n + Len(inflight)

PayloadInv == state = "PAYLOAD" =>
  /\ Quiet /\ fsm_escape_enable /\ crc_en /\ ~crc_reset
  /\ ser_count # 0 => fifo # <<>>
  /\ \/ /\ frame.phase \in {"start", "closed"} /\ inflight = <<>>
        /\ Waiting /\ TheMark /\ TheWord.kind = "seq"
        /\ ser_count = 0 /\ crc_value = 1
     \/ /\ frame.phase = "payload" /\ (Waiting => ~TheMark)
        /\ inflight = IF Waiting THEN <<TheWord>> ELSE <<>>
        /\ Sent % Subwords = ser_count /\ crc_value = Sent + 1

CrcInv == state = "CRC_WORD" =>
  /\ Quiet /\ fsm_escape_enable /\ crc_en /\ ~crc_reset /\ ~Owing
  /\ frame.phase = "payload"
  /\ fsm_out.dvalid => ~fsm_escape /\ fsm_out.data # EscapeCode
  /\ inflight = IF fsm_out.dvalid THEN <<fsm_out.data>> ELSE <<>>
  /\ ~fsm_escape
  /\ Sent % Subwords = 0 /\ crc_value = Sent + 1

PadWaits == Waiting /\ TheMark /\ TheWord = PadWord

PaddingInv == state = "PADDING" =>
  /\ Quiet /\ inflight = <<>> /\ crc_reset /\ fsm_escape_enable
  /\ \/ frame.phase = "payload" /\ CrcWaits
     \/ frame.phase = "closed" /\ ~Waiting
     \/ frame.phase \in {"closed", "padding"} /\ PadWaits
     \/ frame.phase = "padding" /\ ~Waiting

EofInv == state = "EOF" =>
  /\ Quiet /\ inflight = <<>> /\ crc_reset /\ fsm_escape_enable
  /\ total_words = MinWords
  /\ \/ frame.phase \in {"closed", "padding"} /\ PadWaits
     \/ frame.phase = "padding" /\ ~Waiting

StageInv == /\ IdleInv /\ SofInv /\ HeaderInv /\ SubframeInv
            /\ PayloadInv /\ CrcInv /\ PaddingInv /\ EofInv

CrcSmall == crc <= 1 + Subwords * MaxWords

-----------------------------------------------------------------------------
(* The words of the transmitter. *)
LEMMA TxWords ==
  /\ {Zero, EscapeCode, HeadWord, PadWord, NoWord.data} \subseteq FabricWord
  /\ Zero # EscapeCode /\ HeadWord # EscapeCode /\ PadWord # EscapeCode
  /\ PadWord # Zero /\ PadWord.kind # "seq"
  /\ \A n \in Nat : /\ {SeqWord(n), CrcWord(n), DataWord(n)} \subseteq FabricWord
                    /\ SeqWord(n).kind = "seq" /\ SeqWord(n) # EscapeCode /\ SeqWord(n) # Zero
  /\ \A w : w.kind = "seq" => w # Zero /\ w # EscapeCode
BY DEF Zero, EscapeCode, HeadWord, PadWord, SeqWord, CrcWord, DataWord, NoWord, FabricWord

LEMMA SubwordIsWord ==
  ASSUME NEW e \in Entry, NEW i \in 0 .. Subwords - 1
  PROVE  /\ Subword(e, i) \in FabricWord
         /\ i \notin e.cafe => Subword(e, i) # EscapeCode
BY FrameAssumption DEF Subword, DataWord, EscapeCode, FabricWord

LEMMA SignalsMade ==
  /\ NoWord \in Signals /\ NoWord.sof = FALSE /\ NoWord.eof = FALSE /\ NoWord.dvalid = FALSE
  /\ \A w \in FabricWord : /\ Word(w) \in Signals /\ Word(w).data = w
                           /\ Word(w).dvalid = TRUE /\ Word(w).sof = FALSE /\ Word(w).eof = FALSE
<1>1. /\ NoWord \in Signals /\ NoWord.sof = FALSE /\ NoWord.eof = FALSE /\ NoWord.dvalid = FALSE
      BY TxWords DEF NoWord, Signals
<1>2. ASSUME NEW w \in FabricWord
      PROVE  /\ Word(w) \in Signals /\ Word(w).data = w
             /\ Word(w).dvalid = TRUE /\ Word(w).sof = FALSE /\ Word(w).eof = FALSE
      BY <1>2 DEF NoWord, Word, Signals
<1>. QED BY <1>1, <1>2

(* What a step does to the signals of p_fsm, state by state. *)
LEMMA SignalsStep ==
  ASSUME RegsOK, fifo \in Seq(Entry), NEW dreq \in BOOLEAN, NEW flush, NEW reset_seq,
         Fsm(dreq, flush, reset_seq)
  PROVE  fsm_out' \in Signals
<1>1. /\ fsm_out \in Signals /\ crc_value \in Nat /\ seq_no \in Nat
      /\ ser_count \in 0 .. Subwords - 1
      BY DEF RegsOK, crc_value
<1>2. \A s, e, d \in BOOLEAN :
        /\ [fsm_out EXCEPT !.eof = e, !.sof = s] \in Signals
        /\ [fsm_out EXCEPT !.sof = s] \in Signals
        /\ [fsm_out EXCEPT !.dvalid = d] \in Signals
        /\ [fsm_out EXCEPT !.dvalid = d, !.eof = e] \in Signals
      BY <1>1 DEF Signals
<1>3. ~tx_fifo_empty => Head(fifo) \in Entry
      BY DEF tx_fifo_empty
<1>4. CASE Idle(dreq, flush, reset_seq)
  <2> DEFINE start == dreq /\ (tx_flush_latched \/ flush \/ tx_threshold_hit)
  <2>1. fsm_out' = [fsm_out EXCEPT !.eof = FALSE, !.sof = start] /\ start \in BOOLEAN
        BY <1>4 DEF Idle
  <2>. HIDE DEF start
  <2>. QED BY <1>2, <2>1
<1>5. CASE Sof(reset_seq) \/ Eof(dreq, reset_seq)
      BY <1>2, <1>5 DEF Sof, Eof
<1>6. CASE EthHeader(dreq, reset_seq)
      BY <1>2, <1>6, TxWords, SignalsMade DEF EthHeader
<1>7. CASE SubframeHeader(dreq, reset_seq)
      BY <1>1, <1>7, TxWords, SignalsMade DEF SubframeHeader
<1>8. CASE Payload(dreq, reset_seq)
      BY <1>1, <1>3, <1>8, SubwordIsWord, SignalsMade DEF Payload
<1>9. CASE CrcState(dreq, reset_seq)
      BY <1>1, <1>9, TxWords, SignalsMade DEF CrcState
<1>10. CASE Padding(dreq, reset_seq)
      BY <1>10, TxWords, SignalsMade DEF Padding
<1>. QED BY <1>4, <1>5, <1>6, <1>7, <1>8, <1>9, <1>10 DEF Fsm

LEMMA RegsStep ==
  ASSUME RegsOK, fifo \in Seq(Entry), NEW req \in BOOLEAN, NEW flush, NEW reset_seq,
         NEW word, Clock(req, flush, reset_seq, word)
  PROVE  RegsOK'
<1> DEFINE dreq == Dreq(req)
<1>0. dreq \in BOOLEAN /\ Fsm(dreq, flush, reset_seq)
      BY DEF Dreq, Ins!d_req_o, Clock
<1> HIDE DEF dreq
<1>1. fsm_out' \in Signals
      BY <1>0, SignalsStep
<1>2. /\ state' \in States /\ fsm_escape' \in BOOLEAN /\ fsm_escape_enable' \in BOOLEAN
      /\ crc_en' \in BOOLEAN /\ crc_reset' \in BOOLEAN
  <2> USE DEF RegsOK, States
  <2>1. CASE Idle(dreq, flush, reset_seq) \/ Sof(reset_seq)
        BY <2>1 DEF Idle, Sof
  <2>2. CASE EthHeader(dreq, reset_seq) \/ SubframeHeader(dreq, reset_seq)
        BY <2>2 DEF EthHeader, SubframeHeader
  <2>3. CASE Payload(dreq, reset_seq) \/ CrcState(dreq, reset_seq)
        BY <2>3 DEF Payload, CrcState
  <2>4. CASE Padding(dreq, reset_seq) \/ Eof(dreq, reset_seq)
        BY <2>4 DEF Padding, Eof
  <2>. QED BY <1>0, <2>1, <2>2, <2>3, <2>4 DEF Fsm
<1>3. /\ count' \in 0 .. CountSize - 1 /\ ser_count' \in 0 .. Subwords - 1
      /\ state' = "ETH_HEADER" => count' < HeaderWords
      /\ seq_no' \in 0 .. SeqSize - 1
  <2>0. /\ CountSize \in Nat \ {0} /\ Subwords \in Nat \ {0} /\ SeqSize \in Nat \ {0}
        /\ HeaderWords \in Nat \ {0} /\ HeaderWords <= CountSize
        /\ count \in 0 .. CountSize - 1 /\ ser_count \in 0 .. Subwords - 1
        /\ state = "ETH_HEADER" => count < HeaderWords
        /\ seq_no \in 0 .. SeqSize - 1
        BY TxAssumption, FrameAssumption DEF RegsOK
  <2>m. /\ (seq_no + 1) % SeqSize \in 0 .. SeqSize - 1
        /\ (count + 1) % CountSize \in 0 .. CountSize - 1
        BY <2>0
  <2>1. CASE Idle(dreq, flush, reset_seq) \/ Sof(reset_seq)
        BY <2>0, <2>1 DEF Idle, Sof, SeqReset
  <2>2. CASE EthHeader(dreq, reset_seq)
    <3>1. CASE dreq /\ count = HeaderWords - 1
          BY <2>0, <2>2, <3>1 DEF EthHeader, SeqReset
    <3>2. CASE dreq /\ count # HeaderWords - 1
      <4>1. count' = count + 1 /\ ser_count' = ser_count /\ state' = state
            BY <2>2, <3>2 DEF EthHeader
      <4>0. state = "ETH_HEADER"
            BY <2>2 DEF EthHeader
      <4>2. count + 1 < HeaderWords /\ count + 1 \in 0 .. CountSize - 1
            BY <2>0, <3>2, <4>0
      <4>. QED BY <2>0, <2>2, <4>1, <4>2 DEF EthHeader, SeqReset
    <3>3. CASE ~dreq
          BY <2>0, <2>2, <3>3 DEF EthHeader, SeqReset
    <3>. QED BY <1>0, <3>1, <3>2, <3>3
  <2>3. CASE SubframeHeader(dreq, reset_seq)
        BY <2>0, <2>m, <2>3 DEF SubframeHeader, SeqReset
  <2>4. CASE Payload(dreq, reset_seq)
        BY <2>0, <2>m, <2>4 DEF Payload, SeqReset, last_subword
  <2>5. CASE CrcState(dreq, reset_seq)
        BY <2>0, <2>5 DEF CrcState, SeqReset
  <2>6. CASE Padding(dreq, reset_seq) \/ Eof(dreq, reset_seq)
        BY <2>0, <2>6 DEF Padding, Eof, SeqReset
  <2>. QED BY <1>0, <2>1, <2>2, <2>3, <2>4, <2>5, <2>6 DEF Fsm
<1>4. total_words' \in 0 .. MinWords /\ crc' \in Nat
      BY FrameAssumption DEF Clock, CountWords, CrcGen, crc_value, RegsOK
<1>5. /\ d_prev' \in FabricWord /\ d_req_prev' \in BOOLEAN
      /\ ins_state' \in {"IDLE", "INSERT_ESCAPE"}
      BY TxWords DEF Clock, RegsOK, Signals, Ins!Edge, Ins!Disabled, Ins!Idle, Ins!InsertEscape
<1>6. det_state' \in {"IDLE", "CHECK_ESCAPE"}
      BY DEF Clock, Observe, Det!Edge, RegsOK
<1>. QED BY <1>1, <1>2, <1>3, <1>4, <1>5, <1>6 DEF RegsOK

LEMMA RegsReset == RegsOK /\ Reset => RegsOK'
<1>. SUFFICES ASSUME RegsOK, Reset PROVE RegsOK'
     OBVIOUS
<1>1. /\ 0 \in 0 .. CountSize - 1 /\ 0 \in 0 .. SeqSize - 1
      BY TxAssumption
<1>2. fsm_out' \in Signals
      BY DEF Reset, NoWord, Signals, RegsOK
<1>3. total_words' \in 0 .. MinWords /\ crc' \in Nat
      BY FrameAssumption DEF Reset, CountWords, CrcGen, crc_value, RegsOK
<1>. QED BY <1>1, <1>2, <1>3 DEF Reset, RegsOK, States, Ins!Disabled

-----------------------------------------------------------------------------
(* One cycle of the wire. *)
Esc     == Ins!Escaped(fsm_out.data, fsm_escape, fsm_out.dvalid)
Arrives == Owing \/ (fsm_out.dvalid /\ ~Esc)
Grown(n) == IF n < MinWords THEN n + 1 ELSE n

(* Control words are not zero, and come only when the codec is enabled at  *)
(* both ends. *)
Controlled == fsm_out.dvalid =>
  IF Enabled THEN fsm_escape_enable /\ (fsm_escape => fsm_out.data # Zero)
  ELSE ~Esc

LEMMA StageControlled ==
  ASSUME RegsOK, WireInv, StageInv
  PROVE  Controlled
<1> SUFFICES ASSUME fsm_out.dvalid
             PROVE  IF Enabled THEN fsm_escape_enable /\ (fsm_escape => fsm_out.data # Zero)
                    ELSE ~Esc
    BY DEF Controlled
<1>0. state \in States /\ fsm_out.dvalid = TRUE /\ ~Owing /\ Waiting
      BY DEF RegsOK, WireInv, Waiting, Signals
<1>1. state \notin {"IDLE", "SOF"}
      BY <1>0 DEF StageInv, IdleInv, SofInv
<1>2. CASE state \in {"ETH_HEADER"}
      BY <1>2, TxWords DEF StageInv, HeaderInv, Enabled, Esc, Ins!Escaped, Ins!match_esc_code
<1>3. CASE state = "SUBFRAME_HEADER"
      BY <1>0, <1>3, TxWords DEF StageInv, SubframeInv, Enabled, Esc, Ins!Escaped, Ins!match_esc_code,
         CrcWaits, TheMark
<1>4. CASE state = "PAYLOAD"
      BY <1>0, <1>4, TxWords DEF StageInv, PayloadInv, Enabled, TheMark, TheWord
<1>5. CASE state = "CRC_WORD"
      BY <1>0, <1>5, TxWords DEF StageInv, CrcInv, Enabled
<1>6. CASE state \in {"PADDING", "EOF"}
      BY <1>0, <1>6, TxWords DEF StageInv, PaddingInv, EofInv, Enabled, CrcWaits, PadWaits, TheMark, TheWord
<1>. QED BY <1>0, <1>1, <1>2, <1>3, <1>4, <1>5, <1>6 DEF States

LEMMA WireMoves ==
  ASSUME HandledTraffic, RegsOK, WireInv, Controlled,
         NEW req \in BOOLEAN, NEW flush, NEW reset_seq, NEW word,
         Clock(req, flush, reset_seq, word)
  PROVE  /\ Esc => req /\ ~Dreq(req)
         /\ ~Esc => Dreq(req) = req
         /\ Arrives => GotWord /\ Got = TheWord /\ GotEscape = TheMark
         /\ ~Arrives => ~GotWord
         /\ Owing' = Esc
         /\ (det_state' = "CHECK_ESCAPE") = Esc
         /\ fsm_escape_enable => d_req_prev' = req
         /\ Esc => /\ fsm_escape_enable /\ Enabled
                   /\ (IF d_prev' = Zero THEN EscapeCode ELSE d_prev') = TheWord
                   /\ (d_prev' # Zero) = TheMark
<1>0. /\ ~req => MayStall
      /\ Ins!Edge(fsm_out.data, fsm_escape, fsm_out.dvalid, fsm_escape_enable, req)
      /\ Observe(Dreq(req), req)
      BY DEF Clock
<1>1. /\ fsm_out.dvalid \in BOOLEAN /\ fsm_escape \in BOOLEAN /\ fsm_escape_enable \in BOOLEAN
      /\ d_req_prev \in BOOLEAN /\ Esc \in BOOLEAN
      /\ ins_state \in {"IDLE", "INSERT_ESCAPE"} /\ det_state \in {"IDLE", "CHECK_ESCAPE"}
      BY DEF RegsOK, Signals, Esc, Ins!Escaped, Ins!match_esc_code
<1>2. Esc <=> fsm_out.dvalid /\ (fsm_escape \/ fsm_out.data = EscapeCode)
      BY DEF Esc, Ins!Escaped, Ins!match_esc_code
<1>3. Esc => req
      BY <1>0 DEF MayStall, HandledTraffic, Esc
<1>4. Dreq(req) = (req /\ ~Esc)
      BY DEF Dreq, Ins!d_req_o, Esc
<1>5. Det!Edge(Enabled, WireData, WireValid)
      BY <1>0 DEF Observe
<1>6. CASE Owing
  <2>1. /\ d_req_prev /\ ~fsm_out.dvalid /\ fsm_escape_enable /\ Enabled
        /\ det_state = "CHECK_ESCAPE" /\ ins_state = "INSERT_ESCAPE" /\ ~Esc
        BY <1>2, <1>6 DEF WireInv, Owing, Enabled, Frames
  <2>2. WireValid /\ WireData = d_prev
        BY <2>1 DEF WireValid, WireData, Ins!d_valid_o, Ins!d_o
  <2>3. GotWord /\ Got = TheWord /\ GotEscape = TheMark
        BY <1>6, <2>1, <2>2 DEF GotWord, Got, GotEscape, TheWord, TheMark,
           Det!d_valid_o, Det!d_o, Det!d_escape_o, Det!is_escape_code
  <2>4. det_state' = "IDLE"
        BY <1>5, <2>1, <2>3 DEF Det!Edge, Det!is_escape_code, GotWord
  <2>5. ins_state' = "IDLE" /\ d_req_prev' = req
        BY <1>0, <2>1 DEF Ins!Edge, Ins!Idle, Ins!InsertEscape
  <2>. QED BY <1>1, <1>3, <1>4, <1>6, <2>1, <2>3, <2>4, <2>5 DEF Arrives, Owing
<1>7. CASE ~Owing /\ ~Esc
  <2>1. det_state = "IDLE" /\ ins_state = "IDLE"
        BY <1>1, <1>7 DEF WireInv, Owing
  <2>2. WireValid = fsm_out.dvalid /\ (fsm_out.dvalid => WireData = fsm_out.data /\ WireData # EscapeCode /\ ~fsm_escape)
        BY <1>1, <1>2, <1>7, <2>1 DEF WireValid, WireData, Ins!d_valid_o, Ins!d_o
  <2>3. /\ fsm_out.dvalid => GotWord /\ Got = TheWord /\ GotEscape = TheMark
        /\ ~fsm_out.dvalid => ~GotWord
        BY <1>1, <1>7, <2>1, <2>2 DEF GotWord, Got, GotEscape, TheWord, TheMark,
           Det!d_valid_o, Det!d_o, Det!d_escape_o, Det!is_escape_code
  <2>4. det_state' = "IDLE"
        BY <1>5, <2>1, <2>2 DEF Det!Edge, Det!is_escape_code, Det!d_valid_o
  <2>5. ins_state' = "IDLE" /\ (fsm_escape_enable => d_req_prev' = req)
        BY <1>0, <1>1, <1>7, <2>1 DEF Ins!Edge, Ins!Idle, Ins!InsertEscape, Ins!Disabled, Esc
  <2>. QED BY <1>1, <1>3, <1>4, <1>7, <2>3, <2>4, <2>5 DEF Arrives, Owing
<1>8. CASE ~Owing /\ Esc
  <2>1. /\ det_state = "IDLE" /\ ins_state = "IDLE" /\ fsm_out.dvalid
        /\ Enabled /\ fsm_escape_enable /\ (fsm_escape => fsm_out.data # Zero)
        BY <1>1, <1>2, <1>8 DEF WireInv, Owing, Controlled
  <2>2. WireValid /\ WireData = EscapeCode
        BY <1>1, <1>2, <1>8, <2>1 DEF WireValid, WireData, Ins!d_valid_o, Ins!d_o
  <2>3. ~GotWord
        BY <2>1, <2>2 DEF GotWord, Det!d_valid_o, Det!is_escape_code
  <2>4. det_state' = "CHECK_ESCAPE"
        BY <1>5, <2>1, <2>2 DEF Det!Edge, Det!is_escape_code
  <2>5. /\ ins_state' = "INSERT_ESCAPE" /\ d_req_prev' = req
        /\ d_prev' = IF fsm_escape THEN fsm_out.data ELSE Zero
        BY <1>0, <1>1, <1>8, <2>1 DEF Ins!Edge, Ins!Idle, Ins!InsertEscape, Esc
  <2>6. /\ (IF d_prev' = Zero THEN EscapeCode ELSE d_prev') = TheWord
        /\ (d_prev' # Zero) = TheMark
        BY <1>1, <1>2, <1>8, <2>1, <2>5 DEF TheWord, TheMark
  <2>. QED BY <1>1, <1>3, <1>4, <1>8, <2>1, <2>3, <2>4, <2>5, <2>6 DEF Arrives, Owing
<1>. QED BY <1>6, <1>7, <1>8

Phases == {"none", "header", "start", "payload", "closed", "padding"}

LEMMA FrameGrows ==
  ASSUME NEW f \in Frames, NEW p \in Phases, NEW n \in Nat
  PROVE  /\ In(f, p, n) \in Frames /\ In(f, p, n).phase = p /\ In(f, p, n).n = n
         /\ In(f, p, n).words = Grown(f.words)
<1>1. MinWords \in Nat /\ f.words \in 0 .. MinWords
      BY FrameAssumption DEF Frames
<1>2. Grown(f.words) \in 0 .. MinWords
      BY <1>1 DEF Grown
<1>3. In(f, p, n) = [phase |-> p, n |-> n, words |-> Grown(f.words)]
      BY DEF In, Grown
<1>. QED BY <1>2, <1>3 DEF Frames, Phases

Ready == /\ HandledTraffic /\ RegsOK /\ WireInv /\ StageInv
         /\ fifo \in Seq(Entry)

(* Where the wire is in the frame after the word of this cycle. *)
FrameThen ==
  IF ~Arrives THEN frame
  ELSE IF frame.phase = "payload" /\ ~TheMark
       THEN IF inflight = <<>> THEN AfterCrc(frame, TheWord)
            ELSE IF TheWord = Head(inflight) THEN AfterData(frame) ELSE BadFrame
       ELSE AfterOther(frame, TheWord, TheMark)

DataArrives == Arrives /\ frame.phase = "payload" /\ ~TheMark /\ inflight # <<>>
Taken(dreq) == IF state = "PAYLOAD" /\ dreq /\ ~tx_fifo_empty
               THEN <<Subword(Head(fifo), ser_count)>> ELSE <<>>

LEMMA FrameMoves ==
  ASSUME Ready, RegsOK',
         NEW req \in BOOLEAN, NEW flush, NEW reset_seq, NEW word,
         Clock(req, flush, reset_seq, word)
  PROVE  /\ frame' = CASE fsm_out.sof -> AfterSof(FrameThen)
                       [] fsm_out.eof -> AfterEof(FrameThen)
                       [] OTHER       -> FrameThen
         /\ inflight' = (IF DataArrives THEN Tail(inflight) ELSE inflight) \o Taken(Dreq(req))
<1>0. HandledTraffic /\ RegsOK /\ WireInv /\ Controlled
      BY StageControlled DEF Ready
<1>1. Observe(Dreq(req), req) /\ ~GivesUp(req)
      BY <1>0 DEF Clock, MayStall, HandledTraffic, GivesUp
<1>2. /\ Arrives => GotWord /\ Got = TheWord /\ GotEscape = TheMark
      /\ ~Arrives => ~GotWord
      BY <1>0, WireMoves
<1>3. GotData = DataArrives
      BY <1>2 DEF GotData, DataArrives
<1>4. FrameAfterWord = FrameThen
  <2>1. CASE ~Arrives
        BY <1>2, <2>1 DEF FrameAfterWord, FrameThen, GotData, GotCrc
  <2>2. CASE Arrives /\ frame.phase = "payload" /\ ~TheMark
        BY <1>2, <2>2 DEF FrameAfterWord, FrameThen, GotData, GotCrc
  <2>3. CASE Arrives /\ ~(frame.phase = "payload" /\ ~TheMark)
        BY <1>2, <2>3 DEF FrameAfterWord, FrameThen, GotData, GotCrc
  <2>. QED BY <2>1, <2>2, <2>3
<1>5. FrameThen.phase # "lost"
      BY <1>0 DEF FrameThen, AfterCrc, AfterData, AfterOther, BadFrame, In, WireInv, Frames
<1>6. frame' = CASE fsm_out.sof -> AfterSof(FrameThen)
                 [] fsm_out.eof -> AfterEof(FrameThen)
                 [] OTHER       -> FrameThen
      BY <1>1, <1>4 DEF Observe, FrameAfterMarks
<1>7. frame'.phase # "lost"
      BY <1>5, <1>6 DEF AfterSof, AfterEof, NoFrame, BadFrame
<1>. QED BY <1>1, <1>3, <1>6, <1>7 DEF Observe, Taken

(* The word on its way in the next cycle. *)
LEMMA NextWord ==
  ASSUME Ready, RegsOK',
         NEW req \in BOOLEAN, NEW flush, NEW reset_seq, NEW word,
         Clock(req, flush, reset_seq, word)
  PROVE  /\ Owing' = Esc
         /\ Esc => /\ Waiting /\ ~Arrives /\ Waiting' = TRUE
                   /\ TheWord' = TheWord /\ TheMark' = TheMark
         /\ ~Esc => /\ Arrives = Waiting /\ Waiting' = fsm_out'.dvalid
                    /\ TheWord' = fsm_out'.data /\ TheMark' = fsm_escape'
<1>0. HandledTraffic /\ RegsOK /\ WireInv /\ Controlled
      BY StageControlled DEF Ready
<1>1. /\ Owing' = Esc
      /\ Esc => /\ (IF d_prev' = Zero THEN EscapeCode ELSE d_prev') = TheWord
                /\ (d_prev' # Zero) = TheMark
      BY <1>0, WireMoves
<1>2. /\ Owing \in BOOLEAN /\ fsm_out.dvalid \in BOOLEAN /\ Esc \in BOOLEAN
      /\ Owing => ~fsm_out.dvalid
      /\ Esc => fsm_out.dvalid
      BY <1>0 DEF Owing, RegsOK, Signals, Esc, Ins!Escaped, Ins!match_esc_code, WireInv
<1>3. fsm_out'.dvalid \in BOOLEAN /\ fsm_escape' \in BOOLEAN
      BY DEF RegsOK, Signals
<1>4. CASE Esc
      BY <1>1, <1>2, <1>4 DEF Waiting, TheWord, TheMark, Arrives
<1>5. CASE ~Esc
      BY <1>1, <1>2, <1>3, <1>5 DEF Waiting, TheWord, TheMark, Arrives
<1>. QED BY <1>1, <1>4, <1>5

(* The wire keeps its invariant if p_fsm puts a word only after a request. *)
LEMMA WireNext ==
  ASSUME Ready, RegsOK',
         NEW req \in BOOLEAN, NEW flush, NEW reset_seq, NEW word,
         Clock(req, flush, reset_seq, word),
         Quiet, frame.phase # "none",
         frame' \in Frames, inflight' \in Seq(FabricWord),
         frame'.words = IF Arrives THEN Grown(frame.words) ELSE frame.words,
         Esc => frame' = frame,
         fsm_out'.dvalid => Dreq(req),
         fsm_escape_enable => fsm_escape_enable',
         frame'.phase = "payload" => fsm_escape_enable
  PROVE  WireInv'
<1>0. HandledTraffic /\ RegsOK /\ WireInv /\ Controlled
      BY StageControlled DEF Ready
<1>1. /\ Esc => req /\ ~Dreq(req) /\ fsm_escape_enable /\ Enabled
      /\ ~Esc => Dreq(req) = req
      /\ Owing' = Esc /\ (det_state' = "CHECK_ESCAPE") = Esc
      /\ fsm_escape_enable => d_req_prev' = req
      BY <1>0, WireMoves
<1>2. /\ Owing => ~fsm_out.dvalid
      /\ Esc => fsm_out.dvalid
      /\ fsm_out.dvalid \in BOOLEAN /\ Esc \in BOOLEAN /\ Owing \in BOOLEAN
      /\ fsm_out.sof = FALSE
      BY <1>0 DEF WireInv, Esc, Ins!Escaped, Ins!match_esc_code, RegsOK, Signals, Owing, Quiet
<1>3. MinWords \in Nat /\ frame.words \in 0 .. MinWords
      BY <1>0, FrameAssumption DEF WireInv, Frames
<1>4. total_words' = IF Esc /\ frame'.words < MinWords
                     THEN frame'.words + 1 ELSE frame'.words
  <2>1. total_words' = IF fsm_out.dvalid THEN Grown(total_words) ELSE total_words
        BY <1>0, <1>2 DEF Clock, CountWords, RegsOK, Grown
  <2>2. total_words = IF Owing THEN Grown(frame.words) ELSE frame.words
        BY <1>0 DEF WireInv, Grown
  <2>3. frame'.words = IF Owing \/ (fsm_out.dvalid /\ ~Esc) THEN Grown(frame.words) ELSE frame.words
        BY DEF Arrives
  <2>. QED BY <1>2, <1>3, <2>1, <2>2, <2>3 DEF Grown
<1>5. Esc => d_req_prev' /\ ~fsm_out'.dvalid /\ fsm_escape_enable'
             /\ frame'.phase \notin {"none", "header"}
      BY <1>1 DEF Enabled
<1>6. frame'.phase = "payload" /\ fsm_out'.dvalid => d_req_prev'
  <2>1. SUFFICES ASSUME frame'.phase = "payload", fsm_out'.dvalid PROVE d_req_prev'
        OBVIOUS
  <2>2. ~Esc /\ fsm_escape_enable
        BY <1>1, <2>1
  <2>3. req /\ d_req_prev' = req
        BY <1>1, <2>1, <2>2
  <2>. QED BY <2>3
<1>. QED BY <1>1, <1>4, <1>5, <1>6 DEF WireInv

-----------------------------------------------------------------------------
(* One lemma for each state of p_fsm. *)
LEMMA FsmIs ==
  ASSUME NEW dreq, NEW flush, NEW reset_seq, Fsm(dreq, flush, reset_seq)
  PROVE  /\ state = "IDLE" => Idle(dreq, flush, reset_seq)
         /\ state = "SOF" => Sof(reset_seq)
         /\ state = "ETH_HEADER" => EthHeader(dreq, reset_seq)
         /\ state = "SUBFRAME_HEADER" => SubframeHeader(dreq, reset_seq)
         /\ state = "PAYLOAD" => Payload(dreq, reset_seq)
         /\ state = "CRC_WORD" => CrcState(dreq, reset_seq)
         /\ state = "PADDING" => Padding(dreq, reset_seq)
         /\ state = "EOF" => Eof(dreq, reset_seq)
BY DEF Fsm, Idle, Sof, EthHeader, SubframeHeader, Payload, CrcState, Padding, Eof

(* What every step has at hand. *)
LEMMA AtHand ==
  ASSUME Ready, RegsOK',
         NEW req \in BOOLEAN, NEW flush, NEW reset_seq, NEW word,
         Clock(req, flush, reset_seq, word)
  PROVE  /\ Fsm(Dreq(req), flush, reset_seq) /\ Dreq(req) \in BOOLEAN
         /\ Dreq(req) => ~Esc
         /\ Esc <=> fsm_out.dvalid /\ (fsm_escape \/ fsm_out.data = EscapeCode)
         /\ fsm_out \in Signals /\ fsm_out' \in Signals
         /\ fsm_out.dvalid \in BOOLEAN /\ fsm_escape \in BOOLEAN
         /\ frame \in Frames /\ frame.n \in Nat /\ inflight \in Seq(FabricWord)
         /\ crc' = IF crc_reset THEN 0 ELSE crc_value
         /\ ~fsm_out.sof => total_words' = IF fsm_out.dvalid THEN Grown(total_words)
                                           ELSE total_words
         /\ fsm_out.sof => total_words' = 0
         /\ state # "PAYLOAD" => Taken(Dreq(req)) = <<>>
<1>1. Dreq(req) = (req /\ ~Esc)
      BY DEF Dreq, Ins!d_req_o, Esc
<1>. QED BY <1>1 DEF Ready, RegsOK, Clock, CrcGen, CountWords, Esc, Ins!Escaped,
            Ins!match_esc_code, Signals, WireInv, Frames, Taken, Grown

(* Without a word on its way and outside the subframes the wire is at rest. *)
LEMMA WireRests ==
  ASSUME Ready, RegsOK',
         NEW req \in BOOLEAN, NEW flush, NEW reset_seq, NEW word,
         Clock(req, flush, reset_seq, word),
         ~Esc, frame' \in Frames, inflight' = <<>>, frame'.phase # "payload",
         frame'.phase # "none" => total_words' = frame'.words
  PROVE  WireInv'
<1>1. (det_state' = "CHECK_ESCAPE") = Esc /\ Owing' = Esc /\ Esc \in BOOLEAN
  <2>1. (det_state' = "CHECK_ESCAPE") = Esc /\ Owing' = Esc
        BY WireMoves, StageControlled DEF Ready
  <2>. QED BY <2>1, AtHand DEF Owing
<1>2. Owing' = FALSE /\ (det_state' = "CHECK_ESCAPE") = FALSE
      BY <1>1
<1>3. inflight' \in Seq(FabricWord)
      OBVIOUS
<1>4. frame'.phase # "none" =>
        total_words' = IF Owing' /\ frame'.words < MinWords
                       THEN frame'.words + 1 ELSE frame'.words
      BY <1>2
<1>. QED BY <1>2, <1>3, <1>4 DEF WireInv

LEMMA IdleStep ==
  ASSUME Ready, RegsOK',
         NEW req \in BOOLEAN, NEW flush, NEW reset_seq, NEW word,
         Clock(req, flush, reset_seq, word), state = "IDLE"
  PROVE  WireInv' /\ StageInv'
<1>1. /\ ~fsm_out.sof /\ ~Waiting /\ inflight = <<>> /\ CrcIdle
      /\ IF fsm_out.eof THEN frame.phase = "padding" /\ frame.words = MinWords
         ELSE frame = NoFrame
      BY DEF Ready, StageInv, IdleInv
<1>2. Idle(Dreq(req), flush, reset_seq)
      BY AtHand, FsmIs
<1>3. ~fsm_out.dvalid /\ ~Owing /\ ~Esc /\ ~Arrives
      BY <1>1, AtHand DEF Waiting, Arrives
<1>4. frame' = NoFrame
  <2>1. FrameThen = frame
        BY <1>3 DEF FrameThen
  <2>2. MinWords >= MinWords
        BY FrameAssumption
  <2>. QED BY <1>1, <2>1, <2>2, FrameMoves DEF AfterEof
<1>5. inflight' = <<>>
      BY <1>1, <1>3, AtHand, FrameMoves DEF DataArrives
<1>6. /\ fsm_out'.dvalid = FALSE /\ fsm_out'.eof = FALSE
      /\ fsm_out'.sof => state' = "SOF"
      /\ ~fsm_out'.sof => state' = "IDLE"
      /\ ~fsm_escape' /\ ~fsm_escape_enable' /\ ~crc_en'
  <2> DEFINE start == Dreq(req) /\ (tx_flush_latched \/ flush \/ tx_threshold_hit)
  <2>1. /\ fsm_out' = [fsm_out EXCEPT !.eof = FALSE, !.sof = start] /\ start \in BOOLEAN
        /\ state' = IF start THEN "SOF" ELSE state
        /\ ~fsm_escape' /\ ~fsm_escape_enable' /\ ~crc_en'
        BY <1>2 DEF Idle
  <2>. HIDE DEF start
  <2>2. fsm_out \in Signals /\ fsm_out.dvalid = FALSE
        BY <1>3, AtHand
  <2>3. fsm_out'.dvalid = FALSE /\ fsm_out'.eof = FALSE /\ fsm_out'.sof = start
        BY <2>1, <2>2 DEF Signals
  <2>. QED BY <2>1, <2>3
<1>7. ~Waiting' /\ ~Owing'
      BY <1>3, <1>6, NextWord
<1>8. CrcIdle'
  <2>1. crc' = 0
        BY <1>1, <1>3, AtHand DEF CrcIdle, crc_value
  <2>. QED BY <1>6, <2>1 DEF CrcIdle
<1>9. WireInv'
  <2>1. NoFrame \in Frames /\ NoFrame.phase = "none"
        BY FrameAssumption DEF NoFrame, Frames
  <2>. QED BY <1>3, <1>4, <1>5, <2>1, WireRests
<1>10. CASE fsm_out'.sof
  <2>1. state' = "SOF"
        BY <1>6, <1>10
  <2>2. SofInv'
        BY <1>4, <1>5, <1>6, <1>7, <1>8, <1>10 DEF SofInv
  <2>. QED BY <1>9, <2>1, <2>2 DEF StageInv, IdleInv, HeaderInv, SubframeInv, PayloadInv,
              CrcInv, PaddingInv, EofInv
<1>11. CASE ~fsm_out'.sof
  <2>1. state' = "IDLE"
        BY <1>6, <1>11
  <2>2. IdleInv'
        BY <1>4, <1>5, <1>6, <1>7, <1>8, <1>11 DEF IdleInv
  <2>. QED BY <1>9, <2>1, <2>2 DEF StageInv, SofInv, HeaderInv, SubframeInv, PayloadInv,
              CrcInv, PaddingInv, EofInv
<1>. QED BY <1>10, <1>11

LEMMA SofStep ==
  ASSUME Ready, RegsOK',
         NEW req \in BOOLEAN, NEW flush, NEW reset_seq, NEW word,
         Clock(req, flush, reset_seq, word), state = "SOF"
  PROVE  WireInv' /\ StageInv'
<1>1. /\ fsm_out.sof /\ ~fsm_out.eof /\ ~Waiting /\ inflight = <<>> /\ CrcIdle
      /\ frame = NoFrame /\ ~fsm_escape /\ ~fsm_escape_enable /\ ~crc_en
      BY DEF Ready, StageInv, SofInv
<1>2. Sof(reset_seq)
      BY AtHand, FsmIs
<1>3. ~fsm_out.dvalid /\ ~Owing /\ ~Esc /\ ~Arrives
      BY <1>1, AtHand DEF Waiting, Arrives
<1>4. frame' = [phase |-> "header", n |-> 0, words |-> 0]
  <2>1. FrameThen = NoFrame
        BY <1>1, <1>3 DEF FrameThen
  <2>. QED BY <1>1, <2>1, FrameMoves DEF AfterSof, NoFrame
<1>5. inflight' = <<>>
      BY <1>1, <1>3, AtHand, FrameMoves DEF DataArrives
<1>6. /\ fsm_out'.dvalid = FALSE /\ fsm_out'.eof = FALSE /\ fsm_out'.sof = FALSE
      /\ state' = "ETH_HEADER" /\ count' = 0 /\ ser_count' = 0
      /\ ~fsm_escape' /\ ~fsm_escape_enable' /\ ~crc_en'
  <2>1. fsm_out' = [fsm_out EXCEPT !.sof = FALSE]
        BY <1>2 DEF Sof
  <2>2. fsm_out \in Signals /\ fsm_out.dvalid = FALSE /\ fsm_out.eof = FALSE
        BY <1>1, <1>3, AtHand DEF Signals
  <2>3. fsm_out'.dvalid = FALSE /\ fsm_out'.eof = FALSE /\ fsm_out'.sof = FALSE
        BY <2>1, <2>2 DEF Signals
  <2>. QED BY <1>1, <1>2, <2>3 DEF Sof
<1>7. ~Waiting' /\ ~Owing'
      BY <1>3, <1>6, NextWord
<1>8. CrcIdle'
  <2>1. crc' = 0
        BY <1>1, <1>3, AtHand DEF CrcIdle, crc_value
  <2>. QED BY <1>6, <2>1 DEF CrcIdle
<1>9. WireInv'
  <2>1. frame' \in Frames /\ frame'.phase = "header" /\ frame'.words = 0
        BY <1>4, FrameAssumption DEF Frames
  <2>2. total_words' = 0
        BY <1>1, AtHand
  <2>. QED BY <1>3, <1>5, <2>1, <2>2, WireRests
<1>10. HeaderInv'
      BY <1>4, <1>5, <1>6, <1>7, <1>8 DEF HeaderInv, Quiet
<1>. QED BY <1>6, <1>9, <1>10 DEF StageInv, IdleInv, SofInv, SubframeInv, PayloadInv,
            CrcInv, PaddingInv, EofInv

LEMMA HeaderStep ==
  ASSUME Ready, RegsOK',
         NEW req \in BOOLEAN, NEW flush, NEW reset_seq, NEW word,
         Clock(req, flush, reset_seq, word), state = "ETH_HEADER"
  PROVE  WireInv' /\ StageInv'
<1>1. /\ Quiet /\ ~Owing /\ inflight = <<>> /\ CrcIdle /\ ser_count = 0
      /\ ~fsm_escape /\ ~fsm_escape_enable /\ ~crc_en
      /\ frame.phase = "header"
      /\ frame.n + (IF fsm_out.dvalid THEN 1 ELSE 0) = count
      /\ fsm_out.dvalid => fsm_out.data = HeadWord
      BY DEF Ready, StageInv, HeaderInv
<1>2. EthHeader(Dreq(req), reset_seq)
      BY AtHand, FsmIs
<1>3. ~Esc /\ Arrives = fsm_out.dvalid /\ (Arrives => TheWord = HeadWord /\ TheMark = FALSE)
      BY <1>1, AtHand, TxWords DEF Arrives, TheWord, TheMark, Owing
<1>c. count \in Nat /\ count < HeaderWords /\ HeaderWords \in Nat /\ frame.n \in Nat
      /\ frame \in Frames
  <2>1. frame.n \in Nat /\ frame \in Frames
        BY AtHand
  <2>2. count \in 0 .. CountSize - 1 /\ count < HeaderWords
        BY DEF Ready, RegsOK
  <2>3. CountSize \in Nat /\ HeaderWords \in Nat
        BY TxAssumption, FrameAssumption
  <2>. QED BY <2>1, <2>2, <2>3
<1>4. /\ frame' \in Frames /\ frame'.phase = "header" /\ frame'.n = count
      /\ frame'.words = IF Arrives THEN Grown(frame.words) ELSE frame.words
  <2>1. frame' = FrameThen
        BY <1>1, FrameMoves DEF Quiet
  <2>2. CASE Arrives
    <3>1. frame.n + 1 = count /\ count # HeaderWords /\ count \in Nat
          BY <1>1, <1>3, <1>c, <2>2
    <3>2. FrameThen = In(frame, "header", count)
          BY <1>1, <1>3, <2>2, <3>1 DEF FrameThen, AfterOther
    <3>3. /\ In(frame, "header", count) \in Frames
          /\ In(frame, "header", count).phase = "header"
          /\ In(frame, "header", count).n = count
          /\ In(frame, "header", count).words = Grown(frame.words)
      <4>1. "header" \in Phases /\ frame \in Frames /\ count \in Nat
            BY <1>c DEF Phases
      <4>. QED BY <4>1, FrameGrows
    <3>. QED BY <2>1, <2>2, <3>2, <3>3
  <2>3. CASE ~Arrives
        BY <1>1, <1>3, <1>c, <2>1, <2>3 DEF FrameThen
  <2>. QED BY <2>2, <2>3
<1>5. inflight' = <<>>
      BY <1>1, AtHand, FrameMoves DEF DataArrives
<1>6. /\ fsm_out'.eof = FALSE /\ fsm_out'.sof = FALSE
      /\ fsm_out'.dvalid = Dreq(req) /\ (fsm_out'.dvalid => fsm_out'.data = HeadWord)
      /\ ~fsm_escape' /\ ~fsm_escape_enable' /\ ~crc_en' /\ ser_count' = 0
  <2>0. fsm_out \in Signals /\ fsm_out.eof = FALSE /\ fsm_out.sof = FALSE
        BY <1>1, AtHand DEF Quiet, Signals
  <2>1. CASE Dreq(req)
    <3>1. fsm_out' = Word(HeadWord)
          BY <1>2, <2>1 DEF EthHeader
    <3>2. /\ fsm_out'.eof = FALSE /\ fsm_out'.sof = FALSE
          /\ fsm_out'.dvalid = TRUE /\ fsm_out'.data = HeadWord
          BY <3>1, TxWords, SignalsMade
    <3>3. /\ ser_count' = ser_count /\ fsm_escape' = fsm_escape
          /\ fsm_escape_enable' = fsm_escape_enable /\ crc_en' = crc_en
          BY <1>2 DEF EthHeader
    <3>4. ~fsm_escape' /\ ~fsm_escape_enable' /\ ~crc_en' /\ ser_count' = 0
          BY <1>1, <3>3
    <3>5. Dreq(req) = TRUE
          BY <2>1, AtHand
    <3>. QED BY <3>2, <3>4, <3>5
  <2>2. CASE ~Dreq(req)
    <3>1. fsm_out' = [fsm_out EXCEPT !.dvalid = FALSE]
          BY <1>2, <2>2 DEF EthHeader
    <3>2. fsm_out'.eof = FALSE /\ fsm_out'.sof = FALSE /\ fsm_out'.dvalid = FALSE
          BY <2>0, <3>1 DEF Signals
    <3>. QED BY <1>1, <1>2, <2>2, <3>2, AtHand DEF EthHeader
  <2>. QED BY <2>1, <2>2
<1>7. ~Owing' /\ Waiting' = fsm_out'.dvalid
      BY <1>3, NextWord
<1>8. CrcIdle'
  <2>1. crc' = 0
        BY <1>1, AtHand DEF CrcIdle, crc_value
  <2>. QED BY <1>6, <2>1 DEF CrcIdle
<1>9. WireInv'
  <2>1. Esc => frame' = frame
        BY <1>3
  <2>. QED BY <1>1, <1>4, <1>5, <1>6, <2>1, WireNext
<1>10. CASE Dreq(req) /\ count = HeaderWords - 1
  <2>1. state' = "SUBFRAME_HEADER"
        BY <1>2, <1>10 DEF EthHeader
  <2>2. SubframeInv'
        BY <1>4, <1>5, <1>6, <1>8, <1>10 DEF SubframeInv, Quiet
  <2>. QED BY <1>9, <2>1, <2>2 DEF StageInv, IdleInv, SofInv, HeaderInv, PayloadInv,
              CrcInv, PaddingInv, EofInv
<1>11. CASE ~(Dreq(req) /\ count = HeaderWords - 1)
  <2>1. state' = "ETH_HEADER" /\ count' = IF Dreq(req) THEN count + 1 ELSE count
        BY <1>2, <1>11 DEF EthHeader
  <2>2. HeaderInv'
        BY <1>4, <1>5, <1>6, <1>7, <1>8, <1>c, <2>1 DEF HeaderInv, Quiet
  <2>. QED BY <1>9, <2>1, <2>2 DEF StageInv, IdleInv, SofInv, SubframeInv, PayloadInv,
              CrcInv, PaddingInv, EofInv
<1>. QED BY <1>10, <1>11

(* The CRC of a subframe leaves. *)
LEMMA CrcArrives ==
  ASSUME Ready, RegsOK',
         NEW req \in BOOLEAN, NEW flush, NEW reset_seq, NEW word,
         Clock(req, flush, reset_seq, word),
         Quiet, inflight = <<>>, frame.phase = "payload", CrcWaits, state # "PAYLOAD"
  PROVE  /\ inflight' = <<>>
         /\ Esc => frame' = frame /\ CrcWaits' /\ ~Arrives
         /\ ~Esc => /\ Arrives /\ frame' \in Frames /\ frame'.phase = "closed"
                    /\ frame'.words = Grown(frame.words)
<1>1. inflight' = <<>>
      BY AtHand, FrameMoves DEF DataArrives
<1>2. frame' = FrameThen
      BY FrameMoves DEF Quiet
<1>3. Esc => frame' = frame /\ CrcWaits' /\ ~Arrives
  <2>1. SUFFICES ASSUME Esc PROVE frame' = frame /\ CrcWaits' /\ ~Arrives
        OBVIOUS
  <2>2. ~Arrives /\ Waiting' = TRUE /\ TheWord' = TheWord /\ TheMark' = TheMark
        BY <2>1, NextWord
  <2>3. frame' = frame
        BY <1>2, <2>2 DEF FrameThen
  <2>. QED BY <2>2, <2>3 DEF CrcWaits
<1>4. ~Esc => /\ Arrives /\ frame' \in Frames /\ frame'.phase = "closed"
              /\ frame'.words = Grown(frame.words)
  <2>1. SUFFICES ASSUME ~Esc
                 PROVE  /\ Arrives /\ frame' \in Frames /\ frame'.phase = "closed"
                        /\ frame'.words = Grown(frame.words)
        OBVIOUS
  <2>2. Arrives
        BY <2>1, NextWord DEF CrcWaits
  <2>3. FrameThen = AfterCrc(frame, TheWord)
        BY <2>2 DEF FrameThen, CrcWaits
  <2>4. FrameThen = In(frame, "closed", 0)
        BY <2>3 DEF AfterCrc, CrcWaits
  <2>5. "closed" \in Phases /\ frame \in Frames /\ 0 \in Nat
        BY AtHand DEF Phases
  <2>6. /\ In(frame, "closed", 0) \in Frames /\ In(frame, "closed", 0).phase = "closed"
        /\ In(frame, "closed", 0).words = Grown(frame.words)
        BY <2>5, FrameGrows
  <2>. QED BY <1>2, <2>2, <2>4, <2>6
<1>. QED BY <1>1, <1>3, <1>4

LEMMA SubframeStep ==
  ASSUME Ready, RegsOK',
         NEW req \in BOOLEAN, NEW flush, NEW reset_seq, NEW word,
         Clock(req, flush, reset_seq, word), state = "SUBFRAME_HEADER"
  PROVE  WireInv' /\ StageInv'
<1>1. Quiet /\ inflight = <<>> /\ CrcIdle /\ ser_count = 0
      BY DEF Ready, StageInv, SubframeInv
<1>2. SubframeHeader(Dreq(req), reset_seq)
      BY AtHand, FsmIs
<1>3. inflight' = <<>> /\ frame' = FrameThen
      BY <1>1, AtHand, FrameMoves DEF DataArrives, Quiet
<1>4. /\ frame' \in Frames
      /\ frame'.words = IF Arrives THEN Grown(frame.words) ELSE frame.words
      /\ Esc => frame' = frame /\ frame.phase = "payload" /\ CrcWaits'
                /\ fsm_escape_enable
      /\ ~Esc => frame'.phase = "start" \/ (frame'.phase = "closed" /\ fsm_escape_enable)
      /\ frame.phase # "none"
  <2>0. frame \in Frames
        BY AtHand
  <2>1. CASE /\ frame.phase = "header" /\ frame.n = HeaderWords - 1
             /\ fsm_out.dvalid /\ fsm_out.data = HeadWord
             /\ ~fsm_escape /\ ~fsm_escape_enable
    <3>1. ~Esc /\ Arrives /\ ~Owing
          BY <2>1, AtHand, TxWords DEF Arrives, Ready, WireInv
    <3>2. TheWord = HeadWord /\ ~TheMark
          BY <2>1, <3>1 DEF TheWord, TheMark
    <3>3. frame.n + 1 = HeaderWords
          BY <2>1, FrameAssumption
    <3>4. FrameThen = In(frame, "start", 0)
          BY <2>1, <3>1, <3>2, <3>3 DEF FrameThen, AfterOther
    <3>5. "start" \in Phases /\ 0 \in Nat
          BY DEF Phases
    <3>6. /\ In(frame, "start", 0) \in Frames /\ In(frame, "start", 0).phase = "start"
          /\ In(frame, "start", 0).words = Grown(frame.words)
          BY <2>0, <3>5, FrameGrows
    <3>. QED BY <1>3, <2>1, <3>1, <3>4, <3>6
  <2>2. CASE frame.phase = "start" /\ ~Waiting
    <3>1. ~Esc /\ ~Arrives
          BY <2>2, AtHand DEF Waiting, Arrives
    <3>. QED BY <1>3, <2>0, <2>2, <3>1 DEF FrameThen
  <2>3. CASE frame.phase = "payload" /\ fsm_escape_enable /\ CrcWaits
    <3>1. /\ Esc => frame' = frame /\ CrcWaits' /\ ~Arrives
          /\ ~Esc => /\ Arrives /\ frame' \in Frames /\ frame'.phase = "closed"
                     /\ frame'.words = Grown(frame.words)
          BY <1>1, <2>3, CrcArrives
    <3>. QED BY <2>0, <2>3, <3>1
  <2>4. CASE frame.phase = "closed" /\ fsm_escape_enable /\ ~Waiting
    <3>1. ~Esc /\ ~Arrives
          BY <2>4, AtHand DEF Waiting, Arrives
    <3>. QED BY <1>3, <2>0, <2>4, <3>1 DEF FrameThen
  <2>. QED BY <2>1, <2>2, <2>3, <2>4 DEF Ready, StageInv, SubframeInv
<1>5. /\ fsm_out'.eof = FALSE /\ fsm_out'.sof = FALSE /\ fsm_out'.dvalid = Dreq(req)
      /\ ser_count' = 0 /\ crc_en' = TRUE /\ crc_reset' = FALSE
      /\ fsm_escape_enable => fsm_escape_enable'
      /\ Dreq(req) => /\ fsm_escape' = TRUE /\ fsm_escape_enable' = TRUE
                      /\ state' = "PAYLOAD" /\ fsm_out'.data = SeqWord(seq_no)
      /\ ~Dreq(req) => state' = "SUBFRAME_HEADER"
  <2>1. SeqWord(seq_no) \in FabricWord
        BY TxWords, TxAssumption DEF Ready, RegsOK
  <2>2. CASE Dreq(req)
        BY <1>1, <1>2, <2>1, <2>2, SignalsMade DEF SubframeHeader
  <2>3. CASE ~Dreq(req)
    <3>1. Dreq(req) = FALSE /\ state' = "SUBFRAME_HEADER" /\ fsm_out' = NoWord
          BY <1>2, <2>3, AtHand DEF SubframeHeader
    <3>2. ser_count' = 0 /\ crc_en' = TRUE /\ crc_reset' = FALSE
          BY <1>1, <1>2 DEF SubframeHeader
    <3>3. fsm_escape_enable' = fsm_escape_enable
          BY <1>2, <2>3 DEF SubframeHeader
    <3>. QED BY <2>3, <3>1, <3>2, <3>3, SignalsMade
  <2>. QED BY <2>2, <2>3
<1>6. crc' = 0
      BY <1>1, AtHand DEF CrcIdle, crc_value
<1>7. WireInv'
  <2>1. /\ Esc => frame' = frame
        /\ fsm_out'.dvalid => Dreq(req)
        /\ frame'.phase = "payload" => fsm_escape_enable
        BY <1>4, <1>5
  <2>. QED BY <1>1, <1>3, <1>4, <1>5, <2>1, WireNext
<1>8. CASE Dreq(req)
  <2>1. ~Esc
        BY <1>8, AtHand
  <2>2. /\ Waiting' = fsm_out'.dvalid /\ TheWord' = fsm_out'.data /\ TheMark' = fsm_escape'
        BY <2>1, NextWord
  <2>3. Waiting' /\ TheMark' /\ TheWord'.kind = "seq"
        BY <1>5, <1>8, <2>2 DEF SeqWord
  <2>4. crc_value' = 1
        BY <1>5, <1>6, <1>8 DEF crc_value
  <2>5. PayloadInv'
        BY <1>3, <1>4, <1>5, <1>8, <2>1, <2>3, <2>4 DEF PayloadInv, Quiet
  <2>. QED BY <1>5, <1>7, <1>8, <2>5 DEF StageInv, IdleInv, SofInv, HeaderInv, SubframeInv,
              CrcInv, PaddingInv, EofInv
<1>9. CASE ~Dreq(req)
  <2>1. CrcIdle'
        BY <1>5, <1>6, <1>9 DEF CrcIdle
  <2>2. Esc => SubframeInv'
        BY <1>3, <1>4, <1>5, <2>1 DEF SubframeInv, Quiet
  <2>3. ~Esc => SubframeInv'
    <3>1. ~Esc => ~Waiting'
          BY <1>5, <1>9, NextWord
    <3>. QED BY <1>3, <1>4, <1>5, <2>1, <3>1 DEF SubframeInv, Quiet
  <2>4. SubframeInv'
        BY <2>2, <2>3
  <2>. QED BY <1>5, <1>7, <1>9, <2>4 DEF StageInv, IdleInv, SofInv, HeaderInv, PayloadInv,
              CrcInv, PaddingInv, EofInv
<1>. QED BY <1>8, <1>9

(* A word that was not read stays in the buffer. *)
LEMMA FifoStays ==
  ASSUME fifo \in Seq(Entry), fifo # <<>>, NEW dreq, NEW word,
         UserWrites(word), Buffer(dreq, word), ~tx_fifo_rd(dreq)
  PROVE  fifo' # <<>>
<1> DEFINE new == Written(word)
<1>1. fifo' = fifo \o new
      BY DEF Buffer
<1>w. word # <<>> => new = <<>> \/ new = word
      BY DEF Written
<1>v. word = <<>> => new = <<>>
      BY DEF Written
<1> HIDE DEF new
<1>2. new \in Seq(Entry)
  <2>1. CASE new = <<>>
        BY <2>1
  <2>2. CASE new # <<>>
    <3>1. word = new
          BY <1>v, <1>w, <2>2
    <3>2. PICK e \in Entry : word = <<e>>
          BY <2>2, <3>1 DEF UserWrites
    <3>3. new = <<e>>
          BY <3>1, <3>2
    <3>. QED BY <3>3
  <2>. QED BY <2>1, <2>2
<1>3. Len(fifo') = Len(fifo) + Len(new) /\ Len(fifo) \in Nat \ {0} /\ Len(new) \in Nat
      BY <1>1, <1>2
<1>. QED BY <1>3

(* The wire catches up: what was on its way is on the wire, or waits for   *)
(* another cycle behind its escape code. *)
LEMMA PayloadCaught ==
  ASSUME Ready, RegsOK',
         NEW req \in BOOLEAN, NEW flush, NEW reset_seq, NEW word,
         Clock(req, flush, reset_seq, word), state = "PAYLOAD"
  PROVE  /\ ~Esc => /\ frame' \in Frames /\ frame'.phase = "payload"
                    /\ frame'.n % Subwords = ser_count /\ crc' = frame'.n + 1
                    /\ frame'.words = IF Arrives THEN Grown(frame.words) ELSE frame.words
                    /\ inflight' = Taken(Dreq(req))
         /\ Esc => frame' = frame /\ inflight' = inflight /\ crc' = crc_value
<1>1. /\ Quiet /\ fsm_escape_enable /\ crc_en /\ ~crc_reset
      /\ \/ /\ frame.phase \in {"start", "closed"} /\ inflight = <<>>
            /\ Waiting /\ TheMark /\ TheWord.kind = "seq"
            /\ ser_count = 0 /\ crc_value = 1
         \/ /\ frame.phase = "payload" /\ (Waiting => ~TheMark)
            /\ inflight = IF Waiting THEN <<TheWord>> ELSE <<>>
            /\ Sent % Subwords = ser_count /\ crc_value = Sent + 1
      BY DEF Ready, StageInv, PayloadInv
<1>2. frame' = FrameThen /\ crc' = crc_value
      BY <1>1, AtHand, FrameMoves DEF Quiet
<1>3. /\ frame \in Frames /\ frame.n \in Nat /\ inflight \in Seq(FabricWord)
      /\ Dreq(req) => ~Esc
      /\ Subwords \in Nat \ {0} /\ 0 % Subwords = 0
      /\ "payload" \in Phases
      BY AtHand, FrameAssumption DEF Phases
<1>4. inflight' = (IF DataArrives THEN Tail(inflight) ELSE inflight) \o Taken(Dreq(req))
      BY FrameMoves
<1>5. ASSUME Esc
      PROVE  frame' = frame /\ inflight' = inflight /\ crc' = crc_value
  <2>1. ~Arrives /\ ~Dreq(req)
        BY <1>3, <1>5, NextWord
  <2>2. Taken(Dreq(req)) = <<>> /\ ~DataArrives
        BY <2>1 DEF Taken, DataArrives
  <2>. QED BY <1>2, <1>3, <1>4, <2>1, <2>2 DEF FrameThen
<1>6. ASSUME ~Esc
      PROVE  /\ frame' \in Frames /\ frame'.phase = "payload"
             /\ frame'.n % Subwords = ser_count /\ crc' = frame'.n + 1
             /\ frame'.words = IF Arrives THEN Grown(frame.words) ELSE frame.words
             /\ inflight' = Taken(Dreq(req))
  <2>0. Arrives = Waiting
        BY <1>6, NextWord
  <2>t. Taken(Dreq(req)) \in Seq(FabricWord)
    <3>1. ~tx_fifo_empty => Head(fifo) \in Entry
          BY DEF tx_fifo_empty, Ready
    <3> DEFINE w == Subword(Head(fifo), ser_count)
    <3>2. ~tx_fifo_empty => w \in FabricWord
          BY <3>1, SubwordIsWord DEF Ready, RegsOK
    <3>3. Taken(Dreq(req)) = IF state = "PAYLOAD" /\ Dreq(req) /\ ~tx_fifo_empty THEN <<w>> ELSE <<>>
          BY DEF Taken
    <3> HIDE DEF w
    <3>. QED BY <3>2, <3>3
  <2>1. CASE frame.phase # "payload"
    <3>1. /\ frame.phase \in {"start", "closed"} /\ inflight = <<>>
          /\ Waiting /\ TheMark /\ TheWord.kind = "seq" /\ ser_count = 0 /\ crc_value = 1
          BY <1>1, <2>1
    <3>2. FrameThen = In(frame, "payload", 0)
      <4>1. FrameThen = AfterOther(frame, TheWord, TheMark)
            BY <2>0, <3>1 DEF FrameThen
      <4>2. TheWord # PadWord
            BY <3>1, TxWords
      <4>. QED BY <3>1, <4>1, <4>2 DEF AfterOther
    <3>3. /\ In(frame, "payload", 0) \in Frames /\ In(frame, "payload", 0).phase = "payload"
          /\ In(frame, "payload", 0).n = 0
          /\ In(frame, "payload", 0).words = Grown(frame.words)
          BY <1>3, FrameGrows
    <3>4. inflight' = Taken(Dreq(req))
          BY <1>4, <2>t, <3>1 DEF DataArrives
    <3>. QED BY <1>2, <1>3, <2>0, <3>1, <3>2, <3>3, <3>4
  <2>2. CASE frame.phase = "payload" /\ ~Waiting
    <3>1. /\ inflight = <<>> /\ Sent % Subwords = ser_count /\ crc_value = Sent + 1
          BY <1>1, <2>2
    <3>2. FrameThen = frame /\ inflight' = Taken(Dreq(req))
          BY <1>4, <2>0, <2>2, <2>t, <3>1 DEF FrameThen, DataArrives
    <3>3. Sent = frame.n
          BY <1>3, <3>1 DEF Sent
    <3>. QED BY <1>2, <1>3, <2>0, <2>2, <3>1, <3>2, <3>3
  <2>3. CASE frame.phase = "payload" /\ Waiting
    <3>1. /\ inflight = <<TheWord>> /\ ~TheMark /\ Sent % Subwords = ser_count
          /\ crc_value = Sent + 1
          BY <1>1, <2>3
    <3>a. Len(inflight) = 1 /\ inflight # <<>> /\ Head(inflight) = TheWord /\ Tail(inflight) = <<>>
          BY <3>1
    <3>2. FrameThen = In(frame, "payload", frame.n + 1)
          BY <2>0, <2>3, <3>1, <3>a DEF FrameThen, AfterData
    <3>3. inflight' = Taken(Dreq(req))
          BY <1>4, <2>0, <2>3, <2>t, <3>1, <3>a DEF DataArrives
    <3>4. frame.n + 1 \in Nat /\ Sent = frame.n + 1
          BY <1>3, <3>a DEF Sent
    <3>5. /\ In(frame, "payload", frame.n + 1) \in Frames
          /\ In(frame, "payload", frame.n + 1).phase = "payload"
          /\ In(frame, "payload", frame.n + 1).n = frame.n + 1
          /\ In(frame, "payload", frame.n + 1).words = Grown(frame.words)
          BY <1>3, <3>4, FrameGrows
    <3>. QED BY <1>2, <2>0, <2>3, <3>1, <3>2, <3>3, <3>4, <3>5
  <2>. QED BY <2>1, <2>2, <2>3
<1>. QED BY <1>5, <1>6

LEMMA PayloadStep ==
  ASSUME Ready, RegsOK',
         NEW req \in BOOLEAN, NEW flush, NEW reset_seq, NEW word,
         Clock(req, flush, reset_seq, word), state = "PAYLOAD"
  PROVE  WireInv' /\ StageInv'
<1>1. /\ Quiet /\ fsm_escape_enable /\ crc_en /\ ~crc_reset
      /\ ser_count # 0 => fifo # <<>>
      /\ frame.phase \in {"start", "closed", "payload"}
      /\ Waiting => inflight \in {<<>>, <<TheWord>>}
      BY DEF Ready, StageInv, PayloadInv
<1>2. Payload(Dreq(req), reset_seq)
      BY AtHand, FsmIs
<1>3. /\ ~Esc => /\ frame' \in Frames /\ frame'.phase = "payload"
                 /\ frame'.n % Subwords = ser_count /\ crc' = frame'.n + 1
                 /\ frame'.words = IF Arrives THEN Grown(frame.words) ELSE frame.words
                 /\ inflight' = Taken(Dreq(req))
      /\ Esc => frame' = frame /\ inflight' = inflight /\ crc' = crc_value
      BY PayloadCaught
<1>4. /\ fsm_escape_enable' /\ fsm_escape' = FALSE /\ crc_en' = TRUE /\ ~crc_reset'
      /\ fsm_out'.sof = FALSE /\ fsm_out'.eof = FALSE
      /\ fsm_out'.dvalid => Dreq(req) /\ ~tx_fifo_empty
      /\ fsm_out'.dvalid = FALSE \/ fsm_out' = Word(Subword(Head(fifo), ser_count))
      /\ Dreq(req) /\ ~tx_fifo_empty => fsm_out' = Word(Subword(Head(fifo), ser_count))
      /\ Dreq(req) /\ tx_fifo_empty => fsm_out'.dvalid = FALSE
  <2>1. ~tx_fifo_empty => Subword(Head(fifo), ser_count) \in FabricWord
        BY SubwordIsWord DEF Ready, RegsOK, tx_fifo_empty
  <2>2. /\ fsm_escape_enable' /\ fsm_escape' = FALSE /\ crc_en' = TRUE /\ ~crc_reset'
        BY <1>1, <1>2 DEF Payload, Ready, RegsOK
  <2>3. CASE ~Dreq(req)
        BY <1>2, <2>2, <2>3, SignalsMade DEF Payload
  <2>4. CASE Dreq(req) /\ tx_fifo_empty
        BY <1>2, <2>2, <2>4, SignalsMade DEF Payload
  <2>5. CASE Dreq(req) /\ ~tx_fifo_empty
        BY <1>2, <2>1, <2>2, <2>5, SignalsMade DEF Payload
  <2>. QED BY <2>3, <2>4, <2>5
<1>5. WireInv'
  <2>0. frame \in Frames /\ inflight \in Seq(FabricWord) /\ (Esc => ~Arrives)
        BY AtHand, NextWord
  <2>1. /\ frame' \in Frames
        /\ frame'.words = IF Arrives THEN Grown(frame.words) ELSE frame.words
        /\ Esc => frame' = frame
        /\ frame.phase # "none"
        BY <1>1, <1>3, <2>0
  <2>2. inflight' \in Seq(FabricWord)
    <3>1. CASE Esc
          BY <1>3, <2>0, <3>1
    <3>2. CASE ~Esc /\ Taken(Dreq(req)) = <<>>
          BY <1>3, <3>2
    <3>3. CASE ~Esc /\ Taken(Dreq(req)) # <<>>
      <4> DEFINE w == Subword(Head(fifo), ser_count)
      <4>1. ~tx_fifo_empty /\ Taken(Dreq(req)) = <<w>>
            BY <3>3 DEF Taken
      <4>2. w \in FabricWord
            BY <4>1, SubwordIsWord DEF Ready, RegsOK, tx_fifo_empty
      <4> HIDE DEF w
      <4>3. inflight' = <<w>>
            BY <1>3, <3>3, <4>1
      <4>4. <<w>> \in Seq(FabricWord)
            BY <4>2
      <4>. QED BY <4>3, <4>4
    <3>. QED BY <3>1, <3>2, <3>3
  <2>. QED BY <1>1, <1>4, <2>1, <2>2, WireNext
<1>6. /\ Owing' = Esc
      /\ Esc => /\ Waiting /\ Waiting' = TRUE /\ ~Dreq(req)
                /\ TheWord' = TheWord /\ TheMark' = TheMark
      /\ ~Esc => /\ Waiting' = fsm_out'.dvalid
                 /\ TheWord' = fsm_out'.data /\ TheMark' = FALSE
      BY <1>4, NextWord, AtHand
<1>n. ~Esc => frame'.n \in Nat
      BY <1>3 DEF Frames
<1>7. CASE ~Dreq(req)
  <2>1. state' = "PAYLOAD" /\ ser_count' = ser_count /\ fsm_out'.dvalid = FALSE
        BY <1>2, <1>7, SignalsMade DEF Payload
  <2>2. ser_count' # 0 => fifo' # <<>>
    <3>1. Buffer(Dreq(req), word) /\ UserWrites(word) /\ ~tx_fifo_rd(Dreq(req)) /\ fifo \in Seq(Entry)
          BY <1>7 DEF Clock, tx_fifo_rd, Ready
    <3>. QED BY <1>1, <2>1, <3>1, FifoStays
  <2>3. crc_value' = crc'
        BY <2>1 DEF crc_value
  <2>4. Esc => PayloadInv'
    <3>1. SUFFICES ASSUME Esc PROVE PayloadInv'
          OBVIOUS
    <3>2. frame' = frame /\ inflight' = inflight /\ crc_value' = crc_value /\ Sent' = Sent
          BY <1>3, <2>3, <3>1 DEF Sent
    <3>3. Waiting /\ Waiting' /\ TheWord' = TheWord /\ TheMark' = TheMark
          BY <1>6, <3>1
    <3>4. \/ /\ frame'.phase \in {"start", "closed"} /\ inflight' = <<>>
             /\ Waiting' /\ TheMark' /\ TheWord'.kind = "seq"
             /\ ser_count' = 0 /\ crc_value' = 1
          \/ /\ frame'.phase = "payload" /\ (Waiting' => ~TheMark')
             /\ inflight' = IF Waiting' THEN <<TheWord'>> ELSE <<>>
             /\ Sent' % Subwords = ser_count' /\ crc_value' = Sent' + 1
          BY <2>1, <3>2, <3>3 DEF Ready, StageInv, PayloadInv
    <3>. QED BY <1>4, <2>2, <3>4 DEF PayloadInv, Quiet
  <2>5. ~Esc => PayloadInv'
    <3>1. SUFFICES ASSUME ~Esc PROVE PayloadInv'
          OBVIOUS
    <3>2. inflight' = <<>> /\ ~Waiting'
          BY <1>3, <1>6, <1>7, <2>1, <3>1 DEF Taken
    <3>3. Sent' = frame'.n
          BY <1>n, <3>1, <3>2 DEF Sent
    <3>4. /\ frame'.phase = "payload" /\ (Waiting' => ~TheMark')
          /\ inflight' = IF Waiting' THEN <<TheWord'>> ELSE <<>>
          /\ Sent' % Subwords = ser_count' /\ crc_value' = Sent' + 1
          BY <1>3, <2>1, <2>3, <3>1, <3>2, <3>3
    <3>. QED BY <1>4, <2>2, <3>4 DEF PayloadInv, Quiet
  <2>6. PayloadInv'
        BY <2>4, <2>5
  <2>. QED BY <1>5, <2>1, <2>6 DEF StageInv, IdleInv, SofInv, HeaderInv, SubframeInv,
              CrcInv, PaddingInv, EofInv
<1>8. CASE Dreq(req) /\ tx_fifo_empty
  <2>1. ~Esc /\ fsm_out'.dvalid = FALSE /\ state' = "CRC_WORD" /\ ser_count = 0
        BY <1>1, <1>2, <1>4, <1>8, AtHand DEF Payload, tx_fifo_empty
  <2>2. inflight' = <<>> /\ crc_value' = crc'
        BY <1>3, <1>8, <2>1 DEF Taken, crc_value
  <2>3. Sent' = frame'.n
        BY <1>n, <2>1, <2>2 DEF Sent
  <2>4. ~Owing'
        BY <1>6, <2>1
  <2>5. frame'.phase = "payload" /\ Sent' % Subwords = 0 /\ crc_value' = Sent' + 1
        BY <1>3, <2>1, <2>2, <2>3
  <2>6. CrcInv'
        BY <1>4, <2>1, <2>2, <2>4, <2>5 DEF CrcInv, Quiet
  <2>. QED BY <1>5, <2>1, <2>6 DEF StageInv, IdleInv, SofInv, HeaderInv, SubframeInv,
              PayloadInv, PaddingInv, EofInv
<1>9. CASE Dreq(req) /\ ~tx_fifo_empty
  <2> DEFINE w == Subword(Head(fifo), ser_count)
  <2>0. /\ Head(fifo) \in Entry /\ ser_count \in 0 .. Subwords - 1 /\ fifo \in Seq(Entry)
        /\ HandledTraffic /\ Subwords \in Nat \ {0}
        BY <1>9, FrameAssumption DEF tx_fifo_empty, Ready, RegsOK
  <2>1. w \in FabricWord /\ (ser_count \notin Head(fifo).cafe => w # EscapeCode)
        BY <2>0, SubwordIsWord
  <2>2. ~Esc /\ inflight' = <<w>>
        BY <1>3, <1>9, AtHand DEF Taken
  <2>3. fsm_out' = Word(w)
        BY <1>4, <1>9
  <2>r. /\ ser_count' = IF ser_count = Subwords - 1 THEN 0 ELSE ser_count + 1
        /\ state' = IF ser_count = Subwords - 1 /\ tx_fifo_last THEN "CRC_WORD" ELSE "PAYLOAD"
        BY <1>2, <1>9 DEF Payload, last_subword
  <2> HIDE DEF w
  <2>4. fsm_out'.dvalid = TRUE /\ fsm_out'.data = w
        BY <2>1, <2>3, SignalsMade
  <2>5. Waiting' = TRUE /\ TheWord' = w /\ TheMark' = FALSE /\ ~Owing'
        BY <1>6, <2>2, <2>4
  <2>6. Len(inflight') = 1 /\ frame'.n \in Nat
        BY <1>n, <2>2
  <2>7. Sent' = frame'.n + 1
        BY <2>6 DEF Sent
  <2>8. crc_value' = Sent' + 1
    <3>1. crc_value' = crc' + 1
          BY <1>4, <2>4 DEF crc_value
    <3>. QED BY <1>3, <2>2, <2>7, <3>1
  <2>9. Sent' % Subwords = ser_count'
    <3>1. frame'.n % Subwords = ser_count
          BY <1>3, <2>2
    <3>2. Sent' % Subwords = (ser_count + 1) % Subwords
          BY <2>0, <2>6, <2>7, <3>1, CountUp
    <3>3. (ser_count + 1) % Subwords = IF ser_count = Subwords - 1 THEN 0 ELSE ser_count + 1
      <4>1. CASE ser_count = Subwords - 1
        <5>1. ser_count + 1 = Subwords * 1 + 0 /\ 0 \in 0 .. Subwords - 1
              BY <2>0, <4>1
        <5>. QED BY <2>0, <4>1, <5>1, RemainderIs
      <4>2. CASE ser_count # Subwords - 1
        <5>1. ser_count + 1 = Subwords * 0 + (ser_count + 1) /\ ser_count + 1 \in 0 .. Subwords - 1
              BY <2>0, <4>2
        <5>. QED BY <2>0, <4>2, <5>1, RemainderIs
      <4>. QED BY <4>1, <4>2
    <3>. QED BY <2>r, <3>2, <3>3
  <2>10. CASE ser_count = Subwords - 1 /\ tx_fifo_last
    <3>1. ser_count' = 0 /\ state' = "CRC_WORD" /\ Head(fifo).last
          BY <2>r, <2>10 DEF tx_fifo_last
    <3>2. w # EscapeCode
      <4>1. ser_count \notin Head(fifo).cafe
            BY <2>0, <2>10, <3>1 DEF HandledTraffic
      <4>. QED BY <2>1, <4>1
    <3>3. inflight' = IF fsm_out'.dvalid THEN <<fsm_out'.data>> ELSE <<>>
          BY <2>2, <2>4
    <3>4. Sent' % Subwords = 0
          BY <2>9, <3>1
    <3>5. frame'.phase = "payload"
          BY <1>3, <2>2
    <3>6. CrcInv'
          BY <1>4, <2>4, <2>5, <2>8, <3>2, <3>3, <3>4, <3>5 DEF CrcInv, Quiet
    <3>. QED BY <1>5, <3>1, <3>6 DEF StageInv, IdleInv, SofInv, HeaderInv, SubframeInv,
                PayloadInv, PaddingInv, EofInv
  <2>11. CASE ~(ser_count = Subwords - 1 /\ tx_fifo_last)
    <3>1. state' = "PAYLOAD"
          BY <2>r, <2>11
    <3>2. ser_count' # 0 => fifo' # <<>>
      <4>1. SUFFICES ASSUME ser_count' # 0 PROVE fifo' # <<>>
            OBVIOUS
      <4>2. ~tx_fifo_rd(Dreq(req))
            BY <2>r, <4>1 DEF tx_fifo_rd, last_subword
      <4>3. Buffer(Dreq(req), word) /\ UserWrites(word) /\ fifo # <<>>
            BY <1>9 DEF Clock, tx_fifo_empty
      <4>. QED BY <2>0, <4>2, <4>3, FifoStays
    <3>3. /\ frame'.phase = "payload" /\ (Waiting' => ~TheMark')
          /\ inflight' = IF Waiting' THEN <<TheWord'>> ELSE <<>>
          BY <1>3, <2>2, <2>5
    <3>4. PayloadInv'
          BY <1>4, <2>8, <2>9, <3>2, <3>3 DEF PayloadInv, Quiet
    <3>. QED BY <1>5, <3>1, <3>4 DEF StageInv, IdleInv, SofInv, HeaderInv, SubframeInv,
                CrcInv, PaddingInv, EofInv
  <2>. QED BY <2>10, <2>11
<1>. QED BY <1>7, <1>8, <1>9

(* No stall, no escape code: the CRC is asked for at once. *)
LEMMA CrcAsked ==
  ASSUME Ready, RegsOK',
         NEW req \in BOOLEAN, NEW flush, NEW reset_seq, NEW word,
         Clock(req, flush, reset_seq, word), state = "CRC_WORD"
  PROVE  ~Esc /\ Dreq(req)
<1>1. /\ fsm_out.dvalid => fsm_out.data # EscapeCode
      /\ ~fsm_escape
      BY DEF Ready, StageInv, CrcInv
<1>2. ~Esc
      BY <1>1, AtHand
<1>3. req
      BY DEF Clock, MayStall, Ready, HandledTraffic
<1>4. Dreq(req) = req
      BY <1>2, WireMoves, StageControlled DEF Ready
<1>. QED BY <1>2, <1>3, <1>4

LEMMA CrcStep ==
  ASSUME Ready, RegsOK',
         NEW req \in BOOLEAN, NEW flush, NEW reset_seq, NEW word,
         Clock(req, flush, reset_seq, word), state = "CRC_WORD"
  PROVE  WireInv' /\ StageInv'
<1>1. /\ Quiet /\ fsm_escape_enable /\ crc_en /\ ~crc_reset /\ ~Owing
      /\ frame.phase = "payload"
      /\ fsm_out.dvalid => fsm_out.data # EscapeCode
      /\ inflight = IF fsm_out.dvalid THEN <<fsm_out.data>> ELSE <<>>
      /\ ~fsm_escape
      /\ Sent % Subwords = 0 /\ crc_value = Sent + 1
      BY DEF Ready, StageInv, CrcInv
<1>2. CrcState(Dreq(req), reset_seq)
      BY AtHand, FsmIs
<1>3. ~Esc /\ Dreq(req)
      BY CrcAsked
<1>4. /\ frame' \in Frames /\ frame'.phase = "payload" /\ frame'.n = Sent /\ Sent \in Nat
      /\ frame'.words = IF Arrives THEN Grown(frame.words) ELSE frame.words
      /\ inflight' = <<>>
  <2>0. frame' = FrameThen /\ frame \in Frames /\ frame.n \in Nat
        BY <1>1, AtHand, FrameMoves DEF Quiet
  <2>1. inflight' = IF DataArrives THEN Tail(inflight) ELSE inflight
    <3>1. inflight' = (IF DataArrives THEN Tail(inflight) ELSE inflight) \o <<>>
          BY AtHand, FrameMoves
    <3>2. inflight \in Seq(FabricWord)
          BY AtHand
    <3>3. CASE DataArrives
      <4>1. inflight # <<>>
            BY <3>3 DEF DataArrives
      <4>2. Tail(inflight) \in Seq(FabricWord)
            BY <3>2, <4>1
      <4>. QED BY <3>1, <3>3, <4>2
    <3>4. CASE ~DataArrives
          BY <3>1, <3>2, <3>4
    <3>. QED BY <3>3, <3>4
  <2>2. CASE fsm_out.dvalid
    <3>1. Arrives /\ TheWord = fsm_out.data /\ ~TheMark
          BY <1>1, <1>3, <2>2 DEF Arrives, TheWord, TheMark
    <3>2. inflight = <<TheWord>>
          BY <1>1, <2>2, <3>1
    <3>3. Len(inflight) = 1 /\ inflight # <<>> /\ Head(inflight) = TheWord /\ Tail(inflight) = <<>>
          BY <3>2
    <3>4. FrameThen = In(frame, "payload", frame.n + 1)
          BY <1>1, <3>1, <3>3 DEF FrameThen, AfterData
    <3>5. frame.n + 1 \in Nat /\ Sent = frame.n + 1 /\ "payload" \in Phases
          BY <2>0, <3>3 DEF Sent, Phases
    <3>6. /\ In(frame, "payload", frame.n + 1) \in Frames
          /\ In(frame, "payload", frame.n + 1).phase = "payload"
          /\ In(frame, "payload", frame.n + 1).n = frame.n + 1
          /\ In(frame, "payload", frame.n + 1).words = Grown(frame.words)
          BY <2>0, <3>5, FrameGrows
    <3>7. inflight' = <<>>
          BY <1>1, <2>1, <3>1, <3>3 DEF DataArrives
    <3>. QED BY <2>0, <3>1, <3>4, <3>5, <3>6, <3>7
  <2>3. CASE ~fsm_out.dvalid
    <3>1. ~Arrives /\ inflight = <<>>
          BY <1>1, <2>3 DEF Arrives
    <3>2. FrameThen = frame /\ Sent = frame.n
          BY <2>0, <3>1 DEF FrameThen, Sent
    <3>. QED BY <1>1, <2>0, <2>1, <3>1, <3>2
  <2>. QED BY <2>2, <2>3
<1>5. PICK w \in {CrcWord(crc_value), EscapeCode} : fsm_out' = Word(w)
      BY <1>2, <1>3 DEF CrcState
<1>6. /\ fsm_out'.sof = FALSE /\ fsm_out'.eof = FALSE /\ fsm_out'.dvalid = TRUE
      /\ fsm_out'.data = w
  <2>1. crc_value \in Nat
        BY <1>1, <1>4
  <2>2. w \in FabricWord
        BY <1>5, <2>1, TxWords
  <2>. QED BY <1>5, <2>2, SignalsMade
<1>7. /\ crc_reset' = TRUE /\ ser_count' = 0 /\ state' \in {"PADDING", "SUBFRAME_HEADER"}
      /\ fsm_escape' = fsm_escape /\ fsm_escape_enable' = fsm_escape_enable
      BY <1>2, <1>3 DEF CrcState
<1>8. Waiting' = TRUE /\ TheWord' = w /\ TheMark' = fsm_escape'
      BY <1>3, <1>6, NextWord
<1>9. CrcWaits'
  <2>1. w \in {CrcWord(frame'.n + 1), EscapeCode} /\ frame'.n % Subwords = 0
        BY <1>1, <1>4, <1>5
  <2>. QED BY <1>1, <1>7, <1>8, <2>1 DEF CrcWaits
<1>10. WireInv'
      BY <1>1, <1>3, <1>4, <1>7, WireNext
<1>11. CrcIdle' /\ Quiet'
      BY <1>6, <1>7 DEF CrcIdle, Quiet
<1>12. CASE state' = "PADDING"
  <2>1. PaddingInv'
        BY <1>1, <1>4, <1>7, <1>9, <1>11 DEF PaddingInv
  <2>. QED BY <1>10, <1>12, <2>1 DEF StageInv, IdleInv, SofInv, HeaderInv, SubframeInv,
              PayloadInv, CrcInv, EofInv
<1>13. CASE state' = "SUBFRAME_HEADER"
  <2>1. SubframeInv'
        BY <1>1, <1>4, <1>7, <1>9, <1>11 DEF SubframeInv
  <2>. QED BY <1>10, <1>13, <2>1 DEF StageInv, IdleInv, SofInv, HeaderInv, PaddingInv,
              PayloadInv, CrcInv, EofInv
<1>. QED BY <1>7, <1>12, <1>13

(* A padding word leaves. *)
LEMMA PadArrives ==
  ASSUME Ready, RegsOK',
         NEW req \in BOOLEAN, NEW flush, NEW reset_seq, NEW word,
         Clock(req, flush, reset_seq, word),
         Quiet, inflight = <<>>, frame.phase \in {"closed", "padding"}, PadWaits
  PROVE  /\ Esc => frame' = frame /\ PadWaits' /\ ~Arrives
         /\ ~Esc => /\ Arrives /\ frame' \in Frames /\ frame'.phase = "padding"
                    /\ frame'.words = Grown(frame.words)
<1>2. frame' = FrameThen
      BY FrameMoves DEF Quiet
<1>3. Esc => frame' = frame /\ PadWaits' /\ ~Arrives
  <2>1. SUFFICES ASSUME Esc PROVE frame' = frame /\ PadWaits' /\ ~Arrives
        OBVIOUS
  <2>2. ~Arrives /\ Waiting' = TRUE /\ TheWord' = TheWord /\ TheMark' = TheMark
        BY <2>1, NextWord
  <2>3. frame' = frame
        BY <1>2, <2>2 DEF FrameThen
  <2>4. PadWord' = PadWord
        BY DEF PadWord
  <2>. QED BY <2>2, <2>3, <2>4 DEF PadWaits
<1>4. ~Esc => /\ Arrives /\ frame' \in Frames /\ frame'.phase = "padding"
              /\ frame'.words = Grown(frame.words)
  <2>1. SUFFICES ASSUME ~Esc
                 PROVE  /\ Arrives /\ frame' \in Frames /\ frame'.phase = "padding"
                        /\ frame'.words = Grown(frame.words)
        OBVIOUS
  <2>2. Arrives /\ TheMark /\ TheWord = PadWord
        BY <2>1, NextWord DEF PadWaits
  <2>3. FrameThen = AfterOther(frame, TheWord, TheMark)
        BY <2>2 DEF FrameThen
  <2>4. FrameThen = In(frame, "padding", 0)
        BY <2>2, <2>3, TxWords DEF AfterOther
  <2>5. "padding" \in Phases /\ frame \in Frames /\ 0 \in Nat
        BY AtHand DEF Phases
  <2>6. /\ In(frame, "padding", 0) \in Frames /\ In(frame, "padding", 0).phase = "padding"
        /\ In(frame, "padding", 0).words = Grown(frame.words)
        BY <2>5, FrameGrows
  <2>. QED BY <1>2, <2>2, <2>4, <2>6
<1>. QED BY <1>3, <1>4

LEMMA PaddingStep ==
  ASSUME Ready, RegsOK',
         NEW req \in BOOLEAN, NEW flush, NEW reset_seq, NEW word,
         Clock(req, flush, reset_seq, word), state = "PADDING"
  PROVE  WireInv' /\ StageInv'
<1>1. Quiet /\ inflight = <<>> /\ crc_reset /\ fsm_escape_enable
      BY DEF Ready, StageInv, PaddingInv
<1>2. Padding(Dreq(req), reset_seq)
      BY AtHand, FsmIs
<1>3. inflight' = <<>> /\ frame' = FrameThen
      BY <1>1, AtHand, FrameMoves DEF DataArrives, Quiet
<1>4. /\ frame' \in Frames
      /\ frame'.words = IF Arrives THEN Grown(frame.words) ELSE frame.words
      /\ Esc => /\ frame' = frame
                /\ \/ frame'.phase = "payload" /\ CrcWaits'
                   \/ frame'.phase \in {"closed", "padding"} /\ PadWaits'
      /\ ~Esc => frame'.phase \in {"closed", "padding"}
      /\ frame.phase # "none"
  <2>0. frame \in Frames
        BY AtHand
  <2>1. CASE frame.phase = "payload" /\ CrcWaits
    <3>1. /\ Esc => frame' = frame /\ CrcWaits' /\ ~Arrives
          /\ ~Esc => /\ Arrives /\ frame' \in Frames /\ frame'.phase = "closed"
                     /\ frame'.words = Grown(frame.words)
          BY <1>1, <2>1, CrcArrives
    <3>. QED BY <2>0, <2>1, <3>1
  <2>2. CASE frame.phase \in {"closed", "padding"} /\ ~Waiting
    <3>1. ~Esc /\ ~Arrives
          BY <2>2, AtHand DEF Waiting, Arrives
    <3>. QED BY <1>3, <2>0, <2>2, <3>1 DEF FrameThen
  <2>3. CASE frame.phase \in {"closed", "padding"} /\ PadWaits
    <3>1. /\ Esc => frame' = frame /\ PadWaits' /\ ~Arrives
          /\ ~Esc => /\ Arrives /\ frame' \in Frames /\ frame'.phase = "padding"
                     /\ frame'.words = Grown(frame.words)
          BY <1>1, <2>3, PadArrives
    <3>. QED BY <2>0, <2>3, <3>1
  <2>. QED BY <2>1, <2>2, <2>3 DEF Ready, StageInv, PaddingInv
<1>5. /\ fsm_out'.eof = FALSE /\ fsm_out'.sof = FALSE /\ fsm_out'.dvalid = Dreq(req)
      /\ crc_reset' = crc_reset /\ fsm_escape_enable' = fsm_escape_enable
      /\ Dreq(req) => fsm_escape' = TRUE /\ fsm_out'.data = PadWord
      /\ state' = IF Dreq(req) /\ total_words >= MinWords THEN "EOF" ELSE "PADDING"
  <2>1. CASE Dreq(req)
    <3>1. /\ fsm_out' = Word(PadWord) /\ fsm_escape' = TRUE
          /\ state' = IF total_words >= MinWords THEN "EOF" ELSE "PADDING"
          BY <1>2, <2>1 DEF Padding
    <3>2. crc_reset' = crc_reset /\ fsm_escape_enable' = fsm_escape_enable
          BY <1>2 DEF Padding
    <3>3. /\ fsm_out'.eof = FALSE /\ fsm_out'.sof = FALSE /\ fsm_out'.dvalid = TRUE
          /\ fsm_out'.data = PadWord
          BY <3>1, TxWords, SignalsMade
    <3>4. Dreq(req) = TRUE
          BY <2>1, AtHand
    <3>. QED BY <3>1, <3>2, <3>3, <3>4
  <2>2. CASE ~Dreq(req)
    <3>1. fsm_out' = NoWord /\ Dreq(req) = FALSE
          BY <1>2, <2>2, AtHand DEF Padding
    <3>2. state' = "PADDING"
          BY <1>2, <2>2 DEF Padding
    <3>3. crc_reset' = crc_reset /\ fsm_escape_enable' = fsm_escape_enable
          BY <1>2 DEF Padding
    <3>. QED BY <2>2, <3>1, <3>2, <3>3, SignalsMade
  <2>. QED BY <2>1, <2>2
<1>6. WireInv'
  <2>1. /\ fsm_out'.dvalid => Dreq(req)
        /\ fsm_escape_enable => fsm_escape_enable'
        /\ Esc => frame' = frame
        BY <1>4, <1>5
  <2>. QED BY <1>1, <1>3, <1>4, <2>1, WireNext
<1>7. CASE Dreq(req)
  <2>1. ~Esc
        BY <1>7, AtHand
  <2>2. Waiting' = fsm_out'.dvalid /\ TheWord' = fsm_out'.data /\ TheMark' = fsm_escape'
        BY <2>1, NextWord
  <2>3. PadWaits'
    <3>1. Waiting' /\ TheMark' /\ TheWord' = PadWord
          BY <1>5, <1>7, <2>2
    <3>2. PadWord' = PadWord
          BY DEF PadWord
    <3>. QED BY <3>1, <3>2 DEF PadWaits
  <2>4. CASE total_words >= MinWords
    <3>1. total_words = MinWords /\ ~fsm_out.sof
          BY <1>1, <2>4, FrameAssumption DEF Ready, RegsOK, Quiet
    <3>2. total_words' = MinWords
      <4>1. total_words' = IF fsm_out.dvalid THEN Grown(total_words) ELSE total_words
            BY <3>1, AtHand
      <4>2. Grown(total_words) = total_words
            BY <3>1, FrameAssumption DEF Grown
      <4>. QED BY <3>1, <4>1, <4>2
    <3>3. state' = "EOF"
          BY <1>5, <1>7, <2>4
    <3>4. EofInv'
          BY <1>1, <1>3, <1>4, <1>5, <2>1, <2>3, <3>2 DEF EofInv, Quiet
    <3>. QED BY <1>6, <3>3, <3>4 DEF StageInv, IdleInv, SofInv, HeaderInv, SubframeInv,
                PayloadInv, CrcInv, PaddingInv
  <2>5. CASE ~(total_words >= MinWords)
    <3>1. state' = "PADDING"
          BY <1>5, <2>5
    <3>2. PaddingInv'
          BY <1>1, <1>3, <1>4, <1>5, <2>1, <2>3 DEF PaddingInv, Quiet
    <3>. QED BY <1>6, <3>1, <3>2 DEF StageInv, IdleInv, SofInv, HeaderInv, SubframeInv,
                PayloadInv, CrcInv, EofInv
  <2>. QED BY <2>4, <2>5
<1>8. CASE ~Dreq(req)
  <2>1. state' = "PADDING" /\ ~fsm_out'.dvalid
        BY <1>5, <1>8
  <2>2. ~Esc => ~Waiting'
        BY <2>1, NextWord
  <2>3. \/ frame'.phase = "payload" /\ CrcWaits'
        \/ frame'.phase \in {"closed", "padding"} /\ PadWaits'
        \/ frame'.phase \in {"closed", "padding"} /\ ~Waiting'
        BY <1>4, <2>2
  <2>4. PaddingInv'
        BY <1>1, <1>3, <1>5, <2>3 DEF PaddingInv, Quiet
  <2>. QED BY <1>6, <2>1, <2>4 DEF StageInv, IdleInv, SofInv, HeaderInv, SubframeInv,
              PayloadInv, CrcInv, EofInv
<1>. QED BY <1>7, <1>8

LEMMA EofStep ==
  ASSUME Ready, RegsOK',
         NEW req \in BOOLEAN, NEW flush, NEW reset_seq, NEW word,
         Clock(req, flush, reset_seq, word), state = "EOF"
  PROVE  WireInv' /\ StageInv'
<1>1. /\ Quiet /\ inflight = <<>> /\ crc_reset /\ fsm_escape_enable
      /\ total_words = MinWords
      BY DEF Ready, StageInv, EofInv
<1>2. Eof(Dreq(req), reset_seq)
      BY AtHand, FsmIs
<1>3. inflight' = <<>> /\ frame' = FrameThen
      BY <1>1, AtHand, FrameMoves DEF DataArrives, Quiet
<1>4. /\ frame' \in Frames
      /\ frame'.words = IF Arrives THEN Grown(frame.words) ELSE frame.words
      /\ Esc => frame' = frame /\ frame'.phase \in {"closed", "padding"} /\ PadWaits'
      /\ ~Esc => frame'.phase = "padding"
      /\ frame.phase # "none"
  <2>0. frame \in Frames
        BY AtHand
  <2>1. CASE frame.phase = "padding" /\ ~Waiting
    <3>1. ~Esc /\ ~Arrives
          BY <2>1, AtHand DEF Waiting, Arrives
    <3>. QED BY <1>3, <2>0, <2>1, <3>1 DEF FrameThen
  <2>2. CASE frame.phase \in {"closed", "padding"} /\ PadWaits
    <3>1. /\ Esc => frame' = frame /\ PadWaits' /\ ~Arrives
          /\ ~Esc => /\ Arrives /\ frame' \in Frames /\ frame'.phase = "padding"
                     /\ frame'.words = Grown(frame.words)
          BY <1>1, <2>2, PadArrives
    <3>. QED BY <2>0, <2>2, <3>1
  <2>. QED BY <2>1, <2>2 DEF Ready, StageInv, EofInv
<1>5. /\ fsm_out'.eof = Dreq(req) /\ fsm_out'.sof = FALSE /\ fsm_out'.dvalid = FALSE
      /\ crc_reset' = crc_reset /\ fsm_escape_enable' = fsm_escape_enable
      /\ state' = IF Dreq(req) THEN "IDLE" ELSE "EOF"
  <2>1. /\ fsm_out' = [fsm_out EXCEPT !.dvalid = FALSE, !.eof = Dreq(req)]
        /\ fsm_out \in Signals /\ fsm_out.sof = FALSE
        BY <1>1, <1>2, AtHand DEF Eof, Quiet, Signals
  <2>2. fsm_out'.eof = Dreq(req) /\ fsm_out'.sof = FALSE /\ fsm_out'.dvalid = FALSE
        BY <2>1 DEF Signals
  <2>3. crc_reset' = crc_reset /\ fsm_escape_enable' = fsm_escape_enable
        BY <1>2 DEF Eof
  <2>4. state' = IF Dreq(req) THEN "IDLE" ELSE "EOF"
        BY <1>2 DEF Eof
  <2>. QED BY <2>2, <2>3, <2>4
<1>6. WireInv'
  <2>1. /\ fsm_out'.dvalid => Dreq(req)
        /\ fsm_escape_enable => fsm_escape_enable'
        /\ Esc => frame' = frame
        BY <1>4, <1>5
  <2>. QED BY <1>1, <1>3, <1>4, <2>1, WireNext
<1>7. total_words' = MinWords
  <2>1. total_words' = IF fsm_out.dvalid THEN Grown(total_words) ELSE total_words
        BY <1>1, AtHand DEF Quiet
  <2>2. Grown(total_words) = total_words
        BY <1>1, FrameAssumption DEF Grown
  <2>. QED BY <1>1, <2>1, <2>2
<1>8. CASE Dreq(req)
  <2>1. ~Esc /\ ~Waiting' /\ ~Owing'
        BY <1>5, <1>8, AtHand, NextWord
  <2>2. frame'.phase = "padding" /\ frame'.words = MinWords
        BY <1>4, <1>6, <1>7, <2>1 DEF WireInv
  <2>3. state' = "IDLE" /\ fsm_out'.eof /\ ~fsm_out'.sof /\ CrcIdle'
        BY <1>1, <1>5, <1>8 DEF CrcIdle
  <2>4. IdleInv'
        BY <1>3, <2>1, <2>2, <2>3 DEF IdleInv
  <2>. QED BY <1>6, <2>3, <2>4 DEF StageInv, EofInv, SofInv, HeaderInv, SubframeInv,
              PayloadInv, CrcInv, PaddingInv
<1>9. CASE ~Dreq(req)
  <2>1. state' = "EOF" /\ ~fsm_out'.eof /\ ~fsm_out'.sof /\ ~fsm_out'.dvalid
        BY <1>5, <1>9
  <2>2. ~Esc => ~Waiting'
        BY <2>1, NextWord
  <2>3. \/ frame'.phase \in {"closed", "padding"} /\ PadWaits'
        \/ frame'.phase = "padding" /\ ~Waiting'
        BY <1>4, <2>2
  <2>4. EofInv'
        BY <1>1, <1>3, <1>5, <1>7, <2>1, <2>3 DEF EofInv, Quiet
  <2>. QED BY <1>6, <2>1, <2>4 DEF StageInv, IdleInv, SofInv, HeaderInv, SubframeInv,
              PayloadInv, CrcInv, PaddingInv
<1>. QED BY <1>8, <1>9

-----------------------------------------------------------------------------
FrameInv == RegsOK /\ WireInv /\ StageInv

LEMMA FrameReset ==
  ASSUME RegsOK, Reset
  PROVE  FrameInv'
<1>1. RegsOK'
      BY RegsReset
<1>2. /\ state' = "IDLE" /\ frame' = NoFrame /\ inflight' = <<>> /\ crc_reset' = TRUE
      /\ fsm_out' = [NoWord EXCEPT !.data = fsm_out.data]
      /\ det_state' = "IDLE" /\ ins_state' = "IDLE"
      BY DEF Reset, Ins!Disabled
<1>3. fsm_out'.sof = FALSE /\ fsm_out'.eof = FALSE /\ fsm_out'.dvalid = FALSE
      BY <1>2 DEF NoWord
<1>4. ~Owing' /\ ~Waiting' /\ CrcIdle'
      BY <1>2, <1>3 DEF Owing, Waiting, CrcIdle
<1>5. NoFrame \in Frames /\ NoFrame.phase = "none"
      BY FrameAssumption DEF NoFrame, Frames
<1>6. (det_state' = "CHECK_ESCAPE") = FALSE /\ Owing' = FALSE
      BY <1>2 DEF Owing
<1>7. inflight' \in Seq(FabricWord)
      BY <1>2
<1>8. WireInv'
      BY <1>2, <1>5, <1>6, <1>7 DEF WireInv
<1>9. IdleInv'
      BY <1>2, <1>3, <1>4 DEF IdleInv
<1>. QED BY <1>1, <1>2, <1>8, <1>9 DEF FrameInv, StageInv, EofInv, SofInv, HeaderInv, SubframeInv,
            PayloadInv, CrcInv, PaddingInv

LEMMA FrameInit == Init => FrameInv
<1>. SUFFICES ASSUME Init PROVE FrameInv
     OBVIOUS
<1>1. /\ state = "IDLE" /\ frame = NoFrame /\ inflight = <<>> /\ crc_reset = TRUE
      /\ fsm_out = NoWord /\ det_state = "IDLE" /\ ins_state = "IDLE" /\ d_prev = Zero
      /\ d_req_prev \in BOOLEAN
      BY DEF Init, Ins!Init, Det!Init
<1>2. RegsOK
  <2>1. /\ 0 \in 0 .. CountSize - 1 /\ 0 \in 0 .. SeqSize - 1 /\ 0 \in 0 .. Subwords - 1
        /\ 0 \in 0 .. MinWords
        BY TxAssumption, FrameAssumption
  <2>. QED BY <1>1, <2>1, TxWords, SignalsMade DEF Init, RegsOK, States
<1>3. ~Owing /\ ~Waiting /\ CrcIdle
      BY <1>1, SignalsMade DEF Owing, Waiting, CrcIdle
<1>4. NoFrame \in Frames /\ NoFrame.phase = "none"
      BY FrameAssumption DEF NoFrame, Frames
<1>5. (det_state = "CHECK_ESCAPE") = FALSE /\ Owing = FALSE
      BY <1>1 DEF Owing
<1>6. WireInv
  <2>1. inflight \in Seq(FabricWord)
        BY <1>1
  <2>. QED BY <1>1, <1>4, <1>5, <2>1 DEF WireInv
<1>7. IdleInv
      BY <1>1, <1>3, SignalsMade DEF IdleInv
<1>. QED BY <1>1, <1>2, <1>6, <1>7 DEF FrameInv, StageInv, EofInv, SofInv, HeaderInv, SubframeInv,
            PayloadInv, CrcInv, PaddingInv

LEMMA FrameClock ==
  ASSUME HandledTraffic, fifo \in Seq(Entry), FrameInv,
         NEW req \in BOOLEAN, NEW flush, NEW reset_seq, NEW word,
         Clock(req, flush, reset_seq, word)
  PROVE  FrameInv'
<1>1. Ready /\ RegsOK'
      BY RegsStep DEF Ready, FrameInv
<1>2. state \in States
      BY DEF FrameInv, RegsOK
<1>3. CASE state \in {"IDLE", "SOF", "ETH_HEADER", "SUBFRAME_HEADER"}
      BY <1>1, <1>3, IdleStep, SofStep, HeaderStep, SubframeStep DEF FrameInv
<1>4. CASE state \in {"PAYLOAD", "CRC_WORD", "PADDING", "EOF"}
      BY <1>1, <1>4, PayloadStep, CrcStep, PaddingStep, EofStep DEF FrameInv
<1>. QED BY <1>2, <1>3, <1>4 DEF States

LEMMA FrameUnchanged ==
  ASSUME FrameInv, UNCHANGED vars
  PROVE  FrameInv'
<1> USE DEF vars, bufferVars, timerVars, fsmVars, insVars, userVars, wireVars
<1>1. RegsOK'
      BY DEF FrameInv, RegsOK
<1>2. /\ Owing' = Owing /\ Waiting' = Waiting /\ TheWord' = TheWord /\ TheMark' = TheMark
      /\ CrcIdle' = CrcIdle /\ Quiet' = Quiet /\ Sent' = Sent /\ crc_value' = crc_value
      BY DEF Owing, Waiting, TheWord, TheMark, CrcIdle, Quiet, Sent, crc_value
<1>3. WireInv'
      BY <1>2 DEF FrameInv, WireInv
<1>4. CrcWaits' = CrcWaits /\ PadWaits' = PadWaits
      BY <1>2 DEF CrcWaits, PadWaits
<1>5. IdleInv' /\ SofInv' /\ HeaderInv' /\ SubframeInv'
      BY <1>2, <1>4 DEF FrameInv, StageInv, IdleInv, SofInv, HeaderInv, SubframeInv
<1>6. PayloadInv' /\ CrcInv' /\ PaddingInv' /\ EofInv'
      BY <1>2, <1>4 DEF FrameInv, StageInv, PayloadInv, CrcInv, PaddingInv, EofInv
<1>. QED BY <1>1, <1>3, <1>5, <1>6 DEF FrameInv, StageInv

LEMMA FrameInvariant ==
  ASSUME HandledTraffic
  PROVE  Spec => []FrameInv
<1>1. Init => FrameInv
      BY FrameInit
<1>2. BufferInv /\ FrameInv /\ [Next]_vars => FrameInv'
  <2> SUFFICES ASSUME BufferInv, FrameInv, [Next]_vars PROVE FrameInv'
      OBVIOUS
  <2>1. CASE Reset
        BY <2>1, FrameReset DEF FrameInv
  <2>2. CASE \E req \in BOOLEAN : Tick(req)
    <3>1. PICK req \in BOOLEAN, flush \in BOOLEAN, reset_seq \in BOOLEAN, word \in UserWords :
            Clock(req, flush, reset_seq, word)
          BY <2>2 DEF Tick
    <3>2. fifo \in Seq(Entry)
          BY DEF BufferInv
    <3>. QED BY <3>1, <3>2, FrameClock
  <2>3. CASE UNCHANGED vars
        BY <2>3, FrameUnchanged
  <2>. QED BY <2>1, <2>2, <2>3 DEF Next
<1>. QED BY <1>1, <1>2, BufferInvariant, PTL DEF Spec

(* For every size of the words, the header, the frames and the buffer, and *)
(* whatever the user writes, what p_fsm, the escape inserter and the CRC   *)
(* controls put on the wire is a sequence of frames as the receiver parses *)
(* them, with the user's words in order, each once - provided the fabric   *)
(* stalls no CRC and no escape code and no block ends in a subword that    *)
(* equals the escape code (xtx_streamer.vhd, p_fsm). *)
THEOREM WireIsFrames ==
  ASSUME HandledTraffic
  PROVE  Spec => []FramesWellFormed
<1>1. FrameInv => FramesWellFormed
      BY DEF FrameInv, WireInv, Frames, FramesWellFormed
<1>. QED BY <1>1, FrameInvariant, PTL

-----------------------------------------------------------------------------
(* The request of the fabric, whatever it does: no hypothesis on stalls.   *)
AskInv == /\ RegsOK
          /\ d_req_prev => asked
          /\ fsm_out.dvalid /\ state # "CRC_WORD" => asked
          /\ state \in {"IDLE", "SOF"} => ~fsm_out.dvalid

(* p_fsm puts a word only where it is asked for one, CRC_WORD excepted. *)
LEMMA WordIsAsked ==
  ASSUME AskInv, NEW dreq \in BOOLEAN, NEW flush, NEW reset_seq,
         Fsm(dreq, flush, reset_seq)
  PROVE  /\ fsm_out'.dvalid =>
              \/ dreq
              \/ state = "CRC_WORD" /\ state' = state /\ fsm_out' = fsm_out
         /\ state' \in {"IDLE", "SOF"} => ~fsm_out'.dvalid
<1>0. /\ fsm_out \in Signals /\ (state \in {"IDLE", "SOF"} => ~fsm_out.dvalid)
      /\ NoWord.dvalid = FALSE
      BY SignalsMade DEF AskInv, RegsOK
<1>1. CASE Idle(dreq, flush, reset_seq) \/ Sof(reset_seq)
      BY <1>0, <1>1 DEF Idle, Sof, Signals
<1>2. CASE EthHeader(dreq, reset_seq)
      BY <1>0, <1>2 DEF EthHeader, Signals
<1>3. CASE SubframeHeader(dreq, reset_seq) \/ Payload(dreq, reset_seq)
      BY <1>0, <1>3 DEF SubframeHeader, Payload
<1>4. CASE CrcState(dreq, reset_seq)
      BY <1>4 DEF CrcState
<1>5. CASE Padding(dreq, reset_seq)
      BY <1>0, <1>5 DEF Padding
<1>6. CASE Eof(dreq, reset_seq)
      BY <1>0, <1>6 DEF Eof, Signals
<1>. QED BY <1>1, <1>2, <1>3, <1>4, <1>5, <1>6 DEF Fsm

LEMMA AskStep ==
  ASSUME AskInv, fifo \in Seq(Entry), NEW req \in BOOLEAN, NEW flush, NEW reset_seq,
         NEW word, Clock(req, flush, reset_seq, word)
  PROVE  /\ AskInv'
         /\ WireValid' /\ ~asked' =>
              state = "CRC_WORD" /\ state' = "CRC_WORD" /\ fsm_out' = fsm_out
<1>1. RegsOK'
      BY RegsStep DEF AskInv
<1>2. asked' = req /\ (d_req_prev' => req)
      BY DEF Clock, Ins!Edge, Ins!Disabled
<1>3. Dreq(req) \in BOOLEAN /\ (Dreq(req) => req) /\ Fsm(Dreq(req), flush, reset_seq)
      BY DEF Dreq, Ins!d_req_o, Clock
<1>4. /\ fsm_out'.dvalid =>
           \/ Dreq(req)
           \/ state = "CRC_WORD" /\ state' = state /\ fsm_out' = fsm_out
      /\ state' \in {"IDLE", "SOF"} => ~fsm_out'.dvalid
      BY <1>3, WordIsAsked
<1>5. AskInv'
      BY <1>1, <1>2, <1>3, <1>4 DEF AskInv
<1>6. WireValid' => d_req_prev' \/ fsm_out'.dvalid
      BY DEF WireValid, Ins!d_valid_o
<1>. QED BY <1>2, <1>3, <1>4, <1>5, <1>6

LEMMA AskReset ==
  ASSUME AskInv, Reset
  PROVE  AskInv' /\ ~WireValid'
<1>1. RegsOK'
      BY RegsReset DEF AskInv
<1>2. /\ d_req_prev' = FALSE /\ ins_state' = "IDLE"
      /\ fsm_out' = [NoWord EXCEPT !.data = fsm_out.data]
      BY DEF Reset, Ins!Disabled
<1>3. fsm_out'.dvalid = FALSE
      BY <1>2 DEF NoWord
<1>. QED BY <1>1, <1>2, <1>3 DEF AskInv, WireValid, Ins!d_valid_o

(* For all sizes, whatever the user writes and wherever the fabric stalls: *)
(* a word the fabric did not ask for in the cycle before is only the last  *)
(* data word, which CRC_WORD goes on showing while it waits                *)
(* (xtx_streamer.vhd:505-520, gc_escape_inserter.vhd:80-81).               *)
THEOREM UnaskedIsRepeated == Spec => UnaskedWordIsRepeated
<1>1. Init => AskInv
  <2> SUFFICES ASSUME Init PROVE AskInv
      OBVIOUS
  <2>1. RegsOK
        BY FrameInit DEF FrameInv
  <2>. QED BY <2>1, SignalsMade DEF AskInv, Init, Ins!Init
<1>2. ASSUME BufferInv, AskInv, [Next]_vars
      PROVE  /\ AskInv'
             /\ [WireValid' /\ ~asked' =>
                   state = "CRC_WORD" /\ state' = "CRC_WORD" /\ fsm_out' = fsm_out]_vars
  <2>1. CASE Reset
        BY <1>2, <2>1, AskReset
  <2>2. CASE \E req \in BOOLEAN : Tick(req)
    <3>1. PICK req \in BOOLEAN, flush \in BOOLEAN, reset_seq \in BOOLEAN, word \in UserWords :
            Clock(req, flush, reset_seq, word)
          BY <2>2 DEF Tick
    <3>2. fifo \in Seq(Entry)
          BY <1>2 DEF BufferInv
    <3>. QED BY <1>2, <3>1, <3>2, AskStep
  <2>3. CASE UNCHANGED vars
    <3>1. AskInv'
          BY <1>2, <2>3 DEF AskInv, RegsOK, vars, bufferVars, timerVars, fsmVars, insVars,
             userVars, wireVars
    <3>. QED BY <2>3, <3>1
  <2>. QED BY <1>2, <2>1, <2>2, <2>3 DEF Next
<1>. QED BY <1>1, <1>2, BufferInvariant, PTL DEF Spec, UnaskedWordIsRepeated

-----------------------------------------------------------------------------
(* The CRC counter is bounded by the size of a block. *)

(* No block ends in q after i and up to j. *)
NoEnd(q, i, j) == \A x \in i + 1 .. j : ~q[x].last

(* The blocks in q, of which the first has lost k words, stay below        *)
(* MaxWords where they do not end, and the last one has at most o words. *)
Short(q, k, o) == \A i, j \in 0 .. Len(q) :
  i <= j /\ NoEnd(q, i, j) =>
    LET size == j - i + (IF i = 0 THEN k ELSE 0)
    IN  size < MaxWords /\ (j = Len(q) => size <= o)

CrcBound == 1 + Subwords * MaxWords

BlockInv ==
  /\ open \in 0 .. MaxWords - 1 /\ Short(fifo, 0, open) /\ crc <= CrcBound
  /\ state = "PAYLOAD" => \E k \in Nat : /\ crc_value = 1 + Subwords * k + ser_count
                                         /\ Short(fifo, k, open)
  /\ state = "CRC_WORD" => crc_value <= CrcBound

LEMMA ShortTail ==
  ASSUME NEW q \in Seq(Entry), q # <<>>, NEW k \in Nat, NEW o \in Nat, Short(q, k, o)
  PROVE  Short(Tail(q), IF Head(q).last THEN 0 ELSE k + 1, o)
<1> DEFINE r == Tail(q)
           l == IF Head(q).last THEN 0 ELSE k + 1
<1>0. /\ Len(q) \in Nat \ {0} /\ Len(r) = Len(q) - 1 /\ l \in Nat
      /\ Head(q) = q[1] /\ \A x \in 1 .. Len(r) : r[x] = q[x + 1]
      /\ l = IF Head(q).last THEN 0 ELSE k + 1
      BY DEF r
<1> SUFFICES ASSUME NEW i \in 0 .. Len(r), NEW j \in 0 .. Len(r), i <= j, NoEnd(r, i, j)
             PROVE  LET size == j - i + (IF i = 0 THEN l ELSE 0)
                    IN  size < MaxWords /\ (j = Len(r) => size <= o)
    BY DEF Short
<1> HIDE DEF r, l
<1>1. \A x \in i + 2 .. j + 1 : ~q[x].last
  <2> SUFFICES ASSUME NEW x \in i + 2 .. j + 1 PROVE ~q[x].last
      OBVIOUS
  <2>1. x - 1 \in i + 1 .. j /\ x - 1 \in 1 .. Len(r) /\ (x - 1) + 1 = x
        BY <1>0
  <2>2. ~r[x - 1].last
        BY <2>1 DEF NoEnd
  <2>. QED BY <1>0, <2>1, <2>2
<1>2. CASE i = 0 /\ ~Head(q).last
  <2>1. NoEnd(q, 0, j + 1)
    <3> SUFFICES ASSUME NEW x \in 1 .. j + 1 PROVE ~q[x].last
        BY DEF NoEnd
    <3>1. CASE x = 1
          BY <1>0, <1>2, <3>1
    <3>2. CASE x # 1
          BY <1>1, <1>2, <3>2
    <3>. QED BY <3>1, <3>2
  <2>2. 0 \in 0 .. Len(q) /\ j + 1 \in 0 .. Len(q) /\ 0 <= j + 1
        BY <1>0
  <2>3. j + 1 + k < MaxWords /\ (j + 1 = Len(q) => j + 1 + k <= o)
        BY <2>1, <2>2 DEF Short
  <2>. QED BY <1>0, <1>2, <2>3
<1>3. CASE ~(i = 0 /\ ~Head(q).last)
  <2>1. NoEnd(q, i + 1, j + 1)
        BY <1>1 DEF NoEnd
  <2>2. i + 1 \in 0 .. Len(q) /\ j + 1 \in 0 .. Len(q) /\ i + 1 <= j + 1 /\ i + 1 # 0
        BY <1>0
  <2>3. j - i < MaxWords /\ (j + 1 = Len(q) => j - i <= o)
        BY <2>1, <2>2 DEF Short
  <2>4. (IF i = 0 THEN l ELSE 0) = 0
        BY <1>0, <1>3
  <2>. QED BY <1>0, <2>3, <2>4
<1>. QED BY <1>2, <1>3

LEMMA ShortAppend ==
  ASSUME NEW q \in Seq(Entry), NEW e \in Entry, NEW k \in Nat, NEW o \in 0 .. MaxWords - 1,
         o + 1 = MaxWords => e.last, Short(q, k, o)
  PROVE  Short(Append(q, e), k, IF e.last THEN 0 ELSE o + 1)
<1> DEFINE r == Append(q, e)
           p == IF e.last THEN 0 ELSE o + 1
<1>0. /\ Len(q) \in Nat /\ Len(r) = Len(q) + 1 /\ r[Len(r)] = e
      /\ \A x \in 1 .. Len(q) : r[x] = q[x]
      /\ MaxWords \in Nat \ {0}
      BY TxAssumption DEF r
<1> SUFFICES ASSUME NEW i \in 0 .. Len(r), NEW j \in 0 .. Len(r), i <= j, NoEnd(r, i, j)
             PROVE  LET size == j - i + (IF i = 0 THEN k ELSE 0)
                    IN  size < MaxWords /\ (j = Len(r) => size <= p)
    BY DEF Short
<1> HIDE DEF r
<1>1. CASE j <= Len(q)
  <2>1. NoEnd(q, i, j)
        BY <1>0, <1>1 DEF NoEnd
  <2>2. i \in 0 .. Len(q) /\ j \in 0 .. Len(q) /\ j # Len(r)
        BY <1>0, <1>1
  <2>. QED BY <2>1, <2>2 DEF Short
<1>2. CASE j = Len(r) /\ i = Len(r)
      BY <1>0, <1>2
<1>3. CASE j = Len(r) /\ i <= Len(q)
  <2>1. Len(r) \in i + 1 .. j
        BY <1>0, <1>3
  <2>2. ~e.last
        BY <1>0, <2>1 DEF NoEnd
  <2>3. NoEnd(q, i, Len(q))
        BY <1>0, <1>3 DEF NoEnd
  <2>4. i \in 0 .. Len(q) /\ Len(q) \in 0 .. Len(q) /\ i <= Len(q)
        BY <1>0, <1>3
  <2>5. Len(q) - i + (IF i = 0 THEN k ELSE 0) <= o
        BY <2>3, <2>4 DEF Short
  <2>6. o + 1 < MaxWords /\ p = o + 1
        BY <1>0, <2>2
  <2>. QED BY <1>0, <1>3, <2>5, <2>6
<1>. QED BY <1>0, <1>1, <1>2, <1>3

LEMMA ShortLess ==
  ASSUME NEW q \in Seq(Entry), NEW k \in Nat, NEW o \in Nat, Short(q, k, o)
  PROVE  Short(q, 0, o) /\ k < MaxWords
<1>1. Len(q) \in Nat /\ MaxWords \in Nat
      BY TxAssumption
<1>2. Short(q, 0, o)
  <2> SUFFICES ASSUME NEW i \in 0 .. Len(q), NEW j \in 0 .. Len(q), i <= j, NoEnd(q, i, j)
               PROVE  LET size == j - i + (IF i = 0 THEN 0 ELSE 0)
                      IN  size < MaxWords /\ (j = Len(q) => size <= o)
      BY DEF Short
  <2> DEFINE size == j - i + (IF i = 0 THEN k ELSE 0)
  <2>1. size < MaxWords /\ (j = Len(q) => size <= o)
        BY DEF Short
  <2>2. j - i + (IF i = 0 THEN 0 ELSE 0) <= size /\ size \in Nat
        OBVIOUS
  <2>. HIDE DEF size
  <2>. QED BY <1>1, <2>1, <2>2
<1>3. k < MaxWords
  <2>1. 0 \in 0 .. Len(q) /\ 0 <= 0 /\ NoEnd(q, 0, 0)
        BY <1>1 DEF NoEnd
  <2>. QED BY <2>1 DEF Short
<1>. QED BY <1>2, <1>3

LEMMA ShortEmpty == Short(<<>>, 0, 0)
BY TxAssumption DEF Short

(* One edge of the clock: k' words of the block are gone. *)
LEMMA ShortStep ==
  ASSUME BufferInv, open \in 0 .. MaxWords - 1, NEW k \in Nat, Short(fifo, k, open),
         NEW dreq, NEW word, UserWrites(word), Buffer(dreq, word)
  PROVE  /\ open' \in 0 .. MaxWords - 1
         /\ Short(fifo', IF ~tx_fifo_rd(dreq) THEN k
                         ELSE IF Head(fifo).last THEN 0 ELSE k + 1, open')
<1> DEFINE kept == IF tx_fifo_rd(dreq) THEN Tail(fifo) ELSE fifo
           l == IF ~tx_fifo_rd(dreq) THEN k ELSE IF Head(fifo).last THEN 0 ELSE k + 1
<1>0. fifo \in Seq(Entry) /\ MaxWords \in Nat \ {0} /\ open \in Nat
      BY TxAssumption DEF BufferInv
<1>1. kept \in Seq(Entry) /\ l \in Nat /\ Short(kept, l, open)
  <2>1. CASE tx_fifo_rd(dreq)
    <3>1. fifo # <<>>
          BY <2>1 DEF tx_fifo_rd, tx_fifo_empty
    <3>. QED BY <1>0, <2>1, <3>1, ShortTail
  <2>2. CASE ~tx_fifo_rd(dreq)
        BY <1>0, <2>2
  <2>. QED BY <2>1, <2>2
<1>2. fifo' = kept \o Written(word)
      BY DEF Buffer
<1>. HIDE DEF kept, l
<1>3. CASE word = <<>>
  <2>1. open' = open /\ Written(word) = <<>>
        BY <1>3 DEF UserWrites, Written
  <2>2. fifo' = kept
        BY <1>1, <1>2, <2>1
  <2>. QED BY <1>1, <2>1, <2>2 DEF l
<1>4. CASE word # <<>>
  <2>1. PICK e \in Entry : word = <<e>>
        BY <1>4 DEF UserWrites
  <2>2. may_write /\ ~tx_fifo_full
        BY <1>4 DEF UserWrites, BufferInv, RequestedWordFits
  <2>3. Head(word) = e /\ Written(word) = <<e>>
        BY <2>1, <2>2 DEF Written
  <2>4. /\ open' = IF e.last THEN 0 ELSE open + 1
        /\ open + 1 = MaxWords => e.last
        BY <1>4, <2>3 DEF UserWrites
  <2>5. fifo' = Append(kept, e)
        BY <1>1, <1>2, <2>3
  <2>6. Short(Append(kept, e), l, IF e.last THEN 0 ELSE open + 1)
        BY <1>1, <2>4, ShortAppend
  <2>7. open' \in 0 .. MaxWords - 1
        BY <1>0, <2>4
  <2>. QED BY <2>4, <2>5, <2>6, <2>7 DEF l
<1>. QED BY <1>3, <1>4

LEMMA TimesGrows ==
  ASSUME NEW m \in Nat, NEW a \in Nat, NEW b \in Nat, a <= b
  PROVE  m * a <= m * b
<1>1. PICK d \in Nat : b = a + d
  <2>1. b - a \in Nat /\ b = a + (b - a)
        OBVIOUS
  <2>. QED BY <2>1
<1>2. m * b = m * a + m * d /\ m * d \in Nat /\ m * a \in Nat
      BY <1>1
<1>. QED BY <1>2

(* A subframe of a block that is short has few words. *)
LEMMA CrcOfWords ==
  ASSUME NEW k \in Nat, NEW s \in 0 .. Subwords, k < MaxWords
  PROVE  1 + Subwords * k + s <= CrcBound
<1>1. Subwords \in Nat /\ MaxWords \in Nat /\ k + 1 <= MaxWords
      BY FrameAssumption, TxAssumption
<1>2. Subwords * (k + 1) <= Subwords * MaxWords /\ Subwords * (k + 1) = Subwords * k + Subwords
      BY <1>1, TimesGrows
<1>3. Subwords * k \in Nat /\ Subwords * MaxWords \in Nat
      BY <1>1
<1> DEFINE x == Subwords * k
           y == Subwords * MaxWords
<1>4. x + Subwords <= y /\ x \in Nat /\ y \in Nat
      BY <1>2, <1>3
<1> HIDE DEF x, y
<1>5. 1 + x + s <= 1 + y
      BY <1>1, <1>4
<1>. QED BY <1>5 DEF x, y, CrcBound

LEMMA CrcNext ==
  ASSUME FrameInv, BlockInv, fifo \in Seq(Entry)
  PROVE  (IF crc_reset THEN 0 ELSE crc_value) <= CrcBound
<1>0. CrcBound \in Nat /\ Subwords \in Nat
  <2>1. Subwords \in Nat /\ MaxWords \in Nat
        BY FrameAssumption, TxAssumption
  <2>2. Subwords * MaxWords \in Nat
        BY <2>1
  <2>. QED BY <2>1, <2>2 DEF CrcBound
<1>1. /\ state \in States /\ StageInv /\ open \in Nat /\ ser_count \in 0 .. Subwords
      /\ CrcBound \in Nat /\ Subwords \in Nat
      BY <1>0 DEF FrameInv, BlockInv, RegsOK
<1>2. CASE state = "PAYLOAD"
  <2>1. PICK k \in Nat : crc_value = 1 + Subwords * k + ser_count /\ Short(fifo, k, open)
        BY <1>2 DEF BlockInv
  <2>2. k < MaxWords
        BY <1>1, <2>1, ShortLess
  <2>3. crc_value <= CrcBound
        BY <1>1, <2>1, <2>2, CrcOfWords
  <2>. QED BY <1>1, <2>3
<1>3. CASE state = "CRC_WORD"
      BY <1>1, <1>3 DEF BlockInv
<1>4. CASE state \in {"IDLE", "SOF", "ETH_HEADER", "SUBFRAME_HEADER"}
  <2>1. CrcIdle
        BY <1>1, <1>4 DEF StageInv, IdleInv, SofInv, HeaderInv, SubframeInv
  <2>. QED BY <1>1, <2>1 DEF CrcIdle, crc_value
<1>5. CASE state \in {"PADDING", "EOF"}
  <2>1. crc_reset
        BY <1>1, <1>5 DEF StageInv, PaddingInv, EofInv
  <2>. QED BY <1>1, <2>1
<1>. QED BY <1>1, <1>2, <1>3, <1>4, <1>5 DEF States

LEMMA BlockClock ==
  ASSUME HandledTraffic, BufferInv, FrameInv, BlockInv,
         NEW req \in BOOLEAN, NEW flush, NEW reset_seq, NEW word,
         Clock(req, flush, reset_seq, word)
  PROVE  BlockInv'
<1>1. Ready /\ RegsOK' /\ fifo \in Seq(Entry)
      BY RegsStep DEF Ready, FrameInv, BufferInv
<1>2. /\ Fsm(Dreq(req), flush, reset_seq) /\ Dreq(req) \in BOOLEAN
      /\ UserWrites(word) /\ Buffer(Dreq(req), word)
      BY <1>1, AtHand DEF Clock
<1>3. crc' <= CrcBound
      BY <1>1, AtHand, CrcNext
<1>0. /\ open \in 0 .. MaxWords - 1 /\ Short(fifo, 0, open)
      /\ MaxWords \in Nat \ {0} /\ Subwords \in Nat \ {0}
      BY TxAssumption, FrameAssumption DEF BlockInv
<1>4. CASE state # "PAYLOAD"
  <2>1. ~tx_fifo_rd(Dreq(req))
        BY <1>4 DEF tx_fifo_rd
  <2>2. open' \in 0 .. MaxWords - 1 /\ Short(fifo', 0, open')
        BY <1>0, <1>2, <2>1, ShortStep
  <2>3. state' = "PAYLOAD" => crc_value' = 1 + Subwords * 0 + ser_count'
    <3>1. SUFFICES ASSUME state' = "PAYLOAD"
                   PROVE  crc_value' = 1 + Subwords * 0 + ser_count'
          OBVIOUS
    <3>2. SubframeHeader(Dreq(req), reset_seq) /\ Dreq(req)
          BY <1>2, <1>4, <3>1 DEF Fsm, Idle, Sof, EthHeader, SubframeHeader, Payload, CrcState,
             Padding, Eof
    <3>3. state = "SUBFRAME_HEADER" /\ fsm_out' = Word(SeqWord(seq_no)) /\ crc_en' = TRUE
          /\ ser_count' = ser_count
          BY <3>2 DEF SubframeHeader
    <3>4. CrcIdle /\ ser_count = 0
          BY <3>3 DEF FrameInv, StageInv, SubframeInv
    <3>5. crc' = 0
          BY <1>1, <3>4, AtHand DEF CrcIdle, crc_value
    <3>6. SeqWord(seq_no) \in FabricWord
          BY TxWords, TxAssumption DEF FrameInv, RegsOK
    <3>7. fsm_out'.dvalid = TRUE
          BY <3>3, <3>6, SignalsMade
    <3>8. crc_value' = 1
          BY <3>3, <3>5, <3>7 DEF crc_value
    <3>. QED BY <1>0, <3>3, <3>4, <3>8
  <2>4. state' # "CRC_WORD"
    <3>1. CASE state = "CRC_WORD"
      <4>1. Dreq(req) /\ CrcState(Dreq(req), reset_seq)
            BY <1>1, <1>2, <3>1, CrcAsked, FsmIs
      <4>. QED BY <4>1 DEF CrcState
    <3>2. CASE state # "CRC_WORD"
          BY <1>2, <1>4, <3>2 DEF Fsm, Idle, Sof, EthHeader, SubframeHeader, Payload, CrcState,
             Padding, Eof
    <3>. QED BY <3>1, <3>2
  <2>. QED BY <1>3, <2>2, <2>3, <2>4 DEF BlockInv
<1>5. CASE state = "PAYLOAD"
  <2>1. PICK k \in Nat : crc_value = 1 + Subwords * k + ser_count /\ Short(fifo, k, open)
        BY <1>5 DEF BlockInv
  <2> DEFINE l == IF ~tx_fifo_rd(Dreq(req)) THEN k ELSE IF Head(fifo).last THEN 0 ELSE k + 1
  <2>2. /\ open' \in 0 .. MaxWords - 1 /\ Short(fifo', l, open') /\ l \in Nat
        BY <1>0, <1>2, <2>1, ShortStep
  <2>3. k < MaxWords
        BY <1>0, <1>1, <2>1, ShortLess
  <2>4. Short(fifo', 0, open')
    <3>1. fifo' \in Seq(Entry) /\ open' \in Nat
      <4>1. fifo' \in Seq(Entry)
        <5>1. word \in UserWords
              BY <1>2 DEF UserWrites, UserWords
        <5>2. FrameCounter(Dreq(req), word)
              BY DEF Clock
        <5>. QED BY <1>2, <5>1, <5>2, BufferEdge DEF BufferInv
      <4>. QED BY <1>0, <2>2, <4>1
    <3> HIDE DEF l
    <3>. QED BY <2>2, <3>1, ShortLess
  <2>5. /\ Payload(Dreq(req), reset_seq) /\ crc_en' = TRUE /\ crc' = crc_value
        /\ ser_count \in 0 .. Subwords - 1
    <3>1. crc_en = TRUE /\ crc_reset = FALSE
          BY <1>5 DEF FrameInv, StageInv, PayloadInv, RegsOK
    <3>2. Payload(Dreq(req), reset_seq)
          BY <1>2, <1>5, FsmIs
    <3>3. crc_en' = TRUE
          BY <3>1, <3>2 DEF Payload
    <3>4. crc' = crc_value
          BY <1>1, <3>1, AtHand
    <3>. QED BY <3>2, <3>3, <3>4 DEF FrameInv, RegsOK
  <2>6. CASE ~(Dreq(req) /\ ~tx_fifo_empty)
    <3>1. fsm_out' = NoWord
          BY <2>5, <2>6 DEF Payload
    <3>2. crc_value' = crc_value
          BY <2>5, <3>1, SignalsMade DEF crc_value
    <3>3. l = k
          BY <2>6 DEF tx_fifo_rd
    <3>4. CASE Dreq(req)
      <4>1. state' = "CRC_WORD"
            BY <2>5, <2>6, <3>4 DEF Payload
      <4>2. crc_value' <= CrcBound
        <5>1. ser_count \in 0 .. Subwords
              BY <1>0, <2>5
        <5>. QED BY <2>1, <2>3, <3>2, <5>1, CrcOfWords
      <4>. QED BY <1>3, <2>2, <2>4, <4>1, <4>2 DEF BlockInv
    <3>5. CASE ~Dreq(req)
      <4>1. state' = "PAYLOAD" /\ ser_count' = ser_count
            BY <1>5, <2>5, <3>5 DEF Payload
      <4>2. crc_value' = 1 + Subwords * k + ser_count' /\ Short(fifo', k, open')
            BY <2>1, <2>2, <3>2, <3>3, <4>1
      <4>. QED BY <1>3, <2>2, <2>4, <4>1, <4>2 DEF BlockInv
    <3>. QED BY <3>4, <3>5
  <2>7. CASE Dreq(req) /\ ~tx_fifo_empty
    <3> DEFINE w == Subword(Head(fifo), ser_count)
    <3>1. w \in FabricWord
          BY <1>1, <2>5, <2>7, SubwordIsWord DEF tx_fifo_empty
    <3>2. /\ fsm_out' = Word(w)
          /\ ser_count' = IF ser_count = Subwords - 1 THEN 0 ELSE ser_count + 1
          /\ state' = IF ser_count = Subwords - 1 /\ Head(fifo).last THEN "CRC_WORD" ELSE "PAYLOAD"
          BY <1>5, <2>5, <2>7 DEF Payload, last_subword, tx_fifo_last
    <3> HIDE DEF w
    <3>3. fsm_out'.dvalid = TRUE
          BY <3>1, <3>2, SignalsMade
    <3>4. crc_value' = crc_value + 1
          BY <2>5, <3>3 DEF crc_value
    <3>5. tx_fifo_rd(Dreq(req)) <=> ser_count = Subwords - 1
          BY <1>5, <2>7 DEF tx_fifo_rd, last_subword
    <3>6. CASE ser_count # Subwords - 1
      <4>1. state' = "PAYLOAD" /\ ser_count' = ser_count + 1 /\ l = k
            BY <3>2, <3>5, <3>6
      <4>2. crc_value' = 1 + Subwords * k + ser_count' /\ Short(fifo', k, open')
            BY <1>0, <2>1, <2>2, <2>5, <3>4, <4>1
      <4>. QED BY <1>3, <2>2, <2>4, <4>1, <4>2 DEF BlockInv
    <3>7. CASE ser_count = Subwords - 1 /\ Head(fifo).last
      <4>1. state' = "CRC_WORD"
            BY <3>2, <3>7
      <4>2. crc_value' = 1 + Subwords * k + Subwords
            BY <1>0, <2>1, <3>4, <3>7
      <4>3. crc_value' <= CrcBound
            BY <1>0, <2>3, <4>2, CrcOfWords
      <4>. QED BY <1>3, <2>2, <2>4, <4>1, <4>3 DEF BlockInv
    <3>8. CASE ser_count = Subwords - 1 /\ ~Head(fifo).last
      <4>1. state' = "PAYLOAD" /\ ser_count' = 0 /\ l = k + 1
            BY <3>2, <3>5, <3>8
      <4>2. crc_value' = 1 + Subwords * k + Subwords
            BY <1>0, <2>1, <3>4, <3>8
      <4>3. Subwords * (k + 1) = Subwords * k + Subwords
            BY <1>0
      <4>4. /\ k + 1 \in Nat /\ crc_value' = 1 + Subwords * (k + 1) + ser_count'
            /\ Short(fifo', k + 1, open')
            BY <1>0, <2>2, <4>1, <4>2, <4>3
      <4>. QED BY <1>3, <2>2, <2>4, <4>1, <4>4 DEF BlockInv
    <3>. QED BY <3>6, <3>7, <3>8
  <2>. QED BY <2>6, <2>7
<1>. QED BY <1>4, <1>5

(* The timer and the flags that nothing above needs. *)
TimerInv ==
  /\ timeout_counter \in 0 .. TimerSize - 1
  /\ {tx_timeout_hit, tx_flush_latched, reset_dly, may_write, asked} \subseteq BOOLEAN

LEMMA TimerInvariant == Spec => []TimerInv
<1>0. /\ 0 \in 0 .. TimerSize - 1
      /\ \A n \in 0 .. TimerSize - 1 : (n + 1) % TimerSize \in 0 .. TimerSize - 1
      BY TxAssumption
<1>1. Init => TimerInv
      BY <1>0 DEF Init, TimerInv
<1>2. TimerInv /\ [Next]_vars => TimerInv'
  <2> SUFFICES ASSUME TimerInv, [Next]_vars PROVE TimerInv'
      OBVIOUS
  <2>1. CASE Reset
        BY <1>0, <2>1 DEF Reset, TimerInv
  <2>2. CASE \E req \in BOOLEAN : Tick(req)
    <3>1. PICK req \in BOOLEAN, flush \in BOOLEAN, reset_seq \in BOOLEAN, word \in UserWords :
            Clock(req, flush, reset_seq, word)
          BY <2>2 DEF Tick
    <3>2. timeout_counter' \in 0 .. TimerSize - 1 /\ tx_timeout_hit' \in BOOLEAN
          BY <1>0, <3>1 DEF Clock, TxTimeout, TimerInv
    <3>3. tx_flush_latched' \in BOOLEAN
          BY <3>1 DEF Clock, LatchTxFlush
    <3>4. reset_dly' \in BOOLEAN /\ asked' \in BOOLEAN
          BY <3>1 DEF Clock
    <3>5. may_write' \in BOOLEAN
          BY <3>1 DEF Clock, UserWrites, tx_dreq_o
    <3>. QED BY <3>2, <3>3, <3>4, <3>5 DEF TimerInv
  <2>3. CASE UNCHANGED vars
        BY <2>3 DEF vars, timerVars, userVars, TimerInv
  <2>. QED BY <2>1, <2>2, <2>3 DEF Next
<1>. QED BY <1>1, <1>2, PTL DEF Spec

LEMMA BlockInvariant ==
  ASSUME HandledTraffic
  PROVE  Spec => []BlockInv
<1>0. 0 \in 0 .. MaxWords - 1 /\ 0 <= CrcBound
      BY TxAssumption, FrameAssumption DEF CrcBound
<1>1. Init => BlockInv
      BY <1>0, ShortEmpty DEF Init, BlockInv
<1>2. BufferInv /\ FrameInv /\ BlockInv /\ [Next]_vars => BlockInv'
  <2> SUFFICES ASSUME BufferInv, FrameInv, BlockInv, [Next]_vars PROVE BlockInv'
      OBVIOUS
  <2>1. CASE Reset
    <3>1. crc' = IF crc_reset THEN 0 ELSE crc_value
          BY <2>1 DEF Reset, CrcGen
    <3>2. crc' <= CrcBound
          BY <3>1, CrcNext DEF BufferInv
    <3>3. fifo' = <<>> /\ open' = 0 /\ state' = "IDLE"
          BY <2>1 DEF Reset
    <3>. QED BY <1>0, <3>2, <3>3, ShortEmpty DEF BlockInv
  <2>2. CASE \E req \in BOOLEAN : Tick(req)
    <3>1. PICK req \in BOOLEAN, flush \in BOOLEAN, reset_seq \in BOOLEAN, word \in UserWords :
            Clock(req, flush, reset_seq, word)
          BY <2>2 DEF Tick
    <3>. QED BY <3>1, BlockClock
  <2>3. CASE UNCHANGED vars
    <3>1. /\ fifo' = fifo /\ open' = open /\ crc' = crc /\ state' = state
          /\ ser_count' = ser_count /\ crc_value' = crc_value
          BY <2>3 DEF vars, bufferVars, userVars, fsmVars, crc_value
    <3>. QED BY <3>1 DEF BlockInv
  <2>. QED BY <2>1, <2>2, <2>3 DEF Next
<1>. QED BY <1>1, <1>2, BufferInvariant, FrameInvariant, PTL DEF Spec

(* Every register stays in its range, for every size: also the words a CRC *)
(* covers, which are bounded because the subframe ends with the user's     *)
(* block, whichever part of it the buffer held when the subframe began     *)
(* (xtx_streamer.vhd, p_fsm and U_tx_crc_generator). *)
THEOREM TransmitterTypeCorrect ==
  ASSUME HandledTraffic
  PROVE  Spec => []TypeOK
<1>1. BufferInv /\ TimerInv /\ FrameInv /\ BlockInv => TypeOK
  <2> SUFFICES ASSUME BufferInv, TimerInv, FrameInv, BlockInv PROVE TypeOK
      OBVIOUS
  <2>1. /\ fifo \in Seq(Entry) /\ Len(fifo) <= 2 * Threshold
        /\ buf_frame_count \in 0 .. FrameCountSize - 1
    <3>1. /\ fifo \in Seq(Entry) /\ Len(fifo) <= 2 * Threshold
          /\ buf_frame_count = Ends(fifo) % FrameCountSize /\ Ends(fifo) \in Nat
          BY EndsFinite DEF BufferInv, FrameCountIsBlockEnds, Ends
    <3>2. PICK e, m : e = Ends(fifo) /\ m = FrameCountSize
          OBVIOUS
    <3>3. e \in Nat /\ m \in Nat \ {0}
          BY <3>1, <3>2, TxAssumption
    <3>4. e % m \in 0 .. m - 1
          BY <3>3
    <3>5. buf_frame_count \in 0 .. FrameCountSize - 1
          BY <3>1, <3>2, <3>4, Zenon
    <3>. QED BY <3>1, <3>5
  <2>2. /\ state \in States /\ count \in 0 .. CountSize - 1 /\ ser_count \in 0 .. Subwords - 1
        /\ seq_no \in 0 .. SeqSize - 1 /\ total_words \in 0 .. MinWords
        /\ ins_state \in {"IDLE", "INSERT_ESCAPE"} /\ det_state \in {"IDLE", "CHECK_ESCAPE"}
        BY DEF FrameInv, RegsOK
  <2>3. {fsm_out.sof, fsm_out.eof, fsm_out.dvalid} \subseteq BOOLEAN
        BY DEF FrameInv, RegsOK, Signals
  <2>4. {tx_timeout_hit, tx_flush_latched, fsm_escape, fsm_escape_enable,
         crc_en, crc_reset, reset_dly, d_req_prev, may_write, asked} \subseteq BOOLEAN
    <3>1. /\ fsm_escape \in BOOLEAN /\ fsm_escape_enable \in BOOLEAN /\ crc_en \in BOOLEAN
          /\ crc_reset \in BOOLEAN /\ d_req_prev \in BOOLEAN
          BY DEF FrameInv, RegsOK
    <3>2. {tx_timeout_hit, tx_flush_latched, reset_dly, may_write, asked} \subseteq BOOLEAN
          BY DEF TimerInv
    <3>. QED BY <3>1, <3>2
  <2>5. crc \in 0 .. 1 + Subwords * MaxWords /\ open \in 0 .. MaxWords
        BY TxAssumption, FrameAssumption DEF BlockInv, CrcBound, FrameInv, RegsOK
  <2>6. Len(inflight) <= 2
    <3>1. inflight = <<>> \/ inflight = <<TheWord>> \/ inflight = <<fsm_out.data>>
          BY DEF FrameInv, RegsOK, States, StageInv, IdleInv, SofInv, HeaderInv, SubframeInv,
             PayloadInv, CrcInv, PaddingInv, EofInv
    <3>. QED BY <3>1
  <2>7. timeout_counter \in 0 .. TimerSize - 1
        BY DEF TimerInv
  <2>. QED BY <2>1, <2>2, <2>3, <2>4, <2>5, <2>6, <2>7 DEF TypeOK
<1>. QED BY <1>1, BufferInvariant, TimerInvariant, FrameInvariant, BlockInvariant, PTL
=============================================================================
