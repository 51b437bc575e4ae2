---------------------------- MODULE XrxRingProofs ----------------------------
(***************************************************************************)
(* The receive streamer over the ring buffer implements the receive        *)
(* streamer over the buffer's specification, for every size of the buffer  *)
(* and of the words and every sequence of frames that AsDeployed of        *)
(* XrxReceiverProofs leaves.  The two proofs it is put together from       *)
(* depend on each other: the ring is a queue only while accept and drop do *)
(* not meet (DroppingBufferProofs), and that is shown of a receiver whose  *)
(* buffer is a queue (XrxReceiverProofs).  So the invariants of both hold  *)
(* together, step by step.                                                 *)
(***************************************************************************)
EXTENDS XrxRing, TLAPS

Buffer == INSTANCE DroppingBufferProofs
            WITH Size <- BufferSize, Data <- FifoWord
Receiver == INSTANCE XrxReceiverProofs
              WITH committed <- Buf!Readable, pending <- Buf!Unaccepted,
                   out <- d_o, valid <- d_valid_o

(* What the theorems of the two modules assume of the constants. *)
LEMMA Assumed ==
  ASSUME Receiver!AsDeployed
  PROVE  /\ Buffer!SizeAssumption
         /\ Receiver!RxAssumption /\ Receiver!FrameAssumption
BY RxAssumption, FrameAssumption
   DEF Receiver!AsDeployed, Buffer!SizeAssumption, Receiver!RxAssumption,
       Receiver!FrameAssumption, States, Receiver!States

Inv == Receiver!Inv /\ Buffer!TypeOK /\ Buffer!RingOrder

(* The signals between the state machine and the buffer have their types. *)
LEMMA SignalsTyped ==
  ASSUME Receiver!AsDeployed, Receiver!Inv
  PROVE  /\ {fifo_dvalid, fifo_accept_d0, fifo_drop, d_valid_o} \subseteq BOOLEAN
         /\ fifo_din \in FifoWord
         /\ Buffer!NeverBoth(fifo_accept_d0, fifo_drop)
<1>1. Receiver!TypeInv /\ Receiver!FlagInv
      BY DEF Receiver!Inv
<1>2. Receiver!fifo_din \in Receiver!FifoWord
      BY <1>1, Assumed, Receiver!DinTyped DEF Receiver!TypeInv
<1>3. fifo_din \in FifoWord
      BY <1>2 DEF fifo_din, FifoWord, Marked, Packed, Spoilt, Receiver!fifo_din,
                  Receiver!FifoWord, Receiver!Marked, Receiver!Packed, Receiver!Spoilt
<1>4. {fifo_dvalid, fifo_accept_d0, fifo_drop, d_valid_o} \subseteq BOOLEAN
      BY <1>1 DEF Receiver!TypeInv, Receiver!RegsOK, Receiver!BufOK
<1>. QED BY <1>1, <1>3, <1>4 DEF Receiver!FlagInv, Buffer!NeverBoth

(* The two instances of the buffer are one. *)
LEMMA OneBuffer ==
  /\ Buffer!Readable = Buf!Readable /\ Buffer!Unaccepted = Buf!Unaccepted
  /\ Buffer!Readable' = Buf!Readable' /\ Buffer!Unaccepted' = Buf!Unaccepted'
  /\ (Buffer!full <=> Buf!full) /\ Buf!d_req_o = ~Buf!full
  /\ \A req : Buffer!Reads(req) <=> Buf!Reads(req)
  /\ \A req, valid, d, accept, drop :
        Buf!Clock(req, valid, d, accept, drop) => Buffer!Clock(req, valid, d, accept, drop)
  /\ \A req, valid, d : Buf!Reset(req, valid, d) => Buffer!Reset(req, valid, d)
<1>1. /\ Buffer!Readable = Buf!Readable /\ Buffer!Unaccepted = Buf!Unaccepted
      /\ Buffer!Readable' = Buf!Readable' /\ Buffer!Unaccepted' = Buf!Unaccepted'
      BY DEF Buffer!Readable, Buf!Readable, Buffer!Unaccepted, Buf!Unaccepted,
             Buffer!Slots, Buf!Slots, Buffer!Dist, Buf!Dist, Buffer!Plus, Buf!Plus
<1>2. (Buffer!full <=> Buf!full) /\ Buf!d_req_o = ~Buf!full
      BY DEF Buffer!full, Buf!full, Buf!d_req_o, Buffer!Inc, Buf!Inc
<1>3. ASSUME NEW req PROVE Buffer!Reads(req) <=> Buf!Reads(req)
      BY DEF Buffer!Reads, Buf!Reads, Buffer!empty_comb, Buf!empty_comb
<1>4. ASSUME NEW req, NEW valid, NEW d, NEW accept, NEW drop,
             Buf!Clock(req, valid, d, accept, drop)
      PROVE  Buffer!Clock(req, valid, d, accept, drop)
      BY <1>4 DEF Buf!Clock, Buffer!Clock, Buf!Counters, Buffer!Counters,
                  Buf!EmptyReg, Buffer!EmptyReg, Buf!MemRead, Buffer!MemRead,
                  Buf!MemWrite, Buffer!MemWrite, Buf!Reads, Buffer!Reads,
                  Buf!full, Buffer!full, Buf!Inc, Buffer!Inc,
                  Buf!empty_comb, Buffer!empty_comb
<1>5. ASSUME NEW req, NEW valid, NEW d, Buf!Reset(req, valid, d)
      PROVE  Buffer!Reset(req, valid, d)
      BY <1>5 DEF Buf!Reset, Buffer!Reset, Buf!MemRead, Buffer!MemRead,
                  Buf!MemWrite, Buffer!MemWrite, Buf!Reads, Buffer!Reads,
                  Buf!empty_comb, Buffer!empty_comb
<1>. QED BY <1>1, <1>2, <1>3, <1>4, <1>5

(* A clock edge of the buffer, as the receiver's specification has it. *)
LEMMA BufferStep ==
  ASSUME Receiver!AsDeployed, Inv, NEW rx_dreq \in BOOLEAN,
         Buf!Clock(rx_dreq, fifo_dvalid, fifo_din, fifo_accept_d0, fifo_drop)
  PROVE  /\ Buffer!TypeOK' /\ Buffer!RingOrder'
         /\ Buf!d_req_o = ~Recv!full
         /\ \/ Recv!Fifo!Deliver /\ Recv!Write(Tail(Buf!Readable))
            \/ Recv!Fifo!NoDelivery /\ Recv!Write(Buf!Readable)
<1>1. /\ Buffer!TypeOK /\ Buffer!RingOrder
      /\ fifo_dvalid \in BOOLEAN /\ fifo_accept_d0 \in BOOLEAN /\ fifo_drop \in BOOLEAN
      /\ fifo_din \in FifoWord
      /\ Buffer!NeverBoth(fifo_accept_d0, fifo_drop)
      BY SignalsTyped DEF Inv
<1>2. Buffer!Clock(rx_dreq, fifo_dvalid, fifo_din, fifo_accept_d0, fifo_drop)
      BY OneBuffer
<1>3. Buffer!TypeOK'
      BY <1>1, <1>2, Assumed, Buffer!ClockKeepsTypes
<1>4. Buffer!RingOrder'
      BY <1>1, <1>2, Assumed, Buffer!ClockKeepsRingOrder
<1>5. Buf!d_req_o = ~Recv!full /\ (Buffer!full <=> Recv!full)
  <2>1. Buffer!full <=> Len(Buf!Readable) + Len(Buf!Unaccepted) = BufferSize - 1
        BY <1>1, Assumed, Buffer!FullMeansNoRoom, OneBuffer
  <2>. QED BY <2>1, OneBuffer DEF Recv!full
<1> DEFINE left == Buffer!Left
           new == Buffer!Taken(fifo_dvalid, fifo_din)
<1>6. Recv!Write(left)
  <2>1. /\ fifo_drop => Buffer!Fifo!Drop(left)
        /\ ~fifo_drop /\ fifo_accept_d0 => Buffer!Fifo!Accept(left, new)
        /\ ~fifo_drop /\ ~fifo_accept_d0 => Buffer!Fifo!Keep(left, new)
        BY <1>1, <1>2, Assumed, Buffer!WriteSide
  <2>2. new = IF fifo_dvalid /\ ~Recv!full THEN <<Recv!fifo_din>> ELSE <<>>
        BY <1>5 DEF Buffer!Taken, Recv!fifo_din, Recv!Marked, fifo_din, Marked
  <2> HIDE DEF left, new
  <2>3. /\ fifo_drop => Recv!Fifo!Drop(left)
        /\ ~fifo_drop /\ fifo_accept_d0 => Recv!Fifo!Accept(left, new)
        /\ ~fifo_drop /\ ~fifo_accept_d0 => Recv!Fifo!Keep(left, new)
        BY <2>1, OneBuffer
           DEF Buffer!Fifo!Drop, Buffer!Fifo!Accept, Buffer!Fifo!Keep,
               Recv!Fifo!Drop, Recv!Fifo!Accept, Recv!Fifo!Keep
  <2>. QED BY <2>2, <2>3 DEF Recv!Write
<1>7. rd_ptr' = IF Buffer!Reads(rx_dreq) THEN Buffer!Inc(rd_ptr) ELSE rd_ptr
      BY <1>2 DEF Buffer!Clock, Buffer!Counters
<1>8. \/ /\ Buffer!Reads(rx_dreq) /\ Buffer!Fifo!Deliver
         /\ Tail(Buffer!Readable) = Buffer!Slots(mem, Buffer!Inc(rd_ptr), boundary)
      \/ ~Buffer!Reads(rx_dreq) /\ Buffer!Fifo!NoDelivery
  <2>1. Buffer!MemRead(rx_dreq)
        BY <1>2 DEF Buffer!Clock
  <2>. QED BY <1>1, <2>1, Assumed, Buffer!ReadSide
<1>9. CASE Buffer!Reads(rx_dreq)
  <2>1. left = Tail(Buf!Readable)
        BY <1>7, <1>8, <1>9, OneBuffer DEF Buffer!Left
  <2>2. Recv!Fifo!Deliver
        BY <1>8, <1>9, OneBuffer DEF Buffer!Fifo!Deliver, Recv!Fifo!Deliver
  <2>. QED BY <1>3, <1>4, <1>5, <1>6, <2>1, <2>2
<1>10. CASE ~Buffer!Reads(rx_dreq)
  <2>1. left = Buf!Readable
        BY <1>7, <1>10, OneBuffer DEF Buffer!Left, Buffer!Readable
  <2>2. Recv!Fifo!NoDelivery
        BY <1>8, <1>10 DEF Buffer!Fifo!NoDelivery, Recv!Fifo!NoDelivery
  <2>. QED BY <1>3, <1>4, <1>5, <1>6, <2>1, <2>2
<1>. QED BY <1>9, <1>10

(* A reset empties both. *)
LEMMA BufferReset ==
  ASSUME Receiver!AsDeployed, Inv, NEW rx_dreq \in BOOLEAN,
         Buf!Reset(rx_dreq, fifo_dvalid, fifo_din)
  PROVE  /\ Buffer!TypeOK' /\ Buffer!RingOrder'
         /\ Recv!Fifo!Clear
         /\ \/ Buf!Reads(rx_dreq) /\ Recv!Fifo!Deliver
            \/ ~Buf!Reads(rx_dreq) /\ Recv!Fifo!NoDelivery
<1>1. /\ Buffer!TypeOK /\ Buffer!RingOrder
      /\ fifo_dvalid \in BOOLEAN /\ fifo_din \in FifoWord
      BY SignalsTyped DEF Inv
<1>2. Buffer!Reset(rx_dreq, fifo_dvalid, fifo_din)
      BY OneBuffer
<1>3. Buffer!TypeOK' /\ Buffer!RingOrder'
      BY <1>1, <1>2, Assumed, Buffer!ResetKeepsTypes, Buffer!ResetKeepsRingOrder
<1>4. Recv!Fifo!Clear
  <2>1. mem' \in [Buffer!Index -> FifoWord] /\ 0 \in Buffer!Index
        BY <1>3, RxAssumption DEF Buffer!TypeOK, Buffer!Index
  <2>2. Buffer!Readable' = <<>> /\ Buffer!Unaccepted' = <<>>
        BY <1>2, <2>1, Assumed, Buffer!SlotsOfEmpty
           DEF Buffer!Reset, Buffer!Readable, Buffer!Unaccepted
  <2>. QED BY <2>2, OneBuffer DEF Recv!Fifo!Clear
<1>5. \/ Buffer!Reads(rx_dreq) /\ Buffer!Fifo!Deliver
      \/ ~Buffer!Reads(rx_dreq) /\ Buffer!Fifo!NoDelivery
  <2>1. Buffer!MemRead(rx_dreq)
        BY <1>2 DEF Buffer!Reset
  <2>. QED BY <1>1, <2>1, Assumed, Buffer!ReadSide
<1>6. \/ Buf!Reads(rx_dreq) /\ Recv!Fifo!Deliver
      \/ ~Buf!Reads(rx_dreq) /\ Recv!Fifo!NoDelivery
      BY <1>5, OneBuffer DEF Buffer!Fifo!Deliver, Recv!Fifo!Deliver,
                             Buffer!Fifo!NoDelivery, Recv!Fifo!NoDelivery
<1>. QED BY <1>3, <1>4, <1>6

-----------------------------------------------------------------------------
(* Everything but the buffer is the same in the receiver over the ring, in *)
(* the one it implements, and in the one the theorems are about.           *)
LEMMA SameFsm ==
  ASSUME Fsm, DelayAccept
  PROVE  /\ Receiver!Fsm /\ Receiver!DelayAccept
         /\ Recv!Fsm /\ Recv!DelayAccept
BY DEF DestRejected, Receiver!DestRejected, Recv!DestRejected, HeaderRejected,
       Receiver!HeaderRejected, Recv!HeaderRejected, CheckSeq,
       Receiver!CheckSeq, Recv!CheckSeq, Idle, Receiver!Idle, Recv!Idle,
       Header, Receiver!Header, Recv!Header, SubframeHeader,
       Receiver!SubframeHeader, Recv!SubframeHeader, PayloadEof,
       Receiver!PayloadEof, Recv!PayloadEof, PayloadEscape,
       Receiver!PayloadEscape, Recv!PayloadEscape, PayloadWord,
       Receiver!PayloadWord, Recv!PayloadWord, PayloadGap,
       Receiver!PayloadGap, Recv!PayloadGap, Payload, Receiver!Payload,
       Recv!Payload, Eof, Receiver!Eof, Recv!Eof, Fsm, Receiver!Fsm, Recv!Fsm,
       DelayAccept, Receiver!DelayAccept, Recv!DelayAccept, fsmVars,
       Receiver!fsmVars, Recv!fsmVars, packVars, Receiver!packVars,
       Recv!packVars, Pack, Receiver!Pack, Recv!Pack, Subword,
       Receiver!Subword, Recv!Subword, Spoilt, Receiver!Spoilt, Recv!Spoilt,
       DataWord, Receiver!DataWord, Recv!DataWord, PadWord, Receiver!PadWord,
       Recv!PadWord

LEMMA SameNetwork ==
  ASSUME NEW dreq \in BOOLEAN, NEW shown \in BOOLEAN, Network(dreq, shown)
  PROVE  Receiver!Network(dreq, shown) /\ Recv!Network(dreq, shown)
BY DEF NoWord, Receiver!NoWord, Recv!NoWord, Plain, Receiver!Plain,
       Recv!Plain, Control, Receiver!Control, Recv!Control, NoSender,
       Receiver!NoSender, Recv!NoSender, Own, Receiver!Own, Recv!Own, Good,
       Receiver!Good, Recv!Good, Owed, Receiver!Owed, Recv!Owed, Left,
       Receiver!Left, Recv!Left, Silence, Receiver!Silence, Recv!Silence,
       SendSof, Receiver!SendSof, Recv!SendSof, HeaderKind,
       Receiver!HeaderKind, Recv!HeaderKind, SendHeader, Receiver!SendHeader,
       Recv!SendHeader, JustStarted, Receiver!JustStarted, Recv!JustStarted,
       SendCode, Receiver!SendCode, Recv!SendCode, SendSubframe,
       Receiver!SendSubframe, Recv!SendSubframe, SendData, Receiver!SendData,
       Recv!SendData, SendCrc, Receiver!SendCrc, Recv!SendCrc, SendPadding,
       Receiver!SendPadding, Recv!SendPadding, SendBadControl,
       Receiver!SendBadControl, Recv!SendBadControl, SendEof,
       Receiver!SendEof, Recv!SendEof, SendInside, Receiver!SendInside,
       Recv!SendInside, SendClose, Receiver!SendClose, Recv!SendClose,
       Network, Receiver!Network, Recv!Network, Marked, Receiver!Marked,
       Recv!Marked, Subword, Receiver!Subword, Recv!Subword, Junk,
       Receiver!Junk, Recv!Junk, Zero, Receiver!Zero, Recv!Zero, SeqWord,
       Receiver!SeqWord, Recv!SeqWord, CrcWord, Receiver!CrcWord,
       Recv!CrcWord, DataWord, Receiver!DataWord, Recv!DataWord, PadWord,
       Receiver!PadWord, Recv!PadWord, netVars, Receiver!netVars, Recv!netVars

LEMMA SameReset ==
  ASSUME Reset
  PROVE  /\ Receiver!Reset /\ Recv!Reset
         /\ \A shown : /\ Receiver!FirstDue(shown) = FirstDue(shown)
                       /\ Recv!FirstDue(shown) = FirstDue(shown)
BY DEF Reset, Receiver!Reset, Recv!Reset, FirstDue, Receiver!FirstDue,
       Recv!FirstDue, Left, Receiver!Left, Recv!Left, DelayAccept,
       Receiver!DelayAccept, Recv!DelayAccept, packVars, Receiver!packVars,
       Recv!packVars, NoWord, Receiver!NoWord, Recv!NoWord, Zero,
       Receiver!Zero, Recv!Zero

LEMMA SameInit == RxInit => Receiver!RxInit /\ Recv!RxInit
BY DEF RxInit, Receiver!RxInit, Recv!RxInit, NoWord, Receiver!NoWord,
       Recv!NoWord, Zero, Receiver!Zero, Recv!Zero, NoSender,
       Receiver!NoSender, Recv!NoSender, Spoilt, Receiver!Spoilt, Recv!Spoilt,
       NoData, Receiver!NoData, Recv!NoData, Marked, Receiver!Marked,
       Recv!Marked

LEMMA SameBuffer ==
  /\ Recv!full <=> Receiver!full
  /\ Recv!Fifo!Deliver <=> Receiver!Fifo!Deliver
  /\ Recv!Fifo!NoDelivery <=> Receiver!Fifo!NoDelivery
  /\ Recv!Fifo!Clear <=> Receiver!Fifo!Clear
  /\ \A left : Recv!Write(left) <=> Receiver!Write(left)
BY DEF Receiver!full, Recv!full, Receiver!Fifo!Deliver, Recv!Fifo!Deliver,
       Receiver!Fifo!NoDelivery, Recv!Fifo!NoDelivery, Receiver!Fifo!Clear,
       Recv!Fifo!Clear, Receiver!Fifo!Keep, Recv!Fifo!Keep,
       Receiver!Fifo!Accept, Recv!Fifo!Accept, Receiver!Fifo!Drop,
       Recv!Fifo!Drop, Receiver!Write, Recv!Write, Receiver!fifo_din,
       Recv!fifo_din, Receiver!Marked, Recv!Marked

(* A step of the receiver over the ring is one of the receiver. *)
LEMMA TickIsStep ==
  ASSUME Receiver!AsDeployed, Inv, NEW rx_dreq \in BOOLEAN, Tick(rx_dreq)
  PROVE  /\ Recv!Next /\ Receiver!Next
         /\ Buffer!TypeOK' /\ Buffer!RingOrder'
<1>1. /\ Buffer!TypeOK' /\ Buffer!RingOrder'
      /\ Buf!d_req_o = ~Recv!full
      /\ \/ Recv!Fifo!Deliver /\ Recv!Write(Tail(Buf!Readable))
         \/ Recv!Fifo!NoDelivery /\ Recv!Write(Buf!Readable)
      BY BufferStep DEF Tick
<1>2. Fsm /\ DelayAccept /\ Network(~Recv!full, d_valid_o)
      BY <1>1 DEF Tick, Clock
<1>3. d_valid_o \in BOOLEAN /\ (~Recv!full) \in BOOLEAN
      BY SignalsTyped DEF Inv
<1>4. Recv!Clock(~Recv!full, d_valid_o) /\ Receiver!Clock(~Recv!full, d_valid_o)
      BY <1>2, <1>3, SameFsm, SameNetwork DEF Recv!Clock, Receiver!Clock
<1>5. Receiver!Clock(~Receiver!full, d_valid_o)
  <2>1. (~Recv!full) = (~Receiver!full)
        BY SameBuffer
  <2>. QED BY <1>4, <2>1
<1>6. Recv!Reading \/ Recv!Waiting
      BY <1>1, <1>4 DEF Recv!Reading, Recv!Waiting
<1>7. Receiver!Reading \/ Receiver!Waiting
      BY <1>1, <1>5, SameBuffer DEF Receiver!Reading, Receiver!Waiting
<1>. QED BY <1>1, <1>6, <1>7 DEF Recv!Next, Receiver!Next

LEMMA ResetIsStep ==
  ASSUME Receiver!AsDeployed, Inv, NEW rx_dreq \in BOOLEAN, ResetEdge(rx_dreq)
  PROVE  /\ Recv!Next /\ Receiver!Next
         /\ Buffer!TypeOK' /\ Buffer!RingOrder'
<1>1. /\ Buffer!TypeOK' /\ Buffer!RingOrder' /\ Recv!Fifo!Clear
      /\ \/ Buf!Reads(rx_dreq) /\ Recv!Fifo!Deliver
         \/ ~Buf!Reads(rx_dreq) /\ Recv!Fifo!NoDelivery
      BY BufferReset DEF ResetEdge
<1>2. Recv!Reset /\ Receiver!Reset
      BY SameReset DEF ResetEdge
<1>3. \/ Recv!Fifo!Deliver /\ expected' = Recv!FirstDue(d_valid_o)
      \/ Recv!Fifo!NoDelivery /\ expected' = <<>>
      BY <1>1, SameReset DEF ResetEdge
<1>4. \/ Receiver!Fifo!Deliver /\ expected' = Receiver!FirstDue(d_valid_o)
      \/ Receiver!Fifo!NoDelivery /\ expected' = <<>>
      BY <1>1, SameReset, SameBuffer DEF ResetEdge
<1>5. Recv!ResetEdge /\ Receiver!ResetEdge
      BY <1>1, <1>2, <1>3, <1>4, SameBuffer DEF Recv!ResetEdge, Receiver!ResetEdge
<1>. QED BY <1>1, <1>5 DEF Recv!Next, Receiver!Next

LEMMA InitIsInit ==
  ASSUME Receiver!AsDeployed, Init
  PROVE  /\ Recv!Init /\ Receiver!Init
         /\ Buffer!TypeOK /\ Buffer!RingOrder
<1>1. RxInit /\ wr_ptr = 0 /\ rd_ptr = 0 /\ boundary = 0 /\ empty_reg = FALSE
      /\ mem = [i \in Buf!Index |-> NoData] /\ d_o = NoData /\ d_valid_o = FALSE
      BY DEF Init
<1>2. 0 \in Buffer!Index /\ Buffer!Index = Buf!Index /\ NoData \in FifoWord
      BY RxAssumption DEF Buffer!Index, Buf!Index, NoData, FifoWord, Marked, Packed
<1>3. mem \in [Buffer!Index -> FifoWord]
      BY <1>1, <1>2
<1>4. Buffer!TypeOK
      BY <1>1, <1>2, <1>3 DEF Buffer!TypeOK
<1>5. Buffer!RingOrder
      BY <1>1 DEF Buffer!RingOrder, Buffer!InOrder, Buffer!Dist
<1>6. Buffer!Readable = <<>> /\ Buffer!Unaccepted = <<>>
      BY <1>1, <1>2, <1>3, Assumed, Buffer!SlotsOfEmpty
         DEF Buffer!Readable, Buffer!Unaccepted
<1>7. Recv!Init
      BY <1>1, <1>6, OneBuffer, SameInit
         DEF Recv!Init, NoData, Marked, Recv!NoData, Recv!Marked, Spoilt, Recv!Spoilt
<1>8. Receiver!Init
      BY <1>1, <1>6, OneBuffer, SameInit
         DEF Receiver!Init, NoData, Marked, Receiver!NoData, Receiver!Marked,
             Spoilt, Receiver!Spoilt
<1>. QED BY <1>4, <1>5, <1>7, <1>8

(* The invariant of the receiver, read through the ring, and those of the  *)
(* ring hold together.                                                     *)
LEMMA InvInit == ASSUME Receiver!AsDeployed, Init PROVE Inv
BY InitIsInit, Assumed, Receiver!InvInit DEF Inv

LEMMA InvStep ==
  ASSUME Receiver!AsDeployed, Inv, [Next]_vars
  PROVE  Inv' /\ [Recv!Next]_(Recv!vars)
<1>1. CASE Next
  <2>1. /\ Recv!Next /\ Receiver!Next
        /\ Buffer!TypeOK' /\ Buffer!RingOrder'
        BY <1>1, TickIsStep, ResetIsStep DEF Next
  <2>2. Receiver!Inv'
        BY <2>1, Assumed, Receiver!InvStep DEF Inv
  <2>. QED BY <2>1, <2>2 DEF Inv
<1>2. CASE UNCHANGED vars
  <2>1. UNCHANGED <<rxVars, bufVars>>
        BY <1>2 DEF vars
  <2>2. UNCHANGED Receiver!vars /\ UNCHANGED Recv!vars
    <3>1. UNCHANGED <<Buf!Readable, Buf!Unaccepted>>
          BY <2>1 DEF bufVars, Buf!Readable, Buf!Unaccepted
    <3>2. UNCHANGED <<fsmVars, packVars, fifo_accept_d0, netVars, d_o, d_valid_o>>
          BY <2>1 DEF rxVars, bufVars
    <3>3. UNCHANGED <<Receiver!rxVars, Receiver!bufVars>>
          BY <3>1, <3>2 DEF fsmVars, packVars, netVars, Receiver!rxVars,
             Receiver!fsmVars, Receiver!packVars, Receiver!netVars, Receiver!bufVars
    <3>4. UNCHANGED <<Recv!rxVars, Recv!bufVars>>
          BY <3>1, <3>2 DEF fsmVars, packVars, netVars, Recv!rxVars,
             Recv!fsmVars, Recv!packVars, Recv!netVars, Recv!bufVars
    <3>. QED BY <3>3, <3>4 DEF Receiver!vars, Recv!vars
  <2>3. Buffer!TypeOK' /\ Buffer!RingOrder'
        BY <2>1 DEF bufVars, Inv, Buffer!TypeOK, Buffer!RingOrder
  <2>4. Receiver!Inv'
        BY <2>2, Assumed, Receiver!InvStep DEF Inv
  <2>. QED BY <2>2, <2>3, <2>4 DEF Inv
<1>. QED BY <1>1, <1>2

LEMMA InvHolds == ASSUME Receiver!AsDeployed PROVE Spec => []Inv
<1>1. Init => Inv
      BY InvInit
<1>2. Inv /\ [Next]_vars => Inv'
      BY InvStep
<1>. QED BY <1>1, <1>2, PTL DEF Spec

(* xrx_streamer.vhd with dropping_buffer.vhd inside: for every size, while *)
(* no frame breaks right after a subframe header and no reset comes in     *)
(* PAYLOAD (AsDeployed), it does what the receiver over the buffer's       *)
(* specification does, so that what is proved of that one (the user gets   *)
(* the words of good subframes, in order, each once) is true of the one    *)
(* that is built.                                                          *)
THEOREM RingImplementsReceiver ==
  ASSUME Receiver!AsDeployed PROVE Spec => ImplementsReceiver
<1>1. Init => Recv!Init
      BY InitIsInit
<1>2. Inv /\ [Next]_vars => [Recv!Next]_(Recv!vars)
      BY InvStep
<1>. QED BY <1>1, <1>2, InvHolds, PTL DEF Spec, ImplementsReceiver, Recv!Spec

(* Whatever the ring puts out as valid is the next word of an undamaged    *)
(* subframe of a frame that the header filter takes                        *)
(* (xrx_streamer.vhd:73-78), where no frame breaks right after a subframe  *)
(* header and no reset comes in PAYLOAD (AsDeployed).                      *)
THEOREM RingDelivers ==
  ASSUME Receiver!AsDeployed PROVE Spec => []RingDeliversWholeBlocks
<1>1. Inv => RingDeliversWholeBlocks
      BY DEF Inv, Receiver!Inv, Receiver!BookInv, Receiver!DeliversWholeBlocks,
             RingDeliversWholeBlocks
<1>. QED BY <1>1, InvHolds, PTL
=============================================================================
