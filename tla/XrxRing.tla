------------------------------ MODULE XrxRing ------------------------------
(***************************************************************************)
(* The receive streamer with its buffer as it is built: XrxStreamer over   *)
(* DroppingBuffer (U_Output_FIFO of xrx_streamer.vhd).  Unlike XrxReceiver *)
(* it shows what becomes of the words when an accept meets a drop.         *)
(***************************************************************************)
EXTENDS XrxStreamer

VARIABLES wr_ptr, rd_ptr, boundary, empty_reg, mem, d_o, d_valid_o

bufVars == <<wr_ptr, rd_ptr, boundary, empty_reg, mem, d_o, d_valid_o>>
vars    == <<rxVars, bufVars>>

Buf == INSTANCE DroppingBuffer WITH Size <- BufferSize, Data <- FifoWord

(* Faulty, to see that a property notices: the accept is not delayed. *)
TickUndelayed(rx_dreq) ==
  /\ Clock(Buf!d_req_o, d_valid_o)
  /\ Buf!Clock(rx_dreq, fifo_dvalid, fifo_din, fifo_accept, fifo_drop)

Tick(rx_dreq) ==
  /\ Clock(Buf!d_req_o, d_valid_o)
  /\ Buf!Clock(rx_dreq, fifo_dvalid, fifo_din, fifo_accept_d0, fifo_drop)

ResetEdge(rx_dreq) ==
  /\ Reset
  /\ Buf!Reset(rx_dreq, fifo_dvalid, fifo_din)
  /\ expected' = IF Buf!Reads(rx_dreq) THEN FirstDue(d_valid_o) ELSE <<>>

Init == /\ RxInit
        /\ wr_ptr = 0 /\ rd_ptr = 0 /\ boundary = 0 /\ empty_reg = FALSE
        /\ mem = [i \in Buf!Index |-> NoData]
        /\ d_o = NoData /\ d_valid_o = FALSE

Next == \E rx_dreq \in BOOLEAN : Tick(rx_dreq) \/ ResetEdge(rx_dreq)

Spec == Init /\ [][Next]_vars

-----------------------------------------------------------------------------
Recv == INSTANCE XrxReceiver
          WITH committed <- Buf!Readable, pending <- Buf!Unaccepted,
               out <- d_o, valid <- d_valid_o

(* The receiver over the ring buffer implements the receiver over the      *)
(* buffer's specification: its full, its drops and accepts and its reads   *)
(* fall in the same cycles.                                                *)
ImplementsReceiver == Recv!Spec

(* What the user gets is the words of the undamaged subframes of frames    *)
(* that the header filter takes, in order, each once, with the right       *)
(* marks: whatever rx_valid_o marks as valid is a received word            *)
(* (xrx_streamer.vhd:73-78).  It holds while no frame breaks right after a *)
(* subframe header: if one does (BreaksAtHeader), the late accept meets    *)
(* the drop and the buffer's pointers cross.                               *)
RingDeliversWholeBlocks ==
  d_valid_o => expected # <<>> /\ d_o = Head(expected)
=============================================================================
