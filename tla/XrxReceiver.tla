---------------------------- MODULE XrxReceiver ----------------------------
(***************************************************************************)
(* The receive streamer with what its buffer promises: XrxStreamer over    *)
(* BlockFifo, which dropping_buffer.vhd implements for a writer that never *)
(* accepts and drops in the same cycle (AcceptNeverMeetsDrop here, the     *)
(* theorem BufferImplementsBlockFifo of DroppingBufferProofs).             *)
(***************************************************************************)
EXTENDS XrxStreamer

VARIABLES committed, pending, out, valid   \* U_Output_FIFO

bufVars == <<committed, pending, out, valid>>
vars    == <<rxVars, bufVars>>

Fifo == INSTANCE BlockFifo WITH Data <- FifoWord, Capacity <- BufferSize - 1

full == Len(committed) + Len(pending) = BufferSize - 1

(* Faulty, to see that a property notices: nothing is ever dropped. *)
WriteNoDrop(left) ==
  LET new == IF fifo_dvalid /\ ~full THEN <<fifo_din>> ELSE <<>>
  IN  IF fifo_accept_d0 THEN Fifo!Accept(left, new) ELSE Fifo!Keep(left, new)

(* The step of the buffer that this cycle's controls select: a drop goes   *)
(* before everything, an accept leaves the word of this cycle pending.     *)
Write(left) ==
  LET new == IF fifo_dvalid /\ ~full THEN <<fifo_din>> ELSE <<>>
  IN  CASE fifo_drop                     -> Fifo!Drop(left)
        [] ~fifo_drop /\ fifo_accept_d0  -> Fifo!Accept(left, new)
        [] OTHER                         -> Fifo!Keep(left, new)

(* Faulty: the request of the buffer goes nowhere. *)
WaitingDeaf == Clock(TRUE, valid) /\ Fifo!NoDelivery /\ Write(committed)

(* A word leaves, because the user asked for one and the read side is not  *)
(* still waking up, or none does.                                          *)
Reading == Clock(~full, valid) /\ Fifo!Deliver /\ Write(Tail(committed))
Waiting == Clock(~full, valid) /\ Fifo!NoDelivery /\ Write(committed)

ResetEdge ==
  /\ Reset /\ Fifo!Clear
  /\ \/ Fifo!Deliver /\ expected' = FirstDue(valid)
     \/ Fifo!NoDelivery /\ expected' = <<>>

Init == /\ RxInit
        /\ committed = <<>> /\ pending = <<>> /\ out = NoData /\ valid = FALSE

Next == Reading \/ Waiting \/ ResetEdge

Spec == Init /\ [][Next]_vars

(* The clock runs, and the user takes words again and again: it asks again *)
(* and again, and the buffer then answers (AcceptedWordsComeOut of         *)
(* DroppingBuffer).                                                        *)
FairSpec == Spec /\ WF_vars(Reading \/ Waiting) /\ SF_vars(Reading)

-----------------------------------------------------------------------------
TypeOK == /\ RxTypeOK
          /\ {committed, pending} \subseteq Seq(FifoWord)
          /\ Len(committed) + Len(pending) < BufferSize
          /\ out \in FifoWord /\ valid \in BOOLEAN

(* What the user gets is the words of the undamaged subframes of frames    *)
(* that the header filter takes (Own: with broadcasts accepted, whatever   *)
(* their destination), in order, each once, the first and the last of each *)
(* block marked: damaged and cut subframes, and frames of another source   *)
(* or ethertype, leave no trace, wherever the words, the CRC result, the   *)
(* accept and the buffer's request fall.  It needs what the constants say: *)
(* no reset in PAYLOAD (ResetStates), data words of three fabric words or  *)
(* more, no frame broken right after a subframe header (BreaksAtHeader).   *)
DeliversWholeBlocks == valid => expected # <<>> /\ out = Head(expected)

(* No word is written to a full buffer, although words asked for before it *)
(* filled up are still to be packed.                                       *)
NoOverrun == fifo_dvalid /\ full => fifo_drop

(* The words of a good subframe reach the user (or a reset takes them).    *)
GoodBlocksArrive == expected # <<>> ~> (valid \/ expected = <<>>)

(* The receiver asks for words again and again: unaccepted words never     *)
(* fill the buffer for good.                                               *)
NeverWedged == []<>~full
=============================================================================
