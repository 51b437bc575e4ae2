---------------------------- MODULE XrxStreamer ----------------------------
(***************************************************************************)
(* rtl/streamers/xrx_streamer.vhd: frames come in from the fabric, their   *)
(* subframes are packed into data words, and the words of the subframes    *)
(* whose CRC matches are accepted by the dropping buffer, the others       *)
(* dropped.  Here is everything but the buffer; XrxReceiver puts its       *)
(* specification there and XrxRing the buffer itself.  A step is one       *)
(* rising edge of clk_sys_i.                                               *)
(*                                                                         *)
(* Outside src/ and modelled from its use: the fabric sink (a word only in *)
(* the cycle after a request) and the CRC checker (it matches after an     *)
(* undamaged CRC word).  fsm_in is the output of the escape detector: an   *)
(* escaped word follows a cycle without a word, that of its escape code.   *)
(* The latency outputs are left out.                                       *)
(***************************************************************************)
EXTENDS Naturals, Sequences, StreamerFrame

CONSTANTS BufferSize,        \* g_buffer_size
          SeqSize,           \* 2^15, where seq_no wraps
          FilterRemote,      \* g_filter_remote_mac
          AcceptBroadcasts,  \* cfg_accept_broadcasts_i
          (* What the network does. *)
          Addresses,         \* headers it sends, each of three kinds of word:
                             \* destination, source and ethertype
          Values,            \* values of data words
          MaxBlock,          \* data words in a block
          Damages,           \* damaged words: "data", "control"
          CutPhases,         \* where in a frame it may be cut short ...
          BreaksAtHeader,    \* ... and whether a frame may break right
                             \* after a subframe header, where it is cut or
                             \* a control word follows at once
          ResetStates        \* states of p_fsm in which a reset may come

States == {"IDLE", "HEADER", "SUBFRAME_HEADER", "PAYLOAD", "EOF"}

ASSUME RxAssumption ==
  /\ {BufferSize, SeqSize, MaxBlock} \subseteq Nat \ {0}
  /\ {FilterRemote, AcceptBroadcasts, BreaksAtHeader} \subseteq BOOLEAN
  /\ Addresses \subseteq [dest : {"local", "ffff", "other"},
                          src : {"remote", "other"},
                          type : {"ethertype", "other"}]
  /\ Values \subseteq Nat \ {0}
  /\ Damages \subseteq {"data", "control"}
  /\ ResetStates \subseteq States

VARIABLES
  fsm_in,                                   \* the word of this cycle
  state, count, ser_count, seq_no,
  crc_match,                                \* registered, of the last word
  pack_data, fifo_data, fifo_sync, fifo_last, fifo_lost,
  fifo_dvalid, fifo_accept, fifo_accept_d0, fifo_drop,
  pending_write, got_next_subframe,
  (* The network, and what it is owed. *)
  net,           \* where the sender is in a frame
  block,         \* the data words of the current subframe
  expected       \* words of good subframes the user has not got

fsmVars  == <<state, count, ser_count, seq_no>>
packVars == <<pack_data, fifo_data, fifo_sync, fifo_last, fifo_lost,
              fifo_dvalid, fifo_accept, fifo_drop, pending_write,
              got_next_subframe>>
netVars  == <<fsm_in, crc_match, net, block, expected>>
rxVars   == <<fsmVars, packVars, fifo_accept_d0, netVars>>

-----------------------------------------------------------------------------
(* The subwords of a data word of value c.  A word that has been packed is *)
(* its value, or Spoilt if its subwords are not those of one data word, in *)
(* order; the buffer holds it with the marks of rx_first_o and rx_last_o.  *)
SubIndex      == 0 .. Subwords - 1
Subword(c, i) == DataWord(c * Subwords + i)
Junk          == [kind |-> "junk", v |-> 0]
Spoilt        == 0
Packed        == Values \cup {Spoilt}
Marked(f, l, d) == [first |-> f, last |-> l, data |-> d]
FifoWord      == [first : BOOLEAN, last : BOOLEAN, data : Packed]
NoData        == Marked(FALSE, FALSE, Spoilt)

(* pack_data once w is put at place i behind the subwords in `packed`. *)
Pack(packed, w, i) ==
  IF \E c \in Values : w = Subword(c, i) /\ (i = 0 \/ packed = c)
  THEN w.v \div Subwords ELSE Spoilt

fifo_din == Marked(fifo_sync, fifo_last, fifo_data)

-----------------------------------------------------------------------------
(* The header filter.  Words 0 to 2 are the destination, compared by       *)
(*   data /= local nor (accept_broadcasts and data /= x"ffff")             *)
(* 3 to 5 the source and 6 the ethertype; `local` is not x"ffff".          *)
DestRejected(w) == ~( \/ w.kind # "local"
                      \/ AcceptBroadcasts /\ w.kind # "ffff" )

HeaderRejected(n, w) ==
  \/ n \in 0 .. 2 /\ DestRejected(w)
  \/ n \in 3 .. 5 /\ FilterRemote /\ w.kind # "remote"
  \/ n = 6        /\ w.kind # "ethertype"

(* Variants marked "Faulty" are wrong on purpose: they take the place of   *)
(* the definition below them to see that a property notices.               *)

(* Faulty: a counter wider than its type. *)
CheckSeqUnwrapped(n) ==
  /\ fifo_lost' = (n # seq_no)
  /\ seq_no' = IF n # seq_no THEN n ELSE seq_no + 1

(* The sequence check at a subframe header. *)
CheckSeq(n) ==
  /\ fifo_lost' = (n # seq_no)
  /\ seq_no' = IF n # seq_no THEN n ELSE (seq_no + 1) % SeqSize

-----------------------------------------------------------------------------
(* p_fsm, one action per state; several assignments hold their value when  *)
(* no word comes, fifo_accept and fifo_drop among them.                    *)
Idle ==
  /\ state = "IDLE"
  /\ state' = IF fsm_in.sof THEN "HEADER" ELSE state
  /\ count' = 0
  /\ fifo_accept' = FALSE /\ fifo_drop' = FALSE /\ fifo_dvalid' = FALSE
  /\ pending_write' = FALSE
  /\ UNCHANGED <<ser_count, seq_no, pack_data, fifo_data, fifo_sync,
                 fifo_last, fifo_lost, got_next_subframe>>

Header ==
  /\ state = "HEADER"
  /\ state' = CASE fsm_in.eof -> "IDLE"
                [] ~fsm_in.eof /\ fsm_in.dvalid
                     /\ HeaderRejected(count, fsm_in.data) -> "IDLE"
                [] ~fsm_in.eof /\ fsm_in.dvalid /\ count = HeaderWords - 1
                     -> "SUBFRAME_HEADER"
                [] OTHER -> state
  /\ count' = IF ~fsm_in.eof /\ fsm_in.dvalid THEN count + 1 ELSE count
  /\ UNCHANGED <<ser_count, seq_no, packVars>>

SubframeHeader ==
  /\ state = "SUBFRAME_HEADER"
  /\ fifo_drop' = FALSE /\ fifo_accept' = FALSE
  /\ ser_count' = 0
  /\ \/ /\ fsm_in.eof
        /\ state' = "IDLE"
        /\ UNCHANGED <<got_next_subframe, seq_no, fifo_lost>>
     \/ /\ ~fsm_in.eof /\ fsm_in.dvalid /\ fsm_in.escape
        /\ state' = "PAYLOAD"
        /\ got_next_subframe' = TRUE
        /\ CheckSeq(fsm_in.data.v)
     \/ /\ ~fsm_in.eof /\ ~(fsm_in.dvalid /\ fsm_in.escape)
        /\ UNCHANGED <<state, got_next_subframe, seq_no, fifo_lost>>
  /\ UNCHANGED <<count, pack_data, fifo_data, fifo_sync, fifo_last,
                 fifo_dvalid, pending_write>>

(* PAYLOAD: the frame ends too early: the words of the subframe go.        *)
PayloadEof ==
  /\ fsm_in.eof
  /\ state' = "IDLE"
  /\ fifo_drop' = TRUE /\ fifo_accept' = FALSE
  /\ got_next_subframe' = FALSE
  /\ UNCHANGED <<ser_count, seq_no, pack_data, fifo_data, fifo_last, fifo_lost,
                 fifo_dvalid, pending_write>>

(* PAYLOAD: a control word closes the subframe.  The last data word, still *)
(* held back, is written with the last mark; the accept or drop follows.   *)
PayloadEscape ==
  /\ ~fsm_in.eof /\ fsm_in.dvalid /\ fsm_in.escape
  /\ ser_count' = 0
  /\ fifo_last' = TRUE
  /\ got_next_subframe' = TRUE
  /\ \/ /\ fsm_in.data.kind = "seq"
        /\ CheckSeq(fsm_in.data.v)
        /\ fifo_accept' = crc_match /\ fifo_drop' = ~crc_match
        /\ fifo_dvalid' = (pending_write /\ ~fifo_dvalid)
        /\ pending_write' = FALSE
        /\ UNCHANGED state
     \/ /\ fsm_in.data = PadWord
        /\ state' = "EOF"
        /\ fifo_accept' = crc_match /\ fifo_drop' = ~crc_match
        /\ fifo_dvalid' = (pending_write /\ ~fifo_dvalid)
        /\ UNCHANGED <<seq_no, fifo_lost, pending_write>>
     \/ /\ fsm_in.data.kind # "seq" /\ fsm_in.data # PadWord
        /\ state' = "EOF"
        /\ fifo_accept' = FALSE /\ fifo_drop' = TRUE
        /\ UNCHANGED <<seq_no, fifo_lost, fifo_dvalid, pending_write>>
  /\ UNCHANGED <<pack_data, fifo_data>>

(* PAYLOAD: a subword.  A complete data word is held back until the next   *)
(* one is nearly complete, so that the last one of a block can be marked.  *)
PayloadWord ==
  LET complete == ser_count = Subwords - 1
      flush == ~complete /\ ser_count + 2 = Subwords /\ pending_write
  IN
  /\ ~fsm_in.eof /\ fsm_in.dvalid /\ ~fsm_in.escape
  /\ fifo_last' = FALSE /\ fifo_accept' = FALSE /\ fifo_drop' = FALSE
  /\ pack_data' = Pack(pack_data, fsm_in.data, ser_count)
  /\ ser_count' = IF complete THEN 0 ELSE ser_count + 1
  /\ fifo_data' = IF complete THEN pack_data' ELSE fifo_data
  /\ fifo_dvalid' = flush
  /\ pending_write' = (complete \/ (pending_write /\ ~flush))
  /\ got_next_subframe' = (got_next_subframe /\ ~flush)
  /\ UNCHANGED <<state, seq_no, fifo_lost>>

PayloadGap ==
  /\ ~fsm_in.eof /\ ~fsm_in.dvalid
  /\ fifo_dvalid' = FALSE
  /\ UNCHANGED <<state, ser_count, seq_no, pack_data, fifo_data, fifo_last,
                 fifo_lost, fifo_accept, fifo_drop, pending_write,
                 got_next_subframe>>

Payload ==
  /\ state = "PAYLOAD"
  /\ fifo_sync' = (got_next_subframe /\ ~fifo_dvalid)
  /\ PayloadEof \/ PayloadEscape \/ PayloadWord \/ PayloadGap
  /\ UNCHANGED count

Eof ==
  /\ state = "EOF"
  /\ state' = "IDLE"
  /\ fifo_dvalid' = FALSE /\ fifo_drop' = FALSE /\ fifo_accept' = FALSE
  /\ UNCHANGED <<count, ser_count, seq_no, pack_data, fifo_data, fifo_sync,
                 fifo_last, fifo_lost, pending_write, got_next_subframe>>

Fsm == Idle \/ Header \/ SubframeHeader \/ Payload \/ Eof

(* Faulty: no delay; held until a word is written; only in PAYLOAD. *)
AcceptAtOnce      == fifo_accept_d0' = fifo_accept'
AcceptHeld        == fifo_accept_d0' = (fifo_accept
                                          \/ (fifo_accept_d0 /\ ~fifo_dvalid))
AcceptWithinFrame == fifo_accept_d0' = (fifo_accept /\ state = "PAYLOAD")

(* p_delay_fifo_accept: the accept comes a cycle after the last write. *)
DelayAccept == fifo_accept_d0' = fifo_accept

-----------------------------------------------------------------------------
(* The network.  A word comes only if the buffer asked for it in the cycle *)
(* before (the fabric sink), and an escaped word after its escape code;    *)
(* there may be a cycle without a word anywhere.  Each step below chooses  *)
(* the word of the next cycle.                                             *)
NoWord == [sof |-> FALSE, eof |-> FALSE, dvalid |-> FALSE, escape |-> FALSE,
           data |-> Zero]
Plain(w)   == [NoWord EXCEPT !.dvalid = TRUE, !.data = w]
Control(w) == [Plain(w) EXCEPT !.escape = TRUE]

NoSender == [phase |-> "none", addr |-> CHOOSE a \in Addresses : TRUE,
             n |-> 0, seq |-> 0, code |-> FALSE, dirty |-> FALSE,
             ignored |-> FALSE]

(* The frames the header filter lets through (xrx_streamer.vhd:331-360,    *)
(* DestRejected): with broadcasts accepted those to any destination,       *)
(* without them those to any but this station, from the right source and   *)
(* of the right ethertype.  The comments of lines 39-41 and 93-98 mean     *)
(* another choice of destinations.                                         *)
Own == /\ AcceptBroadcasts \/ net.addr.dest # "local"
       /\ FilterRemote => net.addr.src = "remote"
       /\ net.addr.type = "ethertype"

(* ... unless the receiver has had to give up on this one. *)
Good == Own /\ ~net.ignored /\ ~net.dirty

Owed == [i \in DOMAIN block |->
           Marked(i = 1, i = Len(block), block[i])]

(* What is still due when `shown` says that the buffer shows a word.       *)
Left(shown) == IF shown /\ expected # <<>> THEN Tail(expected) ELSE expected
FirstDue(shown) == IF Left(shown) = <<>> THEN <<>> ELSE <<Head(Left(shown))>>

Silence == /\ fsm_in' = NoWord
           /\ UNCHANGED <<net, block, crc_match>>

SendSof ==
  /\ net.phase = "none"
  /\ fsm_in' = [NoWord EXCEPT !.sof = TRUE]
  /\ \E a \in Addresses :
        net' = [net EXCEPT !.phase = "header", !.addr = a, !.n = 0,
                           !.ignored = FALSE, !.dirty = FALSE]
  /\ UNCHANGED <<block, crc_match>>

HeaderKind(n) == CASE n \in 0 .. 2 -> net.addr.dest
                   [] n \in 3 .. 5 -> net.addr.src
                   [] n = 6        -> net.addr.type
                   [] OTHER        -> "head"

SendHeader ==
  /\ net.phase = "header"
  /\ fsm_in' = Plain([kind |-> HeaderKind(net.n), v |-> 0])
  /\ net' = IF net.n = HeaderWords - 1
            THEN [net EXCEPT !.phase = "start", !.n = 0]
            ELSE [net EXCEPT !.n = @ + 1]
  /\ UNCHANGED <<block, crc_match>>

JustStarted == net.phase = "payload" /\ net.n = 0 /\ block = <<>>

(* An escape code, which the detector keeps to itself; in the payload only *)
(* when a word has been damaged.                                           *)
SendCode ==
  /\ ~net.code
  /\ \/ net.phase \in {"start", "closing", "padding"}
     \/ /\ net.phase = "payload" /\ "control" \in Damages
        /\ JustStarted => BreaksAtHeader
  /\ fsm_in' = NoWord
  /\ net' = [net EXCEPT !.code = TRUE]
  /\ crc_match' = (crc_match /\ net.phase = "closing")
  /\ UNCHANGED block

(* A subframe header; it closes the subframe before it. *)
SendSubframe ==
  /\ net.phase \in {"start", "closing"} /\ net.code
  /\ fsm_in' = Control(SeqWord(net.seq))
  /\ net' = [net EXCEPT !.phase = "payload", !.n = 0, !.code = FALSE,
                        !.seq = (@ + 1) % SeqSize, !.dirty = FALSE]
  /\ block' = <<>> /\ UNCHANGED crc_match

SendData ==
  /\ net.phase = "payload" /\ ~net.code
  /\ \/ net.n = 0 /\ Len(block) < MaxBlock
          /\ \E c \in Values : block' = Append(block, c)
     \/ net.n # 0 /\ UNCHANGED block
  /\ \E damaged \in {FALSE, "data" \in Damages /\ ~net.dirty} :
        /\ fsm_in' = Plain(IF damaged THEN Junk
                           ELSE Subword(block'[Len(block')], net.n))
        /\ net' = [net EXCEPT !.n = (@ + 1) % Subwords,
                              !.dirty = @ \/ damaged]
  /\ crc_match' = FALSE

SendCrc ==
  /\ net.phase = "payload" /\ ~net.code /\ net.n = 0
  /\ \E damaged \in {FALSE, "data" \in Damages} :
        /\ fsm_in' = Plain(IF damaged THEN Junk ELSE CrcWord(0))
        /\ net' = [net EXCEPT !.phase = "closing", !.dirty = @ \/ damaged]
        /\ crc_match' = (~damaged /\ ~net.dirty)
  /\ UNCHANGED block

SendPadding ==
  /\ net.phase \in {"closing", "padding"} /\ net.code
  /\ fsm_in' = Control(PadWord)
  /\ net' = [net EXCEPT !.phase = "padding", !.code = FALSE]
  /\ block' = <<>> /\ UNCHANGED crc_match

(* A control word that is none of the protocol's, or a subframe header     *)
(* where there should be none.  The receiver gives up on the frame at the  *)
(* first, unless it was waiting for the first subframe.                    *)
SendBadControl ==
  /\ "control" \in Damages /\ net.code
  /\ net.phase \in {"start", "payload", "closing"}
  /\ \E w \in {Junk, SeqWord(0)} :
        /\ w = Junk \/ net.phase = "payload"
        /\ fsm_in' = Control(w)
        /\ net' = [net EXCEPT !.phase = "payload", !.n = 0, !.code = FALSE,
                              !.dirty = TRUE,
                              !.ignored = @ \/ (w = Junk /\ net.phase # "start")]
  /\ block' = <<>> /\ UNCHANGED crc_match

SendEof ==
  /\ \/ net.phase = "padding"
     \/ net.phase \in CutPhases /\ (JustStarted => BreaksAtHeader)
  /\ fsm_in' = [NoWord EXCEPT !.eof = TRUE]
  /\ net' = [NoSender EXCEPT !.addr = net.addr, !.seq = net.seq]
  /\ block' = <<>> /\ UNCHANGED crc_match

SendInside == \/ SendSof \/ SendHeader \/ SendCode \/ SendData
              \/ SendCrc \/ SendBadControl \/ SendEof
SendClose  == SendSubframe \/ SendPadding

(* The words of a good subframe fall due when its end is on the wire.      *)
Network(dreq, shown) ==
  \/ /\ Silence \/ (dreq /\ SendInside)
     /\ expected' = Left(shown)
  \/ /\ dreq /\ SendClose
     /\ expected' = IF net.phase = "closing" /\ Good
                    THEN Left(shown) \o Owed ELSE Left(shown)

-----------------------------------------------------------------------------
(* A clock edge and the reset edge, given the request of the buffer and    *)
(* whether it shows a word.  The reset of p_fsm reaches state, count and   *)
(* seq_no only; the rest of the frame then passes unheeded.                *)
Clock(dreq, shown) == Fsm /\ DelayAccept /\ Network(dreq, shown)

Reset ==
  /\ state \in ResetStates
  /\ state' = "IDLE" /\ count' = 0 /\ seq_no' = 0
  /\ UNCHANGED <<ser_count, packVars>>
  /\ DelayAccept
  /\ fsm_in' = NoWord /\ crc_match' = FALSE
  /\ net' = [net EXCEPT !.ignored = TRUE]
  /\ UNCHANGED block

RxInit ==
  /\ fsm_in = NoWord
  /\ state = "IDLE" /\ count = 0 /\ ser_count = 0 /\ seq_no = 0
  /\ crc_match = FALSE
  /\ pack_data = Spoilt /\ fifo_data = Spoilt
  /\ fifo_sync = FALSE /\ fifo_last = FALSE /\ fifo_lost = FALSE
  /\ fifo_dvalid = FALSE /\ fifo_accept = FALSE /\ fifo_drop = FALSE
  /\ fifo_accept_d0 = FALSE
  /\ pending_write = FALSE /\ got_next_subframe = FALSE
  /\ net = NoSender /\ block = <<>> /\ expected = <<>>

-----------------------------------------------------------------------------
RxTypeOK ==
  /\ state \in States
  /\ count \in 0 .. HeaderWords /\ ser_count \in SubIndex
  /\ seq_no \in 0 .. SeqSize - 1
  /\ {crc_match, fifo_sync, fifo_last, fifo_lost, fifo_dvalid, fifo_accept,
      fifo_accept_d0, fifo_drop, pending_write, got_next_subframe}
       \subseteq BOOLEAN
  /\ {pack_data, fifo_data} \subseteq Packed
  /\ expected \in Seq(FifoWord)

(* The buffer never sees an accept and a drop in the same cycle, although  *)
(* the accept is a cycle late (p_delay_fifo_accept): what the buffer       *)
(* relies on (NeverBoth of DroppingBuffer).                                *)
AcceptNeverMeetsDrop == ~(fifo_accept_d0 /\ fifo_drop)
=============================================================================
