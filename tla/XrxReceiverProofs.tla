------------------------- MODULE XrxReceiverProofs -------------------------
(***************************************************************************)
(* The receive streamer, for every width of its data words, every size of  *)
(* its buffer and every traffic of XrxReceiver.                            *)
(*                                                                         *)
(* The network model runs one word ahead of p_fsm.  Every step is taken in *)
(* two: p_fsm catches up with the word on the wire (Caught, CountCaught,   *)
(* PackCaught say where it then is), and the network chooses the next one. *)
(***************************************************************************)
EXTENDS XrxReceiver, SequenceTheorems, TLAPS

(* What the theorems ask of the receiver, of its resets and of the frames: *)
(* data words of three fabric words or more (dds_tx_path.vhd:95 has four,  *)
(* dds_rx_path.vhd:213 eight; of two, the last mark comes too late), room  *)
(* for a word; resets between frames or in a header (in a subframe a reset *)
(* leaves the word held back behind, 306-309); and no frame that breaks    *)
(* right after a subframe header, where the accept of the block before is  *)
(* still on its way (415).                                                 *)
AsDeployed ==
  /\ Subwords >= 3 /\ BufferSize >= 2 /\ HeaderWords = 9
  /\ ~BreaksAtHeader
  /\ ResetStates \subseteq {"IDLE", "HEADER", "SUBFRAME_HEADER"}

-----------------------------------------------------------------------------
(* The network: the types of its words and of its state, and the words     *)
(* that can be on the wire in each phase of a frame.                       *)
Kinds == {"zero", "junk", "0bad", "seq", "data", "crc", "head",
          "local", "ffff", "remote", "ethertype", "other"}
Word == [kind : Kinds, v : Nat]
Wire == [sof : BOOLEAN, eof : BOOLEAN, dvalid : BOOLEAN, escape : BOOLEAN,
         data : Word]
NetPhases == {"none", "header", "start", "payload", "closing", "padding"}
Net == [phase : NetPhases, addr : Addresses \cup {NoSender.addr}, n : Nat,
        seq : 0 .. SeqSize - 1, code : BOOLEAN, dirty : BOOLEAN,
        ignored : BOOLEAN]

(* A subframe header, a padding word, any other word after an escape code. *)
IsSeq == fsm_in.escape /\ fsm_in.data.kind = "seq"
IsPad == fsm_in.escape /\ fsm_in.data = PadWord
IsBad == fsm_in.escape /\ ~IsSeq /\ ~IsPad

WireInv ==
  /\ fsm_in \in Wire /\ net \in Net /\ block \in Seq(Values)
  /\ crc_match \in BOOLEAN
  /\ net.phase # "none" => net.addr \in Addresses
  /\ fsm_in.sof => ~fsm_in.eof /\ ~fsm_in.dvalid
  /\ fsm_in.eof => ~fsm_in.dvalid /\ net.phase = "none"
  /\ fsm_in.escape => fsm_in.dvalid /\ fsm_in.data.v < SeqSize
  /\ net.code => /\ net.phase \in {"start", "payload", "closing", "padding"}
                 /\ ~fsm_in.sof /\ ~fsm_in.eof /\ ~fsm_in.dvalid
  /\ net.phase = "payload" => /\ net.n < Subwords
                              /\ net.n # 0 => block # <<>>
                              /\ net.code => ~crc_match

(* How far p_fsm is in the frame on the wire, which is one word ahead: it  *)
(* is in a subframe only of a frame that the header filter takes, and in a *)
(* header only behind words that it takes.                                 *)
Mine == Own /\ ~net.ignored

HeaderPassed(n) == /\ n > 0 => AcceptBroadcasts \/ net.addr.dest # "local"
                   /\ n > 3 /\ FilterRemote => net.addr.src = "remote"
                   /\ n > 6 => net.addr.type = "ethertype"

(* A subframe has only just begun. *)
Fresh == /\ ~fsm_in.eof /\ ~fsm_in.escape
         /\ fsm_in.dvalid \/ (JustStarted /\ ~net.code)

(* Besides padding, an escaped word begins a subframe or breaks one. *)
StartInv ==
  /\ fsm_in.escape => ~net.code /\ (IF IsPad THEN net.phase = "padding" ELSE JustStarted)
  /\ JustStarted => ~net.code

SyncInv ==
  /\ fsm_in.sof => state = "IDLE" /\ net.phase = "header" /\ net.n = 0 /\ ~net.ignored
  /\ state \in {"IDLE", "EOF"} => \/ fsm_in.sof
                                  \/ net.phase \in {"none", "padding"} \/ ~Mine
  /\ state = "HEADER" =>
       \/ fsm_in.eof
       \/ /\ ~net.ignored /\ ~fsm_in.escape
          /\ \/ net.phase = "header" /\ net.n < HeaderWords
                /\ net.n = IF fsm_in.dvalid THEN count + 1 ELSE count
             \/ net.phase = "start" /\ fsm_in.dvalid /\ count = HeaderWords - 1
          /\ fsm_in.dvalid => fsm_in.data.kind = HeaderKind(count)
          /\ HeaderPassed(count)
  /\ state = "SUBFRAME_HEADER" =>
       \/ fsm_in.eof
       \/ Mine /\ net.phase = "start" /\ ~fsm_in.dvalid
       \/ Mine /\ net.phase = "payload" /\ fsm_in.escape
  /\ state = "PAYLOAD" =>
       \/ fsm_in.eof
       \/ Mine /\ net.phase \in {"payload", "closing"} /\ ~fsm_in.escape
       \/ Mine /\ net.phase = "payload" /\ IsSeq
       \/ Mine /\ net.phase = "padding" /\ IsPad
       \/ ~Mine /\ net.phase = "payload" /\ IsBad

(* The accept and the drop of a subframe are over before the next one gets *)
(* anywhere, and nothing is written meanwhile.                             *)
FlagInv ==
  /\ ~(fifo_accept /\ fifo_drop)
  /\ ~(fifo_accept_d0 /\ fifo_drop)
  /\ fifo_accept_d0 => ~fifo_dvalid
  /\ state = "PAYLOAD" /\ (fifo_accept \/ fifo_drop) =>
       Fresh /\ ser_count = 0 /\ ~pending_write
  /\ state = "PAYLOAD" /\ fifo_accept_d0 => 
       ~fsm_in.escape /\ ser_count \in {0, 1} /\ ~pending_write
  /\ state \in {"HEADER", "SUBFRAME_HEADER"} =>
       ~fifo_accept /\ ~fifo_drop /\ ~fifo_accept_d0 /\ ~fifo_dvalid /\ ~pending_write
  /\ state = "IDLE" => ~fifo_accept /\ (fifo_dvalid => fifo_drop)
  /\ state = "EOF" => ~fifo_accept_d0 /\ (fifo_accept \/ fifo_drop)

(* What is written finds room: a word that completes when the buffer has   *)
(* filled up stays held back, for no further word is asked for.            *)
RoomInv ==
  /\ NoOverrun
  /\ state = "PAYLOAD" /\ fifo_dvalid =>
       ~pending_write /\ ser_count \in {Subwords - 1, 0} /\ ~fsm_in.escape
  /\ state = "PAYLOAD" /\ full /\ fsm_in.dvalid /\ ~fsm_in.escape /\ pending_write => ser_count = 0
  /\ state = "PAYLOAD" /\ full /\ fsm_in.escape => ~pending_write

-----------------------------------------------------------------------------
(* The word the buffer is storing; the words on their way out of it; the   *)
(* words it has of the open subframe; the word p_fsm holds back; the first *)
(* n words of the block on the wire.                                       *)
New  == IF fifo_dvalid /\ ~full THEN <<fifo_din>> ELSE <<>>
Gone == fifo_accept \/ fifo_accept_d0 \/ fifo_drop
Stored == IF Gone THEN <<>> ELSE pending \o New
Held == IF pending_write
        THEN <<Marked(got_next_subframe, TRUE, fifo_data)>> ELSE <<>>
Begun(n) == [i \in 1 .. n |-> Marked(i = 1, FALSE, block[i])]

Open == state = "PAYLOAD" /\ ~fsm_in.eof /\ ~fsm_in.escape

(* p_fsm counts the subwords the network sends, and knows its CRC. *)
CountInv == Open =>
  /\ net.phase = "payload" =>
       IF fsm_in.dvalid
       THEN /\ net.n = IF ser_count = Subwords - 1 THEN 0 ELSE ser_count + 1
            /\ block # <<>>
       ELSE ser_count = net.n
  /\ net.phase = "closing" => /\ ser_count = IF fsm_in.dvalid THEN 0 ELSE 1
                              /\ crc_match = ~net.dirty

(* Of the `done' complete words all are stored but the last, which is held *)
(* back until the next one is nearly complete; the subwords of that one    *)
(* are packed as its value.                                                *)
Packing(done) ==
  LET written == IF pending_write THEN done - 1 ELSE done
  IN  /\ pending_write = (done # 0 /\ ser_count # Subwords - 1)
      /\ pending_write => fifo_data = block[done]
      /\ got_next_subframe = (written = 0)
      /\ Stored = Begun(written)
      /\ net.phase = "payload" /\ ser_count # 0 => pack_data = block[Len(block)]

PackInv == Open /\ ~net.dirty =>
  /\ Packing(IF net.phase = "payload" /\ (fsm_in.dvalid \/ net.n # 0)
             THEN Len(block) - 1 ELSE Len(block))
  /\ net.phase = "payload" /\ fsm_in.dvalid =>
       fsm_in.data = Subword(block[Len(block)], ser_count)

(* Outside a subframe the pending words are about to go. *)
TailInv ==
  /\ state \in {"HEADER", "SUBFRAME_HEADER"} => pending = <<>>
  /\ state = "IDLE" => pending = <<>> \/ fifo_accept_d0 \/ fifo_drop

(* The good subframe that the word on the wire closes, and the words that  *)
(* have been accepted, or will be, but are not readable yet.               *)
Closing == state = "PAYLOAD" /\ (IsSeq \/ IsPad) /\ crc_match

InFlight == IF Closing THEN pending \o Held
            ELSE IF fifo_accept \/ fifo_accept_d0 THEN pending \o New
            ELSE <<>>

(* The words due are those the user can read and those in flight. *)
BookInv == /\ Left(valid) = committed \o InFlight
           /\ DeliversWholeBlocks

-----------------------------------------------------------------------------
LEMMA WholeWord ==
  ASSUME NEW c \in Nat, NEW i \in SubIndex
  PROVE  /\ c * Subwords + i \in Nat
         /\ (c * Subwords + i) \div Subwords = c
<1> DEFINE x == c * Subwords + i
           q == x \div Subwords
<1>1. Subwords \in Nat \ {0} /\ i \in Nat /\ i < Subwords
      BY FrameAssumption DEF SubIndex
<1>2. /\ x \in Nat /\ q \in Nat
      /\ x = Subwords * q + (x % Subwords)
      /\ x % Subwords \in 0 .. Subwords - 1
      BY <1>1
<1>. QED BY <1>1, <1>2

LEMMA SubwordIsWord ==
  ASSUME NEW c \in Values, NEW i \in SubIndex
  PROVE  /\ Subword(c, i) \in Word
         /\ Subword(c, i).kind = "data"
         /\ Subword(c, i).v \div Subwords = c
<1>1. c \in Nat
      BY RxAssumption
<1>. QED BY <1>1, WholeWord DEF Subword, DataWord, Word, Kinds

LEMMA KnownWords ==
  /\ Junk \in Word /\ Junk.v = 0 /\ Junk.kind = "junk"
  /\ PadWord \in Word /\ PadWord.v = 0 /\ PadWord.kind = "0bad"
  /\ CrcWord(0) \in Word
  /\ \A n \in Nat : SeqWord(n) \in Word /\ SeqWord(n).v = n /\ SeqWord(n).kind = "seq"
BY DEF Junk, PadWord, SeqWord, CrcWord, Word, Kinds

LEMMA WordsOfTheWire ==
  /\ NoWord \in Wire /\ ~NoWord.sof /\ ~NoWord.eof /\ ~NoWord.dvalid /\ ~NoWord.escape
  /\ \A w \in Word :
       /\ Plain(w) \in Wire /\ Control(w) \in Wire
       /\ Plain(w).data = w /\ Plain(w).dvalid /\ ~Plain(w).escape
       /\ Control(w).data = w /\ Control(w).dvalid /\ Control(w).escape
       /\ ~Plain(w).sof /\ ~Plain(w).eof /\ ~Control(w).sof /\ ~Control(w).eof
<1>1. /\ NoWord \in Wire /\ NoWord.sof = FALSE /\ NoWord.eof = FALSE
      /\ NoWord.dvalid = FALSE /\ NoWord.escape = FALSE
      BY DEF NoWord, Wire, Word, Kinds, Zero
<1>2. ASSUME NEW w \in Word
      PROVE  /\ Plain(w) \in Wire /\ Plain(w).data = w /\ Plain(w).dvalid = TRUE
             /\ Plain(w).escape = FALSE /\ Plain(w).sof = FALSE /\ Plain(w).eof = FALSE
  <2>. HIDE DEF NoWord
  <2>. QED BY <1>1 DEF Plain, Wire
<1>3. ASSUME NEW w \in Word
      PROVE  /\ Control(w) \in Wire /\ Control(w).data = w /\ Control(w).dvalid = TRUE
             /\ Control(w).escape = TRUE /\ Control(w).sof = FALSE /\ Control(w).eof = FALSE
      BY <1>2 DEF Control, Wire
<1>. QED BY <1>1, <1>2, <1>3

LEMMA PackTyped ==
  ASSUME NEW p \in Packed, NEW w, NEW i \in SubIndex
  PROVE  Pack(p, w, i) \in Packed
<1>1. CASE \E c \in Values : w = Subword(c, i) /\ (i = 0 \/ p = c)
  <2>1. PICK c \in Values : w = Subword(c, i)
        BY <1>1
  <2>. QED BY <1>1, <2>1, SubwordIsWord DEF Pack, Packed
<1>. QED BY <1>1 DEF Pack, Packed

-----------------------------------------------------------------------------
LEMMA NobodySends ==
  /\ NoSender \in Net /\ NoSender.phase = "none" /\ ~NoSender.code
  /\ ~NoSender.ignored /\ ~NoSender.dirty
<1>1. /\ NoSender.phase = "none" /\ NoSender.code = FALSE
      /\ NoSender.ignored = FALSE /\ NoSender.dirty = FALSE
      BY DEF NoSender
<1>2. NoSender \in Net
  <2> DEFINE a == CHOOSE a \in Addresses : TRUE
  <2>1. NoSender = [phase |-> "none", addr |-> a, n |-> 0, seq |-> 0,
                    code |-> FALSE, dirty |-> FALSE, ignored |-> FALSE]
        BY DEF NoSender
  <2> HIDE DEF a
  <2>. QED BY <2>1, RxAssumption DEF Net, NetPhases
<1>. QED BY <1>1, <1>2

LEMMA WireInit == RxInit => WireInv
<1>. SUFFICES ASSUME RxInit PROVE WireInv
     OBVIOUS
<1>1. block \in Seq(Values)
      BY DEF RxInit
<1>. QED BY <1>1, NobodySends, WordsOfTheWire DEF RxInit, WireInv

LEMMA DataOnTheWire ==
  ASSUME WireInv, SendData
  PROVE  /\ block' \in Seq(Values) /\ block' # <<>>
         /\ fsm_in' \in Wire /\ fsm_in'.dvalid
         /\ ~fsm_in'.sof /\ ~fsm_in'.eof /\ ~fsm_in'.escape
         /\ net' \in Net /\ net'.phase = "payload" /\ ~net'.code
         /\ net'.addr = net.addr /\ net'.ignored = net.ignored
         /\ net'.n \in Nat /\ net'.n < Subwords /\ net'.n = (net.n + 1) % Subwords
         /\ ~net'.dirty => /\ ~net.dirty
                            /\ fsm_in'.data = Subword(block'[Len(block')], net.n)
<1> USE FrameAssumption, RxAssumption
<1>1. block' \in Seq(Values) /\ block' # <<>>
  <2>1. net.n \in Nat /\ block \in Seq(Values)
        BY DEF WireInv, Net
  <2>2. CASE net.n = 0
    <3>1. PICK c \in Values : block' = Append(block, c)
          BY <2>2 DEF SendData
    <3>. QED BY <2>1, <3>1
  <2>3. CASE net.n # 0
        BY <2>1, <2>3 DEF SendData, WireInv
  <2>. QED BY <2>2, <2>3
<1>2. PICK damaged \in BOOLEAN :
        /\ fsm_in' = Plain(IF damaged THEN Junk
                           ELSE Subword(block'[Len(block')], net.n))
        /\ net' = [net EXCEPT !.n = (@ + 1) % Subwords,
                              !.dirty = @ \/ damaged]
      BY DEF SendData
<1>3. Subword(block'[Len(block')], net.n) \in Word
  <2>1. PICK c : c = block'[Len(block')]
        OBVIOUS
  <2>2. c \in Values
        BY <1>1, <2>1
  <2>3. net.n \in SubIndex
    <3>1. net.phase = "payload"
          BY DEF SendData
    <3>2. net.n \in Nat /\ net.n < Subwords
          BY <3>1 DEF WireInv, Net
    <3>. QED BY <3>2 DEF SubIndex
  <2>. QED BY <2>1, <2>2, <2>3, SubwordIsWord, Zenon
<1>4. fsm_in' \in Wire /\ fsm_in'.dvalid /\ ~fsm_in'.sof /\ ~fsm_in'.eof /\ ~fsm_in'.escape
      BY KnownWords, <1>2, <1>3, WordsOfTheWire DEF Wire
<1>5. (net.n + 1) % Subwords \in 0 .. Subwords - 1
      BY DEF WireInv, Net
<1>6. net' \in Net /\ net'.phase = net.phase /\ net'.code = net.code /\ net'.n < Subwords
      /\ net'.addr = net.addr /\ net'.ignored = net.ignored
      /\ net'.n = (net.n + 1) % Subwords
  <2>1. net \in Net /\ (net.dirty \/ damaged) \in BOOLEAN
        BY DEF WireInv, Net
  <2>2. PICK d \in BOOLEAN : 
           net' = [net EXCEPT !.n = (net.n + 1) % Subwords, !.dirty = d]
        BY <1>2, <2>1
  <2>3. PICK k \in 0 .. Subwords - 1 : net' = [net EXCEPT !.n = k, !.dirty = d]
        BY <1>5, <2>2
  <2>4. k \in Nat /\ k < Subwords
        OBVIOUS
  <2>5. net' \in Net
        BY <2>1, <2>3, <2>4 DEF Net
  <2>6. net'.phase = net.phase /\ net'.code = net.code /\ net'.addr = net.addr /\ net'.n = k
        /\ net'.ignored = net.ignored
        BY <2>1, <2>3, <2>4 DEF Net
  <2>7. net'.n = (net.n + 1) % Subwords
        BY <2>1, <2>2 DEF Net
  <2>. QED BY <2>4, <2>5, <2>6, <2>7
<1>7. net'.dirty = (net.dirty \/ damaged)
      BY <1>2 DEF WireInv, Net
<1>8. ~damaged => fsm_in'.data = Subword(block'[Len(block')], net.n)
      BY <1>2, <1>3, WordsOfTheWire
<1>. QED BY <1>1, <1>4, <1>6, <1>7, <1>8 DEF SendData, Net

LEMMA WireStep ==
  ASSUME WireInv, NEW dreq, NEW shown, Network(dreq, shown)
  PROVE  WireInv'
<1> USE FrameAssumption, RxAssumption
<1>1. CASE Silence
      BY WordsOfTheWire, <1>1 DEF Silence, WireInv
<1>2. CASE SendSof
  <2>1. PICK a \in Addresses :
          net' = [net EXCEPT !.phase = "header", !.addr = a, !.n = 0,
                             !.ignored = FALSE, !.dirty = FALSE]
        BY <1>2 DEF SendSof
  <2>2. /\ net' \in Net /\ net'.phase = "header" /\ net'.addr \in Addresses
        /\ net'.code = net.code
        BY <2>1 DEF WireInv, Net, NetPhases
  <2>3. fsm_in' \in Wire /\ ~fsm_in'.eof /\ ~fsm_in'.dvalid /\ ~fsm_in'.escape
        BY <1>2, WordsOfTheWire DEF SendSof, Wire
  <2>. QED BY <1>2, <2>2, <2>3 DEF SendSof, WireInv
<1>3. CASE SendHeader
  <2>1. [kind |-> HeaderKind(net.n), v |-> 0] \in Word
    <3>1. net.addr \in Addresses
          BY <1>3 DEF SendHeader, WireInv
    <3>2. HeaderKind(net.n) \in Kinds
          BY <3>1 DEF Kinds, HeaderKind
    <3>. QED BY <3>2 DEF Word
  <2>2. fsm_in' \in Wire /\ fsm_in'.dvalid /\ ~fsm_in'.sof /\ ~fsm_in'.eof /\ ~fsm_in'.escape
        BY <1>3, <2>1, WordsOfTheWire DEF SendHeader, Wire
  <2>3. /\ net' \in Net /\ net'.phase \in {"header", "start"} /\ net'.code = net.code
        /\ net'.addr = net.addr
    <3>1. net \in Net /\ net.phase = "header"
          BY <1>3 DEF SendHeader, WireInv
    <3>2. CASE net' = [net EXCEPT !.phase = "start", !.n = 0]
          BY <3>1, <3>2 DEF Net, NetPhases
    <3>3. CASE net' = [net EXCEPT !.n = net.n + 1]
          BY <3>1, <3>3 DEF Net, NetPhases
    <3>. QED BY <1>3, <3>2, <3>3 DEF SendHeader
  <2>. QED BY <1>3, <2>2, <2>3 DEF SendHeader, WireInv
<1>4. CASE SendCode
      BY WordsOfTheWire, <1>4 DEF SendCode, WireInv, Net, NetPhases
<1>5. CASE SendData
      BY <1>5, DataOnTheWire DEF SendData, WireInv
<1>6. CASE SendCrc
  <2>1. PICK damaged \in BOOLEAN :
          /\ fsm_in' = Plain(IF damaged THEN Junk ELSE CrcWord(0))
          /\ net' = [net EXCEPT !.phase = "closing", !.dirty = @ \/ damaged]
          /\ crc_match' = (~damaged /\ ~net.dirty)
        BY <1>6 DEF SendCrc
  <2>2. fsm_in' \in Wire /\ fsm_in'.dvalid /\ ~fsm_in'.sof /\ ~fsm_in'.eof /\ ~fsm_in'.escape
        BY KnownWords, <2>1, WordsOfTheWire DEF Wire
  <2>3. net' \in Net /\ net'.phase = "closing" /\ net'.code = net.code
        BY <2>1 DEF WireInv, Net, NetPhases
  <2>. QED BY <1>6, <2>1, <2>2, <2>3 DEF SendCrc, WireInv
<1>7. CASE SendBadControl
  <2>1. PICK w \in {Junk, SeqWord(0)} :
          /\ fsm_in' = Control(w)
          /\ net' = [net EXCEPT !.phase = "payload", !.n = 0, !.code = FALSE,
                                !.dirty = TRUE,
                                !.ignored = @ \/ (w = Junk /\ net.phase # "start")]
        BY <1>7 DEF SendBadControl
  <2>2. /\ fsm_in' \in Wire /\ fsm_in'.dvalid /\ ~fsm_in'.sof /\ ~fsm_in'.eof
        /\ fsm_in'.data.v < SeqSize
        BY KnownWords, <2>1, WordsOfTheWire DEF Wire
  <2>3. net' \in Net /\ net'.phase = "payload" /\ ~net'.code /\ net'.n = 0
        BY <2>1 DEF WireInv, Net, NetPhases
  <2>. QED BY <1>7, <2>2, <2>3 DEF SendBadControl, WireInv
<1>8. CASE SendEof
  <2>1. fsm_in' \in Wire /\ ~fsm_in'.sof /\ ~fsm_in'.dvalid /\ ~fsm_in'.escape
        BY <1>8, WordsOfTheWire DEF SendEof, Wire
  <2>2. net' \in Net /\ net'.phase = "none" /\ ~net'.code
        BY <1>8, NobodySends DEF SendEof, WireInv, Net
  <2>3. block' \in Seq(Values)
        BY <1>8 DEF SendEof
  <2>. QED BY <1>8, <2>1, <2>2, <2>3 DEF SendEof, WireInv
<1>9. CASE SendSubframe
  <2>1. net.seq \in Nat /\ net.seq < SeqSize /\ (net.seq + 1) % SeqSize \in 0 .. SeqSize - 1
        BY DEF WireInv, Net
  <2>2. /\ fsm_in' \in Wire /\ fsm_in'.dvalid /\ ~fsm_in'.sof /\ ~fsm_in'.eof
        /\ fsm_in'.data.v < SeqSize
        BY KnownWords, <1>9, <2>1, WordsOfTheWire DEF SendSubframe, Wire
  <2>3. net' \in Net /\ net'.phase = "payload" /\ ~net'.code /\ net'.n = 0
        BY <1>9, <2>1 DEF SendSubframe, WireInv, Net, NetPhases
  <2>. QED BY <1>9, <2>2, <2>3 DEF SendSubframe, WireInv
<1>10. CASE SendPadding
  <2>1. /\ fsm_in' \in Wire /\ fsm_in'.dvalid /\ ~fsm_in'.sof /\ ~fsm_in'.eof
        /\ fsm_in'.data.v < SeqSize
        BY KnownWords, <1>10, WordsOfTheWire DEF SendPadding, Wire
  <2>2. net' \in Net /\ net'.phase = "padding" /\ ~net'.code
        BY <1>10 DEF SendPadding, WireInv, Net, NetPhases
  <2>. QED BY <1>10, <2>1, <2>2 DEF SendPadding, WireInv
<1>. QED BY <1>1, <1>2, <1>3, <1>4, <1>5, <1>6, <1>7, <1>8, <1>9, <1>10
         DEF Network, SendInside, SendClose

LEMMA WireReset == WireInv /\ Reset => WireInv'
BY WordsOfTheWire DEF WireInv, Reset, Net

-----------------------------------------------------------------------------
(* The registers of the receiver. *)
RegsOK ==
  /\ state \in States
  /\ count \in 0 .. HeaderWords /\ ser_count \in SubIndex
  /\ state = "HEADER" => count < HeaderWords
  /\ seq_no \in 0 .. SeqSize - 1
  /\ pack_data \in Packed /\ fifo_data \in Packed
  /\ fifo_sync \in BOOLEAN /\ fifo_last \in BOOLEAN /\ fifo_lost \in BOOLEAN
  /\ fifo_dvalid \in BOOLEAN /\ fifo_accept \in BOOLEAN
  /\ fifo_accept_d0 \in BOOLEAN /\ fifo_drop \in BOOLEAN
  /\ pending_write \in BOOLEAN /\ got_next_subframe \in BOOLEAN

BufOK == /\ committed \in Seq(FifoWord) /\ pending \in Seq(FifoWord)
         /\ Len(committed) + Len(pending) < BufferSize
         /\ out \in FifoWord /\ valid \in BOOLEAN
         /\ expected \in Seq(FifoWord)

TypeInv == WireInv /\ RegsOK /\ BufOK

LEMMA TypeInvMeansTypeOK == TypeInv => TypeOK
BY DEF TypeInv, WireInv, RegsOK, BufOK, TypeOK, RxTypeOK

LEMMA SeqChecked ==
  ASSUME RegsOK, NEW n \in Nat, n < SeqSize, CheckSeq(n)
  PROVE  seq_no' \in 0 .. SeqSize - 1 /\ fifo_lost' \in BOOLEAN
<1>1. SeqSize \in Nat \ {0} /\ seq_no \in 0 .. SeqSize - 1
      BY RxAssumption DEF RegsOK
<1>2. (seq_no + 1) % SeqSize \in 0 .. SeqSize - 1
      BY <1>1
<1>. QED BY <1>1, <1>2 DEF CheckSeq

LEMMA RegsInit == RxInit => RegsOK
<1>1. 0 \in SubIndex /\ 0 \in 0 .. HeaderWords /\ 0 \in 0 .. SeqSize - 1
      BY FrameAssumption, RxAssumption DEF SubIndex
<1>2. Spoilt \in Packed
      BY DEF Packed
<1>. QED BY <1>1, <1>2 DEF RxInit, RegsOK, States

LEMMA RegsReset == RegsOK /\ Reset => RegsOK'
BY FrameAssumption, RxAssumption DEF RegsOK, Reset, States, packVars, DelayAccept

LEMMA RegsStep ==
  ASSUME WireInv, RegsOK, Fsm, DelayAccept
  PROVE  RegsOK'
<1> USE FrameAssumption, RxAssumption
<1>0. /\ fsm_in.data.v \in Nat
      /\ fsm_in.escape => fsm_in.data.v < SeqSize
      /\ fsm_in.sof \in BOOLEAN /\ fsm_in.eof \in BOOLEAN /\ fsm_in.dvalid \in BOOLEAN /\ fsm_in.escape \in BOOLEAN
      BY DEF WireInv, Wire, Word
<1>1. CASE Idle
  <2>1. /\ state' \in {"IDLE", "HEADER"} /\ count' = 0 /\ count' \in 0 .. HeaderWords
        /\ count' < HeaderWords
        BY <1>1 DEF Idle
  <2>. QED BY <1>1, <2>1 DEF Idle, RegsOK, States, DelayAccept
<1>2. CASE Header
      BY <1>2 DEF Header, RegsOK, States, packVars, DelayAccept
<1>3. CASE SubframeHeader
  <2>1. seq_no' \in 0 .. SeqSize - 1 /\ fifo_lost' \in BOOLEAN
    <3>1. CASE fsm_in.dvalid /\ fsm_in.escape /\ CheckSeq(fsm_in.data.v)
          BY <1>0, <3>1, SeqChecked
    <3>2. CASE UNCHANGED <<seq_no, fifo_lost>>
          BY <3>2 DEF RegsOK
    <3>. QED BY <1>3, <3>1, <3>2 DEF SubframeHeader
  <2>2. state' \in {"IDLE", "PAYLOAD", "SUBFRAME_HEADER"} /\ got_next_subframe' \in BOOLEAN
        BY <1>3 DEF SubframeHeader, RegsOK
  <2>3. ser_count' \in SubIndex
        BY <1>3 DEF SubframeHeader, SubIndex
  <2>. QED BY <1>3, <2>1, <2>2, <2>3 DEF SubframeHeader, RegsOK, States, DelayAccept
<1>4. CASE Payload
  <2>1. CASE PayloadEof
        BY <1>4, <2>1 DEF Payload, PayloadEof, RegsOK, States, DelayAccept
  <2>2. CASE PayloadEscape
    <3>1. seq_no' \in 0 .. SeqSize - 1 /\ fifo_lost' \in BOOLEAN
      <4>1. CASE fsm_in.escape /\ CheckSeq(fsm_in.data.v)
            BY <1>0, <4>1, SeqChecked
      <4>2. CASE UNCHANGED <<seq_no, fifo_lost>>
            BY <4>2 DEF RegsOK
      <4>. QED BY <2>2, <4>1, <4>2 DEF PayloadEscape
    <3>2. crc_match \in BOOLEAN
          BY DEF WireInv
    <3>3. /\ state' \in {"PAYLOAD", "EOF"} /\ pending_write' \in BOOLEAN
          /\ fifo_dvalid' \in BOOLEAN /\ fifo_accept' \in BOOLEAN /\ fifo_drop' \in BOOLEAN
          BY <1>4, <2>2, <3>2 DEF Payload, PayloadEscape, RegsOK
    <3>4. ser_count' \in SubIndex /\ fifo_sync' \in BOOLEAN
          BY <1>4, <2>2 DEF Payload, PayloadEscape, SubIndex, RegsOK
    <3>. QED BY <1>4, <2>2, <3>1, <3>3, <3>4
             DEF Payload, PayloadEscape, RegsOK, States, DelayAccept
  <2>3. CASE PayloadWord
    <3>1. pack_data' \in Packed
          BY <2>3, PackTyped DEF PayloadWord, RegsOK
    <3>2. ser_count' \in SubIndex
          BY <2>3 DEF PayloadWord, RegsOK, SubIndex
    <3>3. fifo_data' \in Packed
          BY <2>3, <3>1 DEF PayloadWord, RegsOK
    <3>4. fifo_dvalid' \in BOOLEAN /\ pending_write' \in BOOLEAN
          /\ got_next_subframe' \in BOOLEAN /\ fifo_sync' \in BOOLEAN
          BY <1>4, <2>3 DEF Payload, PayloadWord, RegsOK
    <3>. QED BY <1>4, <2>3, <3>1, <3>2, <3>3, <3>4 DEF Payload, PayloadWord, RegsOK, DelayAccept
  <2>4. CASE PayloadGap
        BY <1>4, <2>4 DEF Payload, PayloadGap, RegsOK, DelayAccept
  <2>. QED BY <1>4, <2>1, <2>2, <2>3, <2>4 DEF Payload
<1>5. CASE Eof
      BY <1>5 DEF Eof, RegsOK, States, DelayAccept
<1>. QED BY <1>1, <1>2, <1>3, <1>4, <1>5 DEF Fsm

(* What is owed is typed, and so is what the buffer makes of it. *)
LEMMA OwedTyped ==
  ASSUME WireInv
  PROVE  Owed \in Seq(FifoWord) /\ Len(Owed) = Len(block)
<1>1. block \in Seq(Values) /\ Len(block) \in Nat /\ DOMAIN block = 1 .. Len(block)
      BY DEF WireInv
<1>2. \A i \in 1 .. Len(block) : Marked(i = 1, i = Len(block), block[i]) \in FifoWord
      BY <1>1 DEF Marked, FifoWord, Packed
<1>3. Owed = [i \in 1 .. Len(block) |-> Marked(i = 1, i = Len(block), block[i])]
      BY <1>1 DEF Owed
<1>4. Owed \in [1 .. Len(block) -> FifoWord]
      BY <1>2, <1>3
<1>. QED BY <1>1, <1>4

LEMMA LeftTyped ==
  ASSUME BufOK, NEW shown \in BOOLEAN
  PROVE  Left(shown) \in Seq(FifoWord)
BY DEF BufOK, Left

LEMMA DinTyped == RegsOK => fifo_din \in FifoWord
BY DEF RegsOK, fifo_din, Marked, FifoWord

(* The writer's half of a step: what it does to the pending words. *)
LEMMA WriteCases ==
  ASSUME RegsOK, NEW left, Write(left)
  PROVE  \/ fifo_drop /\ committed' = left /\ pending' = <<>>
         \/ ~fifo_drop /\ fifo_accept_d0 /\ committed' = left \o pending /\ pending' = New
         \/ ~fifo_drop /\ ~fifo_accept_d0 /\ committed' = left /\ pending' = pending \o New
BY DEF RegsOK, Write, New, Fifo!Drop, Fifo!Accept, Fifo!Keep

LEMMA NewTyped == 
  ASSUME RegsOK, BufOK
  PROVE  New \in Seq(FifoWord) /\ Len(New) = IF fifo_dvalid /\ ~full THEN 1 ELSE 0
BY DinTyped DEF New

(* The buffer and the words due. *)
LEMMA BufStep ==
  ASSUME TypeInv, Reading \/ Waiting
  PROVE  BufOK'
<1> USE FrameAssumption, RxAssumption
<1>1. PICK left \in {committed, Tail(committed)} :
        /\ Write(left) 
        /\ left = committed \/ committed # <<>>
      BY DEF Reading, Waiting, Fifo!Deliver
<1>2. /\ left \in Seq(FifoWord) /\ Len(left) <= Len(committed)
  <2>1. committed \in Seq(FifoWord)
        BY DEF TypeInv, BufOK
  <2>2. CASE left = committed
        BY <2>1, <2>2
  <2>3. CASE left = Tail(committed) /\ committed # <<>>
        BY <2>1, <2>3
  <2>. QED BY <1>1, <2>2, <2>3
<1>3. /\ New \in Seq(FifoWord) /\ Len(New) \in {0, 1}
      /\ Len(New) = 1 => ~full
  <2>1. RegsOK /\ BufOK
        BY DEF TypeInv
  <2>2. CASE fifo_dvalid /\ ~full
        BY <2>1, <2>2, NewTyped
  <2>3. CASE ~(fifo_dvalid /\ ~full)
        BY <2>1, <2>3, NewTyped
  <2>. QED BY <2>2, <2>3
<1>4. /\ committed' \in Seq(FifoWord) /\ pending' \in Seq(FifoWord)
      /\ Len(committed') + Len(pending') < BufferSize
  <2>1. committed \in Seq(FifoWord) /\ pending \in Seq(FifoWord)
        /\ Len(committed) + Len(pending) < BufferSize
        /\ BufferSize \in Nat
        BY DEF TypeInv, BufOK
  <2>2. Len(left \o pending) = Len(left) + Len(pending) /\ left \o pending \in Seq(FifoWord)
        BY <1>2, <2>1
  <2>3. Len(pending \o New) = Len(pending) + Len(New) /\ pending \o New \in Seq(FifoWord)
    <3>1. New \in Seq(FifoWord) /\ pending \in Seq(FifoWord)
          BY <1>3, <2>1
    <3> HIDE DEF New
    <3>. QED BY <3>1
  <2>4. Len(left) \in Nat /\ Len(committed) \in Nat /\ Len(pending) \in Nat /\ Len(<<>>) = 0
        /\ <<>> \in Seq(FifoWord)
        BY <1>2, <2>1
  <2>5. Len(New) = 1 => Len(committed) + Len(pending) + 1 < BufferSize
    <3>1. Len(New) = 1 => Len(committed) + Len(pending) # BufferSize - 1
          BY <1>3 DEF full
    <3>. QED BY <2>1, <2>4, <3>1
  <2>6. CASE committed' = left /\ pending' = <<>>
        BY <1>2, <2>1, <2>4, <2>6
  <2>7. CASE committed' = left \o pending /\ pending' = New
    <3>1. committed' \in Seq(FifoWord) /\ pending' \in Seq(FifoWord)
          BY <1>3, <2>2, <2>7
    <3>2. Len(committed') + Len(pending') = Len(left) + Len(pending) + Len(New)
          BY <1>3, <2>2, <2>4, <2>7
    <3>3. Len(New) = 0 \/ Len(New) = 1
          BY <1>3
    <3>4. /\ Len(committed) + Len(pending) < BufferSize /\ Len(left) <= Len(committed)
          /\ Len(left) \in Nat /\ Len(committed) \in Nat /\ Len(pending) \in Nat
          /\ BufferSize \in Nat
          BY <1>2, <2>1, <2>4
    <3>. HIDE DEF New
    <3>5. Len(committed') + Len(pending') < BufferSize
      <4>1. CASE Len(New) = 0
            BY <3>2, <3>4, <4>1
      <4>2. CASE Len(New) = 1
            BY <2>5, <3>2, <3>4, <4>2
      <4>. QED BY <3>3, <4>1, <4>2
    <3>. QED BY <3>1, <3>5
  <2>8. CASE committed' = left /\ pending' = pending \o New
        BY <1>2, <1>3, <2>1, <2>3, <2>4, <2>5, <2>8, SMTT(30)
  <2>. QED BY <1>1, <2>6, <2>7, <2>8, WriteCases DEF TypeInv
<1>5. out' \in FifoWord /\ valid' \in BOOLEAN
  <2>1. CASE Reading
        BY <2>1 DEF Reading, Fifo!Deliver, TypeInv, BufOK
  <2>2. CASE Waiting
        BY <2>2 DEF Waiting, Fifo!NoDelivery, TypeInv, BufOK
  <2>. QED BY <2>1, <2>2
<1>6. expected' \in Seq(FifoWord)
  <2>1. Network(~full, valid)
        BY DEF Reading, Waiting, Clock
  <2>2. Left(valid) \in Seq(FifoWord) /\ Left(valid) \o Owed \in Seq(FifoWord)
        BY LeftTyped, OwedTyped DEF TypeInv, BufOK
  <2>. QED BY <2>1, <2>2 DEF Network
<1>. QED BY <1>4, <1>5, <1>6 DEF BufOK

LEMMA BufReset ==
  ASSUME TypeInv, ResetEdge
  PROVE  BufOK'
<1> USE RxAssumption
<1>1. committed' = <<>> /\ pending' = <<>>
      BY DEF ResetEdge, Fifo!Clear
<1>2. Len(<<>>) = 0 /\ <<>> \in Seq(FifoWord)
      OBVIOUS
<1>3. expected' \in Seq(FifoWord)
  <2>1. Left(valid) \in Seq(FifoWord)
        BY LeftTyped DEF TypeInv, BufOK
  <2>2. FirstDue(valid) \in Seq(FifoWord)
        BY <2>1 DEF FirstDue
  <2>. QED BY <1>2, <2>2 DEF ResetEdge
<1>4. out' \in FifoWord /\ valid' \in BOOLEAN
  <2>1. CASE Fifo!Deliver
        BY <2>1 DEF Fifo!Deliver, TypeInv, BufOK
  <2>2. CASE Fifo!NoDelivery
        BY <2>2 DEF Fifo!NoDelivery, TypeInv, BufOK
  <2>. QED BY <2>1, <2>2 DEF ResetEdge
<1>. QED BY <1>1, <1>2, <1>3, <1>4 DEF BufOK

LEMMA TypeInvInit == Init => TypeInv
<1>1. NoData \in FifoWord
      BY DEF NoData, Marked, FifoWord, Packed
<1>2. <<>> \in Seq(FifoWord) /\ Len(<<>>) = 0 /\ 0 + 0 < BufferSize
      BY RxAssumption
<1>. QED BY <1>1, <1>2, WireInit, RegsInit DEF Init, TypeInv, BufOK, RxInit

LEMMA TypeInvInductive == TypeInv /\ [Next]_vars => TypeInv'
<1> SUFFICES ASSUME TypeInv, [Next]_vars PROVE TypeInv'
    OBVIOUS
<1>1. CASE Reading \/ Waiting
  <2>1. Clock(~full, valid)
        BY <1>1 DEF Reading, Waiting
  <2>. QED BY <1>1, <2>1, WireStep, RegsStep, BufStep DEF TypeInv, Clock
<1>2. CASE ResetEdge
      BY <1>2, WireReset, RegsReset, BufReset DEF TypeInv, ResetEdge
<1>3. CASE UNCHANGED vars
      BY <1>3 DEF vars, rxVars, fsmVars, packVars, netVars, bufVars, TypeInv,
                  WireInv, RegsOK, BufOK, JustStarted
<1>. QED BY <1>1, <1>2, <1>3 DEF Next

(* The registers, counters and queues of the receiver keep to their types. *)
THEOREM ReceiverTypeCorrect == Spec => []TypeOK
<1>. QED BY TypeInvInit, TypeInvInductive, TypeInvMeansTypeOK, PTL DEF Spec

-----------------------------------------------------------------------------
LEMMA StartStep ==
  ASSUME AsDeployed, WireInv, StartInv, NEW dreq, NEW shown, Network(dreq, shown)
  PROVE  StartInv'
<1>1. CASE Silence
      BY <1>1, WordsOfTheWire DEF Silence, StartInv, IsPad, JustStarted
<1>2. CASE SendSof \/ SendHeader \/ SendCrc
  <2>1. ~fsm_in'.escape
    <3>1. CASE SendSof
          BY <3>1, WordsOfTheWire DEF SendSof, Wire
    <3>2. CASE SendHeader
      <4>1. net.addr \in Addresses
            BY <3>2 DEF SendHeader, WireInv
      <4>2. HeaderKind(net.n) \in Kinds
            BY <4>1, RxAssumption DEF Kinds, HeaderKind
      <4>. QED BY <3>2, <4>2, WordsOfTheWire DEF SendHeader, Word
    <3>3. CASE SendCrc
      <4>1. CrcWord(0) \in Word
            BY DEF CrcWord, Word, Kinds
      <4>. QED BY KnownWords, <3>3, <4>1, WordsOfTheWire DEF SendCrc
    <3>. QED BY <1>2, <3>1, <3>2, <3>3
  <2>2. net'.phase # "payload"
        BY <1>2 DEF SendSof, SendHeader, SendCrc, WireInv, Net
  <2>. QED BY <2>1, <2>2 DEF StartInv, IsPad, JustStarted
<1>3. CASE SendCode
      BY <1>3, WordsOfTheWire DEF SendCode, StartInv, IsPad, JustStarted, AsDeployed, WireInv, Net
<1>4. CASE SendData
  <2>1. net'.code = net.code
        BY <1>4 DEF SendData, WireInv, Net
  <2>2. ~fsm_in'.escape
        BY <1>4, DataOnTheWire
  <2>. QED BY <1>4, <2>1, <2>2 DEF SendData, StartInv, IsPad, JustStarted, WireInv
<1>5. CASE SendBadControl
  <2>1. PICK w \in {Junk, SeqWord(0)} : fsm_in' = Control(w)
        BY <1>5 DEF SendBadControl
  <2>2. fsm_in'.data.kind # "0bad"
        BY KnownWords, <2>1, WordsOfTheWire
  <2>3. net'.phase = "payload" /\ net'.n = 0 /\ ~net'.code /\ block' = <<>>
        BY <1>5 DEF SendBadControl, WireInv, Net
  <2>. QED BY KnownWords, <2>2, <2>3 DEF StartInv, IsPad, JustStarted
<1>6. CASE SendEof
      BY <1>6, WordsOfTheWire, NobodySends DEF SendEof, StartInv, IsPad, JustStarted, Wire, Net
<1>7. CASE SendSubframe
  <2>1. fsm_in'.data.kind # "0bad"
        BY KnownWords, <1>7, WordsOfTheWire DEF SendSubframe, WireInv, Net
  <2>2. net'.phase = "payload" /\ net'.n = 0 /\ ~net'.code /\ block' = <<>>
        BY <1>7 DEF SendSubframe, WireInv, Net
  <2>. QED BY KnownWords, <2>1, <2>2 DEF StartInv, IsPad, JustStarted
<1>8. CASE SendPadding
  <2>1. fsm_in'.data = PadWord
        BY KnownWords, <1>8, WordsOfTheWire DEF SendPadding
  <2>2. net'.phase = "padding" /\ ~net'.code
        BY <1>8 DEF SendPadding, WireInv, Net
  <2>. QED BY <2>1, <2>2 DEF StartInv, IsPad, JustStarted
<1>. QED BY <1>1, <1>2, <1>3, <1>4, <1>5, <1>6, <1>7, <1>8
         DEF Network, SendInside, SendClose

-----------------------------------------------------------------------------
(* What p_fsm makes of the word. *)
LEMMA FsmMoves ==
  ASSUME AsDeployed, WireInv, Fsm
  PROVE  /\ state = "IDLE" =>
              state' = (IF fsm_in.sof THEN "HEADER" ELSE "IDLE") /\ count' = 0
         /\ state = "HEADER" =>
              /\ state' = IF fsm_in.eof THEN "IDLE"
                          ELSE IF ~fsm_in.dvalid THEN "HEADER"
                          ELSE IF HeaderRejected(count, fsm_in.data) THEN "IDLE"
                          ELSE IF count = HeaderWords - 1 THEN "SUBFRAME_HEADER"
                          ELSE "HEADER"
              /\ count' = IF ~fsm_in.eof /\ fsm_in.dvalid THEN count + 1 ELSE count
         /\ state = "SUBFRAME_HEADER" =>
              state' = IF fsm_in.eof THEN "IDLE"
                       ELSE IF fsm_in.escape THEN "PAYLOAD" ELSE "SUBFRAME_HEADER"
         /\ state = "PAYLOAD" =>
              state' = IF fsm_in.eof THEN "IDLE"
                       ELSE IF fsm_in.escape /\ ~IsSeq THEN "EOF" ELSE "PAYLOAD"
         /\ state = "EOF" => state' = "IDLE"
<1>0. /\ fsm_in.sof \in BOOLEAN /\ fsm_in.eof \in BOOLEAN /\ fsm_in.dvalid \in BOOLEAN
      /\ fsm_in.escape \in BOOLEAN
      /\ fsm_in.escape => fsm_in.dvalid
      BY DEF WireInv, Wire
<1>1. CASE Idle
      BY <1>0, <1>1 DEF Idle
<1>2. CASE Header
  <2>1. HeaderRejected(count, fsm_in.data) \in BOOLEAN
        BY DEF HeaderRejected, DestRejected
  <2>2. CASE fsm_in.eof
        BY <1>0, <1>2, <2>1, <2>2 DEF Header
  <2>3. CASE ~fsm_in.eof /\ ~fsm_in.dvalid
        BY <1>0, <1>2, <2>1, <2>3 DEF Header
  <2>4. CASE ~fsm_in.eof /\ fsm_in.dvalid /\ HeaderRejected(count, fsm_in.data)
    <3>1. count # HeaderWords - 1
          BY <2>4 DEF HeaderRejected, AsDeployed
    <3>. QED BY <1>0, <1>2, <2>1, <2>4, <3>1 DEF Header
  <2>5. CASE ~fsm_in.eof /\ fsm_in.dvalid /\ ~HeaderRejected(count, fsm_in.data)
        BY <1>0, <1>2, <2>1, <2>5 DEF Header
  <2>. QED BY <1>0, <2>2, <2>3, <2>4, <2>5
<1>3. CASE SubframeHeader
      BY <1>0, <1>3 DEF SubframeHeader
<1>4. CASE Payload
  <2>1. PadWord.kind = "0bad"
        BY DEF PadWord
  <2>2. CASE PayloadEof
        BY <1>0, <1>4, <2>2 DEF Payload, PayloadEof
  <2>3. CASE PayloadEscape
        BY <1>0, <1>4, <2>1, <2>3 DEF Payload, PayloadEscape, IsSeq
  <2>4. CASE PayloadWord \/ PayloadGap
        BY <1>0, <1>4, <2>4 DEF Payload, PayloadWord, PayloadGap
  <2>. QED BY <1>4, <2>2, <2>3, <2>4 DEF Payload
<1>5. CASE Eof
      BY <1>5 DEF Eof
<1>. QED BY <1>1, <1>2, <1>3, <1>4, <1>5 DEF Fsm

(* Where p_fsm is when it has taken the word and the next one is not yet   *)
(* chosen. *)
Caught(s, c) ==
  /\ s \in {"IDLE", "EOF"} => net.phase \in {"none", "padding"} \/ ~Mine
  /\ s = "EOF" => net.phase # "none"
  /\ s = "HEADER" => /\ ~net.ignored /\ net.phase = "header" /\ net.n = c
                     /\ HeaderPassed(c)
  /\ s = "SUBFRAME_HEADER" => Mine /\ net.phase = "start"
  /\ s = "PAYLOAD" => Mine /\ net.phase \in {"payload", "closing"}

LEMMA FsmCatchesUp ==
  ASSUME AsDeployed, TypeInv, StartInv, SyncInv, Fsm
  PROVE  Caught(state', count')
<1>0. /\ fsm_in.sof \in BOOLEAN /\ fsm_in.eof \in BOOLEAN /\ fsm_in.dvalid \in BOOLEAN
      /\ fsm_in.escape \in BOOLEAN
      /\ fsm_in.escape => fsm_in.dvalid
      /\ fsm_in.eof => net.phase = "none"
      /\ count \in Nat /\ state \in States
      BY FrameAssumption DEF TypeInv, WireInv, Wire, RegsOK
<1>1. CASE state = "IDLE"
      BY <1>0, <1>1, FsmMoves DEF TypeInv, SyncInv, Caught, HeaderPassed
<1>2. CASE state = "HEADER"
  <2>1. CASE fsm_in.eof
        BY <1>0, <1>2, <2>1, FsmMoves DEF TypeInv, Caught
  <2>2. CASE ~fsm_in.eof /\ ~fsm_in.dvalid
        BY <1>0, <1>2, <2>2, FsmMoves DEF TypeInv, SyncInv, Caught
  <2>3. CASE ~fsm_in.eof /\ fsm_in.dvalid
    <3>0. /\ fsm_in.data.kind = HeaderKind(count) /\ HeaderPassed(count) /\ ~net.ignored
          /\ net.phase # "none"
          BY <1>2, <2>3 DEF SyncInv
    <3>1. CASE HeaderRejected(count, fsm_in.data)
      <4>1. ~Own
            BY <1>0, <3>0, <3>1 DEF HeaderRejected, DestRejected, HeaderKind, Own
      <4>. QED BY <1>0, <1>2, <2>3, <3>1, <4>1, FsmMoves DEF TypeInv, Caught, Mine
    <3>2. CASE ~HeaderRejected(count, fsm_in.data)
      <4>1. HeaderPassed(count + 1)
        <5>1. net.addr.dest \in {"local", "ffff", "other"}
              BY <3>0, RxAssumption DEF TypeInv, WireInv
        <5>2. count = 0 => AcceptBroadcasts \/ net.addr.dest # "local"
              BY <1>0, <3>0, <3>2, <5>1 DEF HeaderRejected, DestRejected, HeaderKind
        <5>3. /\ count + 1 > 3 /\ FilterRemote => net.addr.src = "remote"
              /\ count + 1 > 6 => net.addr.type = "ethertype"
              BY <1>0, <3>0, <3>2 DEF HeaderRejected, HeaderPassed, HeaderKind
        <5>. QED BY <1>0, <3>0, <5>2, <5>3 DEF HeaderPassed
      <4>2. CASE count = HeaderWords - 1
        <5>1. Own
              BY <4>1, <4>2 DEF Own, HeaderPassed, AsDeployed
        <5>2. net.phase = "start"
              BY <1>0, <1>2, <2>3, <4>2 DEF SyncInv, AsDeployed
        <5>. QED BY <1>0, <1>2, <2>3, <3>0, <3>2, <4>2, <5>1, <5>2, FsmMoves
                 DEF TypeInv, Caught, Mine
      <4>3. CASE count # HeaderWords - 1
        <5>1. net.phase = "header" /\ net.n = count + 1
              BY <1>0, <1>2, <2>3, <4>3 DEF SyncInv
        <5>. QED BY <1>0, <1>2, <2>3, <3>0, <3>2, <4>1, <4>3, <5>1, FsmMoves
                 DEF TypeInv, Caught
      <4>. QED BY <4>2, <4>3
    <3>. QED BY <3>1, <3>2
  <2>. QED BY <1>0, <2>1, <2>2, <2>3
<1>3. CASE state = "SUBFRAME_HEADER"
      BY <1>0, <1>3, FsmMoves DEF TypeInv, SyncInv, Caught
<1>4. CASE state = "PAYLOAD"
  <2>1. IsSeq \in BOOLEAN /\ IsPad \in BOOLEAN /\ (IsSeq => fsm_in.escape)
        BY DEF IsSeq, IsPad
  <2>2. CASE fsm_in.eof
        BY <1>0, <1>4, <2>2, FsmMoves DEF TypeInv, Caught
  <2>3. CASE ~fsm_in.eof /\ ~fsm_in.escape
    <3>1. Mine /\ net.phase \in {"payload", "closing"}
          BY <1>0, <1>4, <2>1, <2>3 DEF SyncInv, IsPad, IsBad
    <3>. QED BY <1>0, <1>4, <2>3, <3>1, FsmMoves DEF TypeInv, Caught
  <2>4. CASE ~fsm_in.eof /\ IsSeq
    <3>1. ~IsPad /\ ~IsBad
          BY <2>4, KnownWords DEF IsSeq, IsPad, IsBad
    <3>2. Mine /\ net.phase = "payload"
          BY <1>0, <1>4, <2>1, <2>4, <3>1 DEF SyncInv
    <3>. QED BY <1>0, <1>4, <2>4, <3>2, FsmMoves DEF TypeInv, Caught
  <2>5. CASE ~fsm_in.eof /\ fsm_in.escape /\ ~IsSeq
    <3>1. net.phase = "padding" \/ (~Mine /\ net.phase # "none")
          BY <1>0, <1>4, <2>1, <2>5 DEF SyncInv
    <3>. QED BY <1>0, <1>4, <2>5, <3>1, FsmMoves DEF TypeInv, Caught
  <2>. QED BY <1>0, <2>1, <2>2, <2>3, <2>4, <2>5
<1>5. CASE state = "EOF"
      BY <1>0, <1>5, FsmMoves DEF TypeInv, SyncInv, Caught
<1>. QED BY <1>0, <1>1, <1>2, <1>3, <1>4, <1>5 DEF States

LEMMA SyncStep ==
  ASSUME AsDeployed, TypeInv, StartInv, SyncInv, Fsm, DelayAccept,
         NEW dreq, NEW shown, Network(dreq, shown)
  PROVE  SyncInv'
<1> USE FrameAssumption
<1>0. /\ Caught(state', count')
      /\ net \in Net /\ state' \in States /\ count' \in Nat
      /\ state' = "HEADER" => count' < HeaderWords
      /\ ~NoWord.sof /\ ~NoWord.eof /\ ~NoWord.dvalid /\ ~NoWord.escape
      /\ net.code => net.phase \in {"start", "payload", "closing", "padding"}
      /\ HeaderWords = 9
  <2>1. RegsOK'
        BY RegsStep DEF TypeInv
  <2>2. state' \in States /\ count' \in Nat /\ (state' = "HEADER" => count' < HeaderWords)
        BY <2>1 DEF RegsOK
  <2>. QED BY <2>2, FsmCatchesUp, WordsOfTheWire DEF TypeInv, WireInv, AsDeployed
<1>1. CASE Silence \/ SendCode
  <2>1. fsm_in' = NoWord /\ net'.phase = net.phase /\ net'.addr = net.addr
        /\ net'.ignored = net.ignored /\ net'.n = net.n
        BY <1>0, <1>1 DEF Silence, SendCode, Net
  <2>. QED BY <1>0, <2>1 DEF SyncInv, Caught, Mine, Own, HeaderPassed, IsPad, IsBad, IsSeq
<1>2. CASE SendSof
  <2>1. fsm_in'.sof /\ net.phase = "none"
        BY <1>2 DEF SendSof, NoWord
  <2>2. net'.phase = "header" /\ net'.n = 0 /\ ~net'.ignored
        BY <1>0, <1>2 DEF SendSof, Net
  <2>3. state' = "IDLE"
        BY <1>0, <2>1 DEF Caught, States
  <2>. QED BY <1>0, <2>1, <2>2, <2>3 DEF SyncInv

<1>3. CASE SendHeader
  <2>1. /\ ~fsm_in'.sof /\ ~fsm_in'.eof /\ ~fsm_in'.escape /\ fsm_in'.dvalid
        /\ fsm_in'.data.kind = HeaderKind(net.n)
    <3>1. net.addr \in Addresses
          BY <1>3 DEF SendHeader, TypeInv, WireInv
    <3>2. HeaderKind(net.n) \in Kinds
          BY <3>1, RxAssumption DEF Kinds, HeaderKind
    <3> DEFINE w == [kind |-> HeaderKind(net.n), v |-> 0]
    <3>3. w \in Word /\ w.kind = HeaderKind(net.n)
          BY <3>2 DEF Word
    <3>4. fsm_in' = Plain(w)
          BY <1>3 DEF SendHeader
    <3> HIDE DEF w
    <3>. QED BY <3>3, <3>4, WordsOfTheWire
  <2>2. /\ net'.addr = net.addr /\ net'.ignored = net.ignored /\ net.phase = "header"
        /\ net.n \in Nat
        /\ IF net.n = HeaderWords - 1 THEN net'.phase = "start"
           ELSE net'.phase = "header" /\ net'.n = net.n + 1
    <3>1. CASE net' = [net EXCEPT !.phase = "start", !.n = 0] /\ net.n = HeaderWords - 1
          BY <1>0, <1>3, <3>1 DEF SendHeader, Net
    <3>2. CASE net' = [net EXCEPT !.n = net.n + 1] /\ net.n # HeaderWords - 1
          BY <1>0, <1>3, <3>2 DEF SendHeader, Net
    <3>. QED BY <1>3, <3>1, <3>2 DEF SendHeader
  <2>3. state' \in {"IDLE", "EOF"} => ~Mine
        BY <1>0, <2>2 DEF Caught
  <2>4. state' = "HEADER" => net.n = count' /\ HeaderPassed(count') /\ ~net.ignored
        BY <1>0 DEF Caught
  <2>5. state' \in {"IDLE", "EOF", "HEADER"}
        BY <1>0, <2>2 DEF Caught, States
  <2>6. Mine' = Mine /\ (HeaderPassed(count))' = HeaderPassed(count')
        /\ (HeaderKind(count))' = HeaderKind(count')
        BY <2>2 DEF Mine, Own, HeaderPassed, HeaderKind
  <2>. QED BY <1>0, <2>1, <2>2, <2>3, <2>4, <2>5, <2>6 DEF SyncInv
<1>4. CASE SendData \/ SendCrc
  <2>1. /\ ~fsm_in'.sof /\ ~fsm_in'.eof /\ ~fsm_in'.escape
        /\ net.phase = "payload" /\ net'.phase \in {"payload", "closing"}
        /\ net'.addr = net.addr /\ net'.ignored = net.ignored
    <3>1. CASE SendData
          BY <3>1, DataOnTheWire DEF SendData, TypeInv
    <3>2. CASE SendCrc
          BY <3>2, <1>0, KnownWords, WordsOfTheWire DEF SendCrc, Net
    <3>. QED BY <1>4, <3>1, <3>2
  <2>2. Mine' = Mine
        BY <2>1 DEF Mine, Own
  <2>3. state' \in {"IDLE", "EOF", "PAYLOAD"}
        BY <1>0, <2>1 DEF Caught, States
  <2>. QED BY <1>0, <2>1, <2>2, <2>3 DEF SyncInv, Caught
<1>5. CASE SendBadControl
  <2>1. PICK w \in {Junk, SeqWord(0)} :
          /\ w = Junk \/ net.phase = "payload"
          /\ fsm_in' = Control(w)
          /\ net' = [net EXCEPT !.phase = "payload", !.n = 0, !.code = FALSE,
                                !.dirty = TRUE,
                                !.ignored = @ \/ (w = Junk /\ net.phase # "start")]
        BY <1>5 DEF SendBadControl
  <2>2. ~fsm_in'.sof /\ ~fsm_in'.eof /\ fsm_in'.escape /\ fsm_in'.data = w
        BY <2>1, KnownWords, WordsOfTheWire
  <2>3. /\ net'.addr = net.addr /\ net'.phase = "payload"
        /\ net'.ignored = (net.ignored \/ (w = Junk /\ net.phase # "start"))
        BY <1>0, <2>1 DEF Net
  <2>4. IF w = Junk THEN IsBad' ELSE IsSeq'
        BY <2>1, <2>2, KnownWords DEF IsBad, IsSeq, IsPad
  <2>5. /\ ~Mine => ~Mine'
        /\ w = Junk /\ net.phase # "start" => ~Mine'
        /\ w # Junk \/ net.phase = "start" => Mine' = Mine
        BY <2>3 DEF Mine, Own
  <2>6. net.phase \in {"start", "payload", "closing"}
        BY <1>5 DEF SendBadControl
  <2>. QED BY <1>0, <2>1, <2>2, <2>3, <2>4, <2>5, <2>6 DEF SyncInv, Caught, States
<1>6. CASE SendEof
  <2>1. fsm_in'.eof /\ ~fsm_in'.sof
        BY <1>6 DEF SendEof, NoWord
  <2>2. net'.phase = "none"
        BY <1>6, NobodySends DEF SendEof, Net
  <2>. QED BY <2>1, <2>2 DEF SyncInv
<1>7. CASE SendSubframe
  <2>1. ~fsm_in'.sof /\ ~fsm_in'.eof /\ fsm_in'.escape /\ IsSeq'
        BY <1>0, <1>7, KnownWords, WordsOfTheWire DEF SendSubframe, IsSeq, Net
  <2>2. net'.addr = net.addr /\ net'.ignored = net.ignored /\ net'.phase = "payload"
        /\ net.phase \in {"start", "closing"}
        BY <1>0, <1>7 DEF SendSubframe, Net
  <2>3. Mine' = Mine
        BY <2>2 DEF Mine, Own
  <2>. QED BY <1>0, <2>1, <2>2, <2>3 DEF SyncInv, Caught, States
<1>8. CASE SendPadding
  <2>1. ~fsm_in'.sof /\ ~fsm_in'.eof /\ fsm_in'.escape /\ IsPad'
        BY <1>0, <1>8, KnownWords, WordsOfTheWire DEF SendPadding, IsPad
  <2>2. net'.addr = net.addr /\ net'.ignored = net.ignored /\ net'.phase = "padding"
        /\ net.phase \in {"closing", "padding"}
        BY <1>0, <1>8 DEF SendPadding, Net
  <2>3. Mine' = Mine
        BY <2>2 DEF Mine, Own
  <2>. QED BY <1>0, <2>1, <2>2, <2>3 DEF SyncInv, Caught, States
<1>. QED BY <1>1, <1>2, <1>3, <1>4, <1>5, <1>6, <1>7, <1>8
         DEF Network, SendInside, SendClose

LEMMA StartReset == StartInv /\ WireInv /\ Reset => StartInv'
BY WordsOfTheWire DEF StartInv, Reset, JustStarted, WireInv, Net, IsPad

LEMMA SyncReset == WireInv /\ Reset => SyncInv'
<1>. SUFFICES ASSUME WireInv, Reset PROVE SyncInv'
     OBVIOUS
<1>1. net'.ignored /\ state' = "IDLE" /\ ~fsm_in'.sof
      BY WordsOfTheWire DEF WireInv, Reset, Net
<1>. QED BY <1>1 DEF SyncInv, Mine

-----------------------------------------------------------------------------
(* A control word comes after its escape code, and nothing breaks a        *)
(* subframe before its first word. *)
LEMMA CodeFirst ==
  ASSUME WireInv, NEW dreq, NEW shown, Network(dreq, shown)
  PROVE  fsm_in'.escape => net.code
<1>1. CASE Silence \/ SendCode
      BY <1>1, WordsOfTheWire DEF Silence, SendCode
<1>2. CASE SendSof \/ SendEof
      BY <1>2 DEF SendSof, SendEof, NoWord
<1>3. CASE SendHeader
  <2>1. net.addr \in Addresses
        BY <1>3 DEF SendHeader, WireInv
  <2>2. [kind |-> HeaderKind(net.n), v |-> 0] \in Word
        BY <2>1, RxAssumption DEF Kinds, HeaderKind, Word
  <2>. QED BY <1>3, <2>2, WordsOfTheWire DEF SendHeader
<1>4. CASE SendData
      BY <1>4, DataOnTheWire
<1>5. CASE SendCrc
      BY <1>5, KnownWords, WordsOfTheWire DEF SendCrc
<1>6. CASE SendBadControl \/ SendSubframe \/ SendPadding
      BY <1>6 DEF SendBadControl, SendSubframe, SendPadding
<1>. QED BY <1>1, <1>2, <1>3, <1>4, <1>5, <1>6 DEF Network, SendInside, SendClose

LEMMA StaysFresh ==
  ASSUME AsDeployed, WireInv, JustStarted, ~net.code,
         NEW dreq, NEW shown, Network(dreq, shown)
  PROVE  Fresh'
<1>0. net.phase = "payload" /\ net.n = 0 /\ block = <<>>
      BY DEF JustStarted
<1>1. CASE Silence
      BY <1>0, <1>1, WordsOfTheWire DEF Silence, Fresh, JustStarted
<1>2. CASE SendData
      BY <1>2, DataOnTheWire DEF Fresh
<1>3. CASE SendCrc
      BY <1>3, KnownWords, WordsOfTheWire DEF SendCrc, Fresh
<1>4. ~SendEof /\ ~SendCode
      BY DEF SendEof, SendCode, AsDeployed, JustStarted
<1>. QED BY <1>0, <1>1, <1>2, <1>3, <1>4 
         DEF Network, SendInside, SendClose, SendSof, SendHeader, SendBadControl,
             SendSubframe, SendPadding

LEMMA FlagStep ==
  ASSUME AsDeployed, TypeInv, StartInv, FlagInv, Fsm, DelayAccept,
         NEW dreq, NEW shown, Network(dreq, shown)
  PROVE  FlagInv'
<1>0. /\ fsm_in.sof \in BOOLEAN /\ fsm_in.eof \in BOOLEAN /\ fsm_in.dvalid \in BOOLEAN
      /\ fsm_in.escape \in BOOLEAN
      /\ fsm_in.escape => fsm_in.dvalid
      /\ net.code => ~fsm_in.dvalid
      /\ fsm_in'.escape => net.code
      /\ crc_match \in BOOLEAN
      BY CodeFirst DEF TypeInv, WireInv, Wire
<1>r. /\ fifo_dvalid \in BOOLEAN /\ fifo_accept \in BOOLEAN /\ fifo_accept_d0 \in BOOLEAN
      /\ fifo_drop \in BOOLEAN /\ pending_write \in BOOLEAN
      BY DEF TypeInv, RegsOK
<1>1. CASE Idle
      BY <1>0, <1>r, <1>1 DEF Idle, FlagInv, DelayAccept
<1>2. CASE Header
      BY <1>0, <1>r, <1>2 DEF Header, FlagInv, DelayAccept, packVars
<1>3. CASE SubframeHeader
      BY <1>0, <1>r, <1>3 DEF SubframeHeader, FlagInv, DelayAccept
<1>4. CASE Payload
  <2>1. state = "PAYLOAD"
        BY <1>4 DEF Payload
  <2>2. /\ fsm_in.eof \/ fsm_in.escape => ~fifo_accept /\ ~fifo_drop
        /\ fifo_accept \/ fifo_drop => ser_count = 0 /\ ~pending_write
        /\ ~(fifo_accept /\ fifo_drop)
        BY <2>1 DEF FlagInv, Fresh
  <2>3. CASE PayloadEof
        BY <1>0, <1>r, <2>1, <2>2, <2>3 DEF PayloadEof, FlagInv, DelayAccept
  <2>4. CASE PayloadEscape
    <3>1. ~fifo_accept /\ ~fifo_accept_d0' /\ fsm_in.escape
          BY <2>2, <2>4 DEF PayloadEscape, DelayAccept
    <3>2. CASE fsm_in.data.kind = "seq"
      <4>1. /\ state' = "PAYLOAD" /\ ser_count' = 0 /\ ~pending_write'
            /\ fifo_accept' = crc_match /\ fifo_drop' = ~crc_match
            BY <2>1, <2>4, <3>2, KnownWords DEF PayloadEscape
      <4>2. Fresh'
        <5>1. JustStarted /\ ~net.code
              BY <3>1, <3>2, KnownWords DEF StartInv, IsPad
        <5>. QED BY <5>1, StaysFresh DEF TypeInv
      <4>. QED BY <1>0, <3>1, <4>1, <4>2 DEF FlagInv
    <3>3. CASE fsm_in.data.kind # "seq"
      <4>1. /\ state' = "EOF"
            /\ (fifo_accept' \/ fifo_drop') /\ ~(fifo_accept' /\ fifo_drop')
        <5>1. CASE fsm_in.data = PadWord
          <6>1. state' = "EOF" /\ fifo_accept' = crc_match /\ fifo_drop' = ~crc_match
                BY <2>4, <3>3, <5>1 DEF PayloadEscape
          <6>. QED BY <1>0, <6>1
        <5>2. CASE fsm_in.data # PadWord
              BY <2>4, <3>3, <5>2 DEF PayloadEscape
        <5>. QED BY <5>1, <5>2
      <4>. QED BY <3>1, <4>1 DEF FlagInv
    <3>. QED BY <3>2, <3>3
  <2>5. CASE PayloadWord
    <3>1. ser_count = 0 => ser_count' = 1 /\ ~(ser_count = Subwords - 1)
          BY <2>5 DEF PayloadWord, AsDeployed
    <3>2. state' = "PAYLOAD" /\ ~fifo_accept' /\ ~fifo_drop' /\ fifo_accept_d0' = fifo_accept
          BY <2>1, <2>5 DEF PayloadWord, DelayAccept
    <3>3. fifo_accept => ~fifo_dvalid' /\ ~pending_write'
          BY <2>2, <2>5, <3>1 DEF PayloadWord
    <3>4. ~fsm_in'.escape
          BY <1>0, <2>5 DEF PayloadWord
    <3>. QED BY <2>2, <3>1, <3>2, <3>3, <3>4 DEF FlagInv
  <2>6. CASE PayloadGap
    <3>1. fifo_accept \/ fifo_drop => JustStarted /\ ~net.code
          BY <2>1, <2>6 DEF PayloadGap, FlagInv, Fresh
    <3>2. fifo_accept \/ fifo_drop => Fresh' /\ ~fsm_in'.escape
          BY <1>0, <3>1, StaysFresh DEF TypeInv
    <3>3. /\ state' = "PAYLOAD" /\ fifo_accept' = fifo_accept /\ fifo_drop' = fifo_drop
          /\ fifo_accept_d0' = fifo_accept /\ ~fifo_dvalid' /\ ser_count' = ser_count
          /\ pending_write' = pending_write
          BY <2>1, <2>6 DEF PayloadGap, DelayAccept
    <3>. QED BY <2>2, <3>2, <3>3 DEF FlagInv
  <2>. QED BY <1>4, <2>3, <2>4, <2>5, <2>6 DEF Payload
<1>5. CASE Eof
      BY <1>0, <1>r, <1>5 DEF Eof, FlagInv, DelayAccept
<1>. QED BY <1>1, <1>2, <1>3, <1>4, <1>5 DEF Fsm

LEMMA FlagReset == AsDeployed /\ FlagInv /\ Reset => FlagInv'
BY DEF AsDeployed, FlagInv, Reset, packVars, DelayAccept

-----------------------------------------------------------------------------
(* A word comes only on request, and only a write fills the buffer. *)
LEMMA WordOnRequest ==
  ASSUME NEW dreq \in BOOLEAN, NEW shown, Network(dreq, shown)
  PROVE  fsm_in'.dvalid => dreq
BY WordsOfTheWire DEF Network, Silence

LEMMA FullGrows ==
  ASSUME TypeInv, Reading \/ Waiting, full'
  PROVE  full \/ (fifo_dvalid /\ ~fifo_drop)
<1>1. SUFFICES ASSUME ~full, ~(fifo_dvalid /\ ~fifo_drop) PROVE FALSE
      OBVIOUS
<1>2. PICK left \in {committed, Tail(committed)} :
        /\ Write(left)
        /\ left = committed \/ committed # <<>>
      BY DEF Reading, Waiting, Fifo!Deliver
<1>3. /\ committed \in Seq(FifoWord) /\ pending \in Seq(FifoWord)
      /\ Len(committed) + Len(pending) < BufferSize
      /\ BufferSize \in Nat /\ RegsOK
      BY RxAssumption DEF TypeInv, BufOK
<1>4. left \in Seq(FifoWord) /\ Len(left) <= Len(committed)
  <2>1. CASE left = committed
        BY <1>3, <2>1
  <2>2. CASE left = Tail(committed) /\ committed # <<>>
        BY <1>3, <2>2
  <2>. QED BY <1>2, <2>1, <2>2
<1>5. /\ Len(left \o pending) = Len(left) + Len(pending)
      /\ pending \o <<>> = pending /\ Len(<<>>) = 0
      /\ Len(left) \in Nat /\ Len(committed) \in Nat /\ Len(pending) \in Nat
      BY <1>3, <1>4
<1>6. Len(committed) + Len(pending) < BufferSize - 1
      BY <1>1, <1>3, <1>5 DEF full
<1>7. CASE fifo_drop
  <2>1. committed' = left /\ pending' = <<>>
        BY <1>2, <1>3, <1>7, WriteCases DEF RegsOK
  <2>. QED BY <1>3, <1>4, <1>5, <1>6, <2>1 DEF full
<1>8. CASE ~fifo_drop
  <2>1. New = <<>>
        BY <1>1, <1>8 DEF New
  <2>2. \/ committed' = left \o pending /\ pending' = <<>>
        \/ committed' = left /\ pending' = pending
        BY <1>2, <1>3, <1>5, <1>8, <2>1, WriteCases
  <2>. QED BY <1>3, <1>4, <1>5, <1>6, <2>2 DEF full
<1>. QED BY <1>3, <1>7, <1>8 DEF RegsOK

LEMMA RoomStep ==
  ASSUME AsDeployed, TypeInv, FlagInv, RoomInv, Reading \/ Waiting
  PROVE  RoomInv'
<1> USE FrameAssumption
<1>0. Fsm /\ DelayAccept /\ Network(~full, valid)
      BY DEF Reading, Waiting, Clock
<1>1. full \in BOOLEAN /\ full' \in BOOLEAN
      BY DEF full
<1>2. /\ fsm_in.eof \in BOOLEAN /\ fsm_in.dvalid \in BOOLEAN /\ fsm_in.escape \in BOOLEAN
      /\ fsm_in.escape => fsm_in.dvalid
      /\ fsm_in'.escape => ~fsm_in.dvalid /\ ~fsm_in.eof
      /\ fsm_in'.dvalid => ~full
      /\ crc_match \in BOOLEAN
      BY <1>0, <1>1, CodeFirst, WordOnRequest DEF TypeInv, WireInv, Wire
<1>3. /\ fifo_dvalid \in BOOLEAN /\ fifo_drop \in BOOLEAN /\ pending_write \in BOOLEAN
      /\ ser_count \in 0 .. Subwords - 1 /\ Subwords \in Nat /\ Subwords >= 3
      BY DEF TypeInv, RegsOK, SubIndex, AsDeployed
<1>4. full' => full \/ (fifo_dvalid /\ ~fifo_drop)
      BY FullGrows
<1>5. CASE Idle
      BY <1>5 DEF Idle, RoomInv, NoOverrun
<1>6. CASE Header
      BY <1>6 DEF Header, RoomInv, NoOverrun, packVars, FlagInv
<1>7. CASE SubframeHeader
      BY <1>7 DEF SubframeHeader, RoomInv, NoOverrun, FlagInv
<1>8. CASE Payload
  <2>0. /\ state = "PAYLOAD"
        /\ fifo_dvalid => /\ ~pending_write /\ ser_count \in {Subwords - 1, 0}
                          /\ ~fsm_in.escape
        /\ full /\ fsm_in.dvalid /\ ~fsm_in.escape /\ pending_write => ser_count = 0
        /\ full /\ fsm_in.escape => ~pending_write
        BY <1>8 DEF Payload, RoomInv
  <2>1. CASE PayloadEof
        BY <1>8, <2>1 DEF PayloadEof, RoomInv, NoOverrun
  <2>2. CASE PayloadEscape
    <3>1. CASE fsm_in.data.kind = "seq" \/ fsm_in.data = PadWord
      <4>1. fifo_dvalid' = (pending_write /\ ~fifo_dvalid)
            BY <2>2, <3>1, KnownWords DEF PayloadEscape
      <4>2. ~(full' /\ fifo_dvalid')
            BY <1>1, <1>3, <1>4, <2>0, <2>2, <4>1 DEF PayloadEscape
      <4>3. state' = "PAYLOAD" => ~pending_write' /\ ser_count' = 0 
            BY <2>2, <3>1 DEF PayloadEscape
      <4>4. ~fsm_in'.escape
            BY <1>2, <2>2 DEF PayloadEscape
      <4>. QED BY <1>1, <4>2, <4>3, <4>4 DEF RoomInv, NoOverrun
    <3>2. CASE fsm_in.data.kind # "seq" /\ fsm_in.data # PadWord
          BY <2>2, <3>2 DEF PayloadEscape, RoomInv, NoOverrun
    <3>. QED BY <3>1, <3>2
  <2>3. CASE PayloadWord
    <3>1. /\ ser_count' = IF ser_count = Subwords - 1 THEN 0 ELSE ser_count + 1
          /\ fifo_dvalid' = (ser_count # Subwords - 1 /\ ser_count + 2 = Subwords /\ pending_write)
          /\ pending_write' = (ser_count = Subwords - 1 \/ (pending_write /\ ~fifo_dvalid'))
          /\ fsm_in.dvalid /\ ~fsm_in.escape
          BY <1>3, <2>3 DEF PayloadWord
    <3>2. ~(full' /\ fifo_dvalid')
          BY <1>1, <1>3, <1>4, <2>0, <3>1
    <3>3. ASSUME fifo_dvalid' PROVE ~pending_write' /\ ser_count' = Subwords - 1
      <4>1. ser_count # Subwords - 1 /\ ser_count = Subwords - 2
        <5>1. ser_count # Subwords - 1 /\ ser_count + 2 = Subwords
              BY <3>1, <3>3
        <5>. QED BY <1>3, <5>1
      <4>2. ~pending_write'
            BY <3>1, <3>3, <4>1
      <4>. QED BY <1>3, <3>1, <4>1, <4>2
    <3>4. ~fsm_in'.escape
          BY <1>2, <3>1
    <3>5. full' /\ fsm_in'.dvalid /\ pending_write' => ser_count' = 0
          BY <1>1, <1>2, <1>3, <1>4, <2>0, <3>1
    <3>. QED BY <1>1, <3>2, <3>3, <3>4, <3>5 DEF RoomInv, NoOverrun
  <2>4. CASE PayloadGap
    <3>1. ~fifo_dvalid' /\ pending_write' = pending_write /\ ser_count' = ser_count
          BY <2>4 DEF PayloadGap
    <3>2. full' /\ fsm_in'.dvalid => ~pending_write
          BY <1>1, <1>2, <1>3, <1>4, <2>0
    <3>3. fsm_in'.escape => fsm_in'.dvalid
          BY <1>0, WireStep DEF TypeInv, WireInv
    <3>. QED BY <1>1, <3>1, <3>2, <3>3 DEF RoomInv, NoOverrun
  <2>. QED BY <1>8, <2>1, <2>2, <2>3, <2>4 DEF Payload
<1>9. CASE Eof
      BY <1>9 DEF Eof, RoomInv, NoOverrun
<1>. QED BY <1>0, <1>5, <1>6, <1>7, <1>8, <1>9 DEF Fsm

LEMMA RoomReset == 
  ASSUME AsDeployed, ResetEdge
  PROVE  RoomInv'
<1>1. committed' = <<>> /\ pending' = <<>> /\ state' = "IDLE"
      BY DEF ResetEdge, Reset, Fifo!Clear
<1>2. ~full'
  <2>1. BufferSize - 1 >= 1 /\ Len(<<>>) = 0
        BY RxAssumption DEF AsDeployed
  <2>. QED BY <1>1, <2>1, RxAssumption DEF full
<1>. QED BY <1>1, <1>2 DEF RoomInv, NoOverrun

-----------------------------------------------------------------------------
(* The subword p_fsm waits for is the one the sender sends next. *)
LEMMA CountCaught ==
  ASSUME AsDeployed, TypeInv, StartInv, SyncInv, CountInv, Fsm, state' = "PAYLOAD"
  PROVE  /\ net.phase \in {"payload", "closing"}
         /\ net.phase = "payload" => ser_count' = net.n
         /\ net.phase = "closing" => ser_count' = 1 /\ crc_match = ~net.dirty
<1>0. /\ fsm_in.dvalid \in BOOLEAN /\ fsm_in.escape \in BOOLEAN
      /\ Subwords >= 3 /\ Subwords \in Nat /\ ser_count \in 0 .. Subwords - 1
      BY FrameAssumption DEF TypeInv, WireInv, Wire, RegsOK, SubIndex, AsDeployed
<1>1. net.phase \in {"payload", "closing"}
      BY FsmCatchesUp DEF Caught
<1>2. CASE SubframeHeader
  <2>1. ser_count' = 0 /\ ~fsm_in.eof /\ fsm_in.escape /\ state = "SUBFRAME_HEADER"
        BY <1>2 DEF SubframeHeader
  <2>2. JustStarted
        BY <1>1, <2>1 DEF StartInv
  <2>. QED BY <2>1, <2>2 DEF JustStarted
<1>3. CASE Payload
  <2>1. CASE PayloadEscape
    <3>1. ser_count' = 0 /\ fsm_in.escape
          BY <2>1 DEF PayloadEscape
    <3>2. JustStarted
          BY <1>1, <3>1 DEF StartInv
    <3>. QED BY <3>1, <3>2 DEF JustStarted
  <2>2. CASE PayloadWord
    <3>1. /\ ser_count' = IF ser_count = Subwords - 1 THEN 0 ELSE ser_count + 1
          /\ fsm_in.dvalid /\ Open
          BY <1>3, <2>2 DEF Payload, PayloadWord, Open
    <3>. QED BY <1>0, <1>1, <3>1 DEF CountInv
  <2>3. CASE PayloadGap
    <3>1. ser_count' = ser_count /\ ~fsm_in.dvalid /\ ~fsm_in.eof
          BY <2>3 DEF PayloadGap
    <3>2. Open
          BY <1>3, <3>1 DEF Payload, Open, TypeInv, WireInv
    <3>. QED BY <1>0, <1>1, <3>1, <3>2 DEF CountInv
  <2>. QED BY <1>3, <2>1, <2>2, <2>3 DEF Payload, PayloadEof
<1>. QED BY <1>2, <1>3 DEF Fsm, Idle, Header, Eof

LEMMA CountStep ==
  ASSUME AsDeployed, TypeInv, StartInv, SyncInv, CountInv, Fsm,
         NEW dreq, NEW shown, Network(dreq, shown)
  PROVE  CountInv'
<1> SUFFICES ASSUME Open' PROVE
      /\ net'.phase = "payload" =>
           IF fsm_in'.dvalid
           THEN /\ net'.n = IF ser_count' = Subwords - 1 THEN 0 ELSE ser_count' + 1
                /\ block' # <<>>
           ELSE ser_count' = net'.n
      /\ net'.phase = "closing" => /\ ser_count' = IF fsm_in'.dvalid THEN 0 ELSE 1
                                   /\ crc_match' = ~net'.dirty
    BY DEF CountInv
<1>1. state' = "PAYLOAD" /\ ~fsm_in'.eof /\ ~fsm_in'.escape
      BY DEF Open
<1>2. /\ net.phase \in {"payload", "closing"}
      /\ net.phase = "payload" => ser_count' = net.n
      /\ net.phase = "closing" => ser_count' = 1 /\ crc_match = ~net.dirty
      BY <1>1, CountCaught
<1>3. net \in Net /\ crc_match \in BOOLEAN /\ (net.phase = "payload" => net.n < Subwords)
      /\ net.dirty \in BOOLEAN
      BY DEF TypeInv, WireInv, Net
<1>4. CASE Silence
      BY <1>2, <1>4, WordsOfTheWire DEF Silence
<1>5. CASE SendCode
  <2>1. net'.phase = net.phase /\ net'.n = net.n /\ net'.dirty = net.dirty
        BY <1>3, <1>5 DEF SendCode, Net
  <2>2. fsm_in' = NoWord /\ (net.phase = "closing" => crc_match' = crc_match)
        BY <1>3, <1>5 DEF SendCode
  <2>. QED BY <1>2, <2>1, <2>2, WordsOfTheWire
<1>6. CASE SendData
  <2>1. /\ net'.phase = "payload" /\ fsm_in'.dvalid /\ block' # <<>>
        /\ net'.n = (net.n + 1) % Subwords /\ net.phase = "payload"
        BY <1>6, DataOnTheWire DEF TypeInv, SendData
  <2>2. (net.n + 1) % Subwords = IF net.n = Subwords - 1 THEN 0 ELSE net.n + 1
    <3>1. net.n \in Nat /\ net.n < Subwords /\ Subwords \in Nat \ {0}
          BY <1>3, <2>1, FrameAssumption DEF Net
    <3>. QED BY <3>1
  <2>. QED BY <1>2, <2>1, <2>2
<1>7. CASE SendCrc
  <2>1. PICK damaged \in BOOLEAN :
          /\ fsm_in' = Plain(IF damaged THEN Junk ELSE CrcWord(0))
          /\ net' = [net EXCEPT !.phase = "closing", !.dirty = @ \/ damaged]
          /\ crc_match' = (~damaged /\ ~net.dirty)
        BY <1>7 DEF SendCrc
  <2>2. fsm_in'.dvalid
        BY <2>1, KnownWords, WordsOfTheWire
  <2>3. net'.phase = "closing" /\ net'.dirty = (net.dirty \/ damaged)
        BY <1>3, <2>1 DEF Net
  <2>. QED BY <1>2, <1>3, <1>7, <2>1, <2>2, <2>3 DEF SendCrc
<1>8. ~SendEof
      BY <1>1 DEF SendEof, NoWord
<1>9. ~SendBadControl /\ ~SendSubframe /\ ~SendPadding
  <2>1. \A w \in Word : fsm_in' # Control(w)
        BY <1>1, WordsOfTheWire
  <2>2. net.seq \in Nat
        BY <1>3 DEF Net
  <2>. QED BY <2>1, <2>2, KnownWords DEF SendBadControl, SendSubframe, SendPadding
<1>. QED BY <1>2, <1>4, <1>5, <1>6, <1>7, <1>8, <1>9
         DEF Network, SendInside, SendClose, SendSof, SendHeader

LEMMA CountReset == AsDeployed /\ Reset => CountInv' /\ PackInv'
BY DEF AsDeployed, Reset, CountInv, PackInv, Open

-----------------------------------------------------------------------------
(* Words of a block. *)
LEMMA PackRight ==
  ASSUME NEW c \in Values, NEW i \in SubIndex, NEW p, i = 0 \/ p = c
  PROVE  Pack(p, Subword(c, i), i) = c
BY SubwordIsWord DEF Pack

LEMMA BegunEmpty == Begun(0) = <<>>
BY DEF Begun

LEMMA BegunIsSeq ==
  ASSUME block \in Seq(Values), NEW n \in Nat, n <= Len(block)
  PROVE  Begun(n) \in Seq(FifoWord) /\ Len(Begun(n)) = n
<1>1. \A i \in 1 .. n : Marked(i = 1, FALSE, block[i]) \in FifoWord
      BY DEF Marked, FifoWord, Packed
<1>2. Begun(n) \in [1 .. n -> FifoWord]
      BY <1>1 DEF Begun
<1>. QED BY <1>2

LEMMA BegunGrows ==
  ASSUME block \in Seq(Values), NEW n \in Nat, n < Len(block)
  PROVE  Begun(n + 1) = Begun(n) \o <<Marked(n = 0, FALSE, block[n + 1])>>
<1> DEFINE w == Marked(n = 0, FALSE, block[n + 1])
           s == Begun(n)
           t == Begun(n + 1)
<1>1. s \in Seq(FifoWord) /\ Len(s) = n /\ t \in Seq(FifoWord) /\ Len(t) = n + 1
      BY BegunIsSeq
<1>2. w \in FifoWord
      BY DEF Marked, FifoWord, Packed
<1>3. /\ \A i \in 1 .. n : s[i] = Marked(i = 1, FALSE, block[i])
      /\ \A i \in 1 .. n + 1 : t[i] = Marked(i = 1, FALSE, block[i])
      BY DEF Begun
<1>4. t[n + 1] = w
  <2>1. (n + 1 = 1) = (n = 0) /\ n + 1 \in 1 .. n + 1
        OBVIOUS
  <2>. QED BY <1>3, <2>1
<1>5. \A i \in 1 .. n : t[i] = s[i]
  <2>1. \A i \in 1 .. n : i \in 1 .. n + 1
        OBVIOUS
  <2>. HIDE DEF s, t
  <2>. QED BY <1>3, <2>1
<1>. HIDE DEF w, s, t
<1>6. t = s \o <<w>>
      BY <1>1, <1>2, <1>4, <1>5
<1>. QED BY <1>6 DEF w, s, t

LEMMA OwedIsBegun ==
  ASSUME block \in Seq(Values)
  PROVE  Owed = IF block = <<>> THEN <<>>
                ELSE Begun(Len(block) - 1)
                       \o <<Marked(Len(block) = 1, TRUE, block[Len(block)])>>
<1> DEFINE b == Len(block)
<1>1. CASE block = <<>>
      BY <1>1 DEF Owed
<1>2. CASE block # <<>>
  <2> DEFINE n == b - 1
             w == Marked(b = 1, TRUE, block[b])
             s == Begun(n)
  <2>1. b \in Nat /\ n \in Nat /\ b = n + 1
        BY <1>2
  <2>2. s \in Seq(FifoWord) /\ Len(s) = n
    <3>1. n <= Len(block)
          BY <2>1
    <3>. HIDE DEF n
    <3>. QED BY <2>1, <3>1, BegunIsSeq
  <2>3. w \in FifoWord
        BY <2>1 DEF Marked, FifoWord, Packed
  <2>4. Owed = [i \in 1 .. b |-> Marked(i = 1, i = b, block[i])]
        BY DEF Owed
  <2>5. \A i \in 1 .. n : s[i] = Marked(i = 1, FALSE, block[i])
        BY DEF Begun
  <2>6. \A i \in 1 .. n : Owed[i] = s[i]
    <3>1. \A i \in 1 .. n : i \in 1 .. b /\ i # b
      <4>. HIDE DEF b, n
      <4>. QED BY <2>1
    <3>. QED BY <2>4, <2>5, <3>1
  <2>7. Owed[b] = w
    <3>1. b \in 1 .. b /\ (b = b) = TRUE
          BY <2>1
    <3>. QED BY <2>4, <3>1
  <2>8. \A i \in 1 .. b : Owed[i] \in FifoWord
    <3>. HIDE DEF b, n, w, s
    <3>1. \A i \in 1 .. n : s[i] \in FifoWord
          BY <2>2
    <3>2. \A i \in 1 .. b : i \in 1 .. n \/ i = b
          BY <2>1
    <3>. QED BY <2>3, <2>6, <2>7, <3>1, <3>2
  <2>9. Owed \in Seq(FifoWord) /\ Len(Owed) = b
    <3>1. DOMAIN Owed = 1 .. b /\ Owed = [i \in 1 .. b |-> Owed[i]]
          BY <2>4
    <3>. QED BY <2>1, <2>8, <3>1
  <2>. HIDE DEF b, n, w, s
  <2>10. Owed = s \o <<w>>
        BY <2>1, <2>2, <2>3, <2>6, <2>7, <2>9
  <2>. QED BY <1>2, <2>10 DEF b, n, w, s
<1>. QED BY <1>1, <1>2

LEMMA PendingNext ==
  ASSUME TypeInv, Reading \/ Waiting
  PROVE  pending' = IF fifo_drop THEN <<>>
                    ELSE IF fifo_accept_d0 THEN New ELSE pending \o New
<1>1. RegsOK /\ fifo_drop \in BOOLEAN /\ fifo_accept_d0 \in BOOLEAN
      BY DEF TypeInv, RegsOK
<1>2. PICK left : Write(left)
      BY DEF Reading, Waiting
<1>. QED BY <1>1, <1>2, WriteCases

(* What is stored of the open subframe grows by the word that is written. *)
LEMMA StoredGrows ==
  ASSUME AsDeployed, TypeInv, FlagInv, RoomInv', Reading \/ Waiting, DelayAccept,
         Payload, PayloadWord \/ PayloadGap
  PROVE  /\ fifo_dvalid' => ~Gone
         /\ Stored' = IF fifo_dvalid' THEN Stored \o <<fifo_din'>> ELSE Stored
<1>0. /\ fifo_dvalid \in BOOLEAN /\ fifo_dvalid' \in BOOLEAN
      /\ fifo_drop \in BOOLEAN /\ fifo_drop' \in BOOLEAN
      /\ fifo_accept \in BOOLEAN /\ fifo_accept' \in BOOLEAN
      /\ fifo_accept_d0 \in BOOLEAN /\ fifo_accept_d0' \in BOOLEAN
      /\ pending_write \in BOOLEAN
      /\ pending \in Seq(FifoWord) /\ New \in Seq(FifoWord)
  <2>1. TypeInv'
        BY TypeInvInductive DEF Next
  <2>. QED BY <2>1, NewTyped DEF TypeInv, RegsOK, BufOK
<1>1. /\ state = "PAYLOAD" /\ fifo_accept_d0' = fifo_accept
      /\ (PayloadWord /\ ~fifo_accept' /\ ~fifo_drop')
           \/ (fifo_accept' = fifo_accept /\ fifo_drop' = fifo_drop /\ ~fifo_dvalid')
      BY DEF Payload, PayloadWord, PayloadGap, DelayAccept
<1>2. fifo_dvalid' => PayloadWord /\ pending_write /\ ~fifo_drop'
      BY <1>1 DEF PayloadWord
<1>3. New' = IF fifo_dvalid' THEN <<fifo_din'>> ELSE <<>>
  <2>1. fifo_dvalid' => ~full'
        BY <1>2 DEF RoomInv, NoOverrun
  <2>. QED BY <1>0, <2>1 DEF New
<1>4. CASE Gone
  <2>1. ~fifo_dvalid'
        BY <1>1, <1>2, <1>4 DEF FlagInv, Gone
  <2>2. New' = <<>> /\ Stored = <<>>
        BY <1>3, <1>4, <2>1 DEF Stored
  <2>3. CASE fifo_accept
    <3>1. Gone'
          BY <1>1, <2>3 DEF Gone
    <3>. QED BY <2>1, <2>2, <3>1 DEF Stored
  <2>4. CASE ~fifo_accept
    <3>1. pending' = <<>>
      <4>1. CASE fifo_drop
            BY <4>1, PendingNext
      <4>2. CASE ~fifo_drop
        <5>1. fifo_accept_d0 /\ ~fifo_dvalid
              BY <1>4, <2>4, <4>2 DEF Gone, FlagInv
        <5>. QED BY <4>2, <5>1, PendingNext DEF New
      <4>. QED BY <4>1, <4>2
    <3>. QED BY <2>1, <2>2, <3>1 DEF Stored
  <2>. QED BY <1>0, <2>3, <2>4
<1>5. CASE ~Gone
  <2>1. ~Gone' /\ pending' = pending \o New
        BY <1>0, <1>1, <1>5, PendingNext DEF Gone
  <2>2. Stored' = (pending \o New) \o New' /\ Stored = pending \o New
        BY <1>5, <2>1 DEF Stored
  <2>3. (pending \o New) \o <<>> = pending \o New
    <3>1. pending \o New \in Seq(FifoWord)
          BY <1>0
    <3>. QED BY <3>1
  <2>. QED BY <1>0, <1>3, <1>5, <2>2, <2>3
<1>. QED BY <1>4, <1>5

(* The data words of the open subframe that p_fsm will have completed once  *)
(* it has taken the word on the wire.                                       *)
Finished == IF net.phase = "payload" /\ net.n # 0
            THEN Len(block) - 1 ELSE Len(block)

(* The packing once p_fsm has taken the word, the next one not yet chosen. *)
PackedWell(written) ==
  /\ pending_write' = (Finished # 0 /\ ser_count' # Subwords - 1)
  /\ pending_write' => fifo_data' = block[Finished]
  /\ written = IF pending_write' THEN Finished - 1 ELSE Finished
  /\ got_next_subframe' = (written = 0)
  /\ Stored' = Begun(written)
  /\ net.phase = "payload" /\ ser_count' # 0 => pack_data' = block[Len(block)]

LEMMA PackCaughtWord ==
  ASSUME AsDeployed, TypeInv, FlagInv, RoomInv, RoomInv', CountInv, PackInv,
         Reading \/ Waiting, DelayAccept,
         Payload, PayloadWord, Open, ~net.dirty, net.phase \in {"payload", "closing"}
  PROVE  \E written \in Nat : PackedWell(written)
<1> DEFINE b == Len(block)
           d == IF net.phase = "payload" THEN b - 1 ELSE b
           w == IF pending_write THEN d - 1 ELSE d
<1>0. /\ Subwords >= 3 /\ Subwords \in Nat /\ ser_count \in 0 .. Subwords - 1
      /\ pending_write \in BOOLEAN /\ fifo_dvalid \in BOOLEAN /\ got_next_subframe \in BOOLEAN
      /\ fifo_dvalid' \in BOOLEAN /\ pending_write' \in BOOLEAN
      /\ block \in Seq(Values) /\ b \in Nat
      /\ fsm_in.dvalid = TRUE
  <2>1. TypeInv'
        BY TypeInvInductive DEF Next
  <2>. QED BY <2>1, FrameAssumption DEF TypeInv, WireInv, Wire, RegsOK, SubIndex, AsDeployed, PayloadWord
<1>1. /\ net.phase = "payload" =>
            /\ net.n = IF ser_count = Subwords - 1 THEN 0 ELSE ser_count + 1
            /\ block # <<>>
      /\ net.phase = "closing" => ser_count = 0
      BY <1>0 DEF CountInv
<1>2. d \in Nat /\ d <= b
      BY <1>0, <1>1
<1>3. Packing(d)
  <2>1. d = IF net.phase = "payload" /\ (fsm_in.dvalid \/ net.n # 0) THEN b - 1 ELSE b
        BY <1>0
  <2>. QED BY <2>1 DEF PackInv
<1>4. /\ pending_write = (d # 0 /\ ser_count # Subwords - 1)
      /\ pending_write => fifo_data = block[d]
      /\ got_next_subframe = (w = 0)
      /\ Stored = Begun(w)
      /\ net.phase = "payload" /\ ser_count # 0 => pack_data = block[b]
      BY <1>3 DEF Packing
<1>5. w \in Nat /\ w <= d
  <2>1. pending_write => d # 0
        BY <1>4
  <2>. HIDE DEF d
  <2>. QED BY <1>0, <1>2, <2>1
<1>6. /\ ser_count' = IF ser_count = Subwords - 1 THEN 0 ELSE ser_count + 1
      /\ fifo_dvalid' = (ser_count # Subwords - 1 /\ ser_count + 2 = Subwords /\ pending_write)
      /\ pending_write' = (ser_count = Subwords - 1 \/ (pending_write /\ ~fifo_dvalid'))
      /\ got_next_subframe' = (got_next_subframe /\ ~fifo_dvalid')
      /\ pack_data' = Pack(pack_data, fsm_in.data, ser_count)
      /\ fifo_data' = IF ser_count = Subwords - 1 THEN pack_data' ELSE fifo_data
      /\ fifo_last' = FALSE
      /\ fifo_sync' = (got_next_subframe /\ ~fifo_dvalid)
      BY <1>0 DEF Payload, PayloadWord
<1>7. net.phase = "payload" => pack_data' = block[b]
  <2>1. SUFFICES ASSUME net.phase = "payload" PROVE pack_data' = block[b]
        OBVIOUS
  <2>2. block[b] \in Values /\ ser_count \in SubIndex
        BY <1>0, <1>1, <2>1 DEF SubIndex
  <2>3. fsm_in.data = Subword(block[b], ser_count)
        BY <1>0, <2>1 DEF PackInv
  <2>. QED BY <1>4, <1>6, <2>1, <2>2, <2>3, PackRight
<1>8. Stored' = IF fifo_dvalid' THEN Stored \o <<fifo_din'>> ELSE Stored
      BY StoredGrows
<1>. HIDE DEF b, d, w
(* The data word is complete. *)
<1>9. CASE ser_count = Subwords - 1
  <2>1. net.phase = "payload" /\ net.n = 0 /\ Finished = b /\ d = b - 1 /\ b # 0
    <3>1. net.phase = "payload"
          BY <1>0, <1>1, <1>9
    <3>. QED BY <1>0, <1>1, <1>9, <3>1 DEF Finished, b, d
  <2>2. ~pending_write /\ w = d /\ ~fifo_dvalid'
        BY <1>4, <1>6, <1>9 DEF w
  <2>3. pending_write' = TRUE /\ ser_count' = 0 /\ fifo_data' = block[b]
        BY <1>6, <1>7, <1>9, <2>1
  <2>4. got_next_subframe' = (w = 0) /\ Stored' = Begun(w)
        BY <1>0, <1>4, <1>6, <1>8, <2>2
  <2>5. w = IF pending_write' THEN Finished - 1 ELSE Finished
        BY <2>1, <2>2, <2>3
  <2>6. pending_write' = (Finished # 0 /\ ser_count' # Subwords - 1)
    <3>1. Finished # 0 /\ ser_count' # Subwords - 1
          BY <1>0, <2>1, <2>3
    <3>. QED BY <2>3, <3>1
  <2>. QED BY <1>5, <1>7, <2>1, <2>3, <2>4, <2>5, <2>6 DEF PackedWell, b
(* The word held back is written, if there is one. *)
<1>10. CASE ser_count + 2 = Subwords
  <2>1. net.phase = "payload" /\ net.n # 0 /\ Finished = d
    <3>1. net.phase = "payload"
          BY <1>0, <1>1, <1>10
    <3>. QED BY <1>0, <1>1, <1>10, <3>1 DEF Finished, d, b
  <2>2. /\ ser_count' = Subwords - 1 /\ ser_count # Subwords - 1
        /\ pending_write = (d # 0) /\ fifo_dvalid' = pending_write
        /\ fifo_data' = fifo_data
    <3>1. ser_count' = Subwords - 1 /\ ser_count # Subwords - 1
          BY <1>0, <1>6, <1>10
    <3>2. pending_write = (d # 0)
          BY <1>4, <3>1
    <3>3. fifo_dvalid' = pending_write
          BY <1>0, <1>6, <1>10, <3>1
    <3>. QED BY <1>6, <3>1, <3>2, <3>3
  <2>3. pending_write' = FALSE
        BY <1>0, <1>6, <2>2
  <2>4. CASE d = 0
    <3>1. ~fifo_dvalid' /\ w = 0 /\ got_next_subframe' = TRUE /\ Stored' = Begun(0)
          BY <1>0, <1>4, <1>6, <1>8, <2>2, <2>4 DEF w
    <3>. QED BY <1>7, <2>1, <2>2, <2>3, <2>4, <3>1 DEF PackedWell, b
  <2>5. CASE d # 0
    <3>1. pending_write /\ fifo_dvalid' /\ w = d - 1 /\ d = w + 1
      <4>1. pending_write /\ fifo_dvalid' /\ w = d - 1
            BY <1>0, <2>2, <2>5 DEF w
      <4>. QED BY <1>2, <4>1
    <3>2. ~fifo_dvalid
          BY <1>0, <1>10 DEF RoomInv, Payload
    <3>3. fifo_din' = Marked(w = 0, FALSE, block[w + 1])
      <4>1. fifo_sync' = (w = 0)
            BY <1>0, <1>4, <1>6, <3>2
      <4>2. fifo_data' = block[w + 1]
            BY <1>4, <2>2, <3>1
      <4>. QED BY <1>6, <4>1, <4>2 DEF fifo_din
    <3>4. Stored' = Begun(d)
      <4>1. Stored' = Begun(w) \o <<Marked(w = 0, FALSE, block[w + 1])>>
            BY <1>4, <1>8, <3>1, <3>3
      <4>2. w < Len(block)
            BY <1>0, <1>2, <1>5, <3>1 DEF b
      <4>. QED BY <1>0, <1>5, <3>1, <4>1, <4>2, BegunGrows
    <3>5. got_next_subframe' = FALSE
          BY <1>0, <1>6, <3>1
    <3>. QED BY <1>2, <1>7, <2>1, <2>2, <2>3, <2>5, <3>4, <3>5 DEF PackedWell, b
  <2>. QED BY <2>4, <2>5
(* A subword in between, or the CRC. *)
<1>11. CASE ser_count # Subwords - 1 /\ ser_count + 2 # Subwords
  <2>1. /\ ser_count' = ser_count + 1 /\ ser_count' # Subwords - 1 /\ ~fifo_dvalid'
        /\ pending_write' = pending_write /\ pending_write = (d # 0)
        /\ fifo_data' = fifo_data
    <3>1. ser_count' = ser_count + 1 /\ ser_count' # Subwords - 1
          BY <1>0, <1>6, <1>11
    <3>2. pending_write = (d # 0)
          BY <1>4, <1>11
    <3>3. fifo_dvalid' = FALSE
          BY <1>0, <1>6, <1>11
    <3>4. pending_write' = pending_write
          BY <1>0, <1>6, <1>11, <3>3
    <3>. QED BY <1>6, <1>11, <3>1, <3>2, <3>3, <3>4
  <2>2. Finished = d
        BY <1>0, <1>1, <1>11 DEF Finished, d, b
  <2>3. got_next_subframe' = (w = 0) /\ Stored' = Begun(w)
        BY <1>0, <1>4, <1>6, <1>8, <2>1
  <2>4. w = IF pending_write' THEN Finished - 1 ELSE Finished
        BY <2>1, <2>2 DEF w
  <2>. QED BY <1>4, <1>5, <1>7, <2>1, <2>2, <2>3, <2>4 DEF PackedWell, b
<1>. QED BY <1>9, <1>10, <1>11

LEMMA PackCaught ==
  ASSUME AsDeployed, TypeInv, StartInv, SyncInv, FlagInv, RoomInv, RoomInv',
         CountInv, PackInv, TailInv, Reading \/ Waiting, Fsm, DelayAccept,
         state' = "PAYLOAD", fsm_in.escape \/ ~net.dirty
  PROVE  \E written \in Nat : PackedWell(written)
<1>0. /\ fsm_in.dvalid \in BOOLEAN /\ fsm_in.escape \in BOOLEAN
      /\ Subwords >= 3 /\ Subwords \in Nat /\ ser_count \in 0 .. Subwords - 1
      /\ pending_write \in BOOLEAN /\ fifo_dvalid \in BOOLEAN
      /\ crc_match \in BOOLEAN /\ pending \in Seq(FifoWord)
      /\ block \in Seq(Values) /\ Len(block) \in Nat
      BY FrameAssumption DEF TypeInv, WireInv, Wire, RegsOK, BufOK, SubIndex, AsDeployed
<1>1. net.phase \in {"payload", "closing"}
      BY CountCaught
(* A subframe begins. *)
<1>2. ASSUME JustStarted, ser_count' = 0, pending_write' = FALSE,
             got_next_subframe' = TRUE, Stored' = <<>>
      PROVE  PackedWell(0)
  <2>1. Finished = 0 /\ net.phase = "payload"
        BY <1>2 DEF JustStarted, Finished
  <2>. QED BY <1>2, <2>1, BegunEmpty DEF PackedWell
<1>3. CASE SubframeHeader
  <2>1. /\ ser_count' = 0 /\ fsm_in.escape /\ state = "SUBFRAME_HEADER"
        /\ got_next_subframe' = TRUE /\ pending_write' = pending_write
        /\ fifo_dvalid' = fifo_dvalid
        BY <1>3 DEF SubframeHeader
  <2>2. JustStarted
        BY <1>1, <2>1 DEF StartInv
  <2>3. /\ ~pending_write /\ ~fifo_dvalid /\ ~fifo_drop /\ ~fifo_accept_d0
        /\ pending = <<>>
        BY <2>1 DEF FlagInv, TailInv
  <2>4. Stored' = <<>>
    <3>1. New = <<>> /\ New' = <<>>
          BY <2>1, <2>3 DEF New
    <3>2. pending' = <<>>
          BY <2>3, <3>1, PendingNext
    <3>. QED BY <3>1, <3>2 DEF Stored
  <2>. QED BY <1>0, <1>2, <2>1, <2>2, <2>3, <2>4
<1>4. CASE Payload
  <2>1. CASE PayloadEscape
    <3>1. ser_count' = 0 /\ fsm_in.escape /\ got_next_subframe' = TRUE
          BY <2>1 DEF PayloadEscape
    <3>2. JustStarted
          BY <1>1, <3>1 DEF StartInv
    <3>3. pending_write' = FALSE /\ (fifo_accept' \/ fifo_drop')
      <4>1. fsm_in.data.kind = "seq"
            BY <2>1, KnownWords DEF PayloadEscape
      <4>2. /\ fifo_accept' = crc_match /\ fifo_drop' = ~crc_match
            /\ pending_write' = FALSE
            BY <2>1, <4>1, KnownWords DEF PayloadEscape
      <4>. QED BY <1>0, <4>2
    <3>4. Stored' = <<>>
          BY <3>3 DEF Stored, Gone
    <3>. QED BY <1>2, <3>1, <3>2, <3>3, <3>4
  <2>2. CASE PayloadWord
    <3>1. Open
          BY <1>4, <2>2 DEF Payload, PayloadWord, Open
    <3>. QED BY <1>1, <1>4, <2>2, <3>1, PackCaughtWord DEF PayloadWord
  <2>3. CASE PayloadGap
    <3>1. /\ ser_count' = ser_count /\ pack_data' = pack_data /\ fifo_data' = fifo_data
          /\ pending_write' = pending_write /\ got_next_subframe' = got_next_subframe
          /\ ~fifo_dvalid' /\ ~fsm_in.dvalid /\ ~fsm_in.eof
          BY <2>3 DEF PayloadGap
    <3>2. Open /\ ~net.dirty
          BY <1>4, <3>1 DEF Payload, Open, TypeInv, WireInv
    <3>3. Stored' = Stored
          BY <1>4, <2>3, <3>1, StoredGrows
    <3>4. Packing(Finished)
          BY <3>1, <3>2 DEF PackInv, Finished
    <3>5. Finished \in Nat
          BY <1>0, <1>1 DEF Finished, TypeInv, WireInv
    <3> DEFINE w == IF pending_write THEN Finished - 1 ELSE Finished
    <3>6. w \in Nat
      <4>1. pending_write => Finished # 0
            BY <3>4 DEF Packing
      <4>. HIDE DEF Finished
      <4>. QED BY <1>0, <3>5, <4>1
    <3>7. PackedWell(w)
          BY <3>1, <3>3, <3>4 DEF PackedWell, Packing
    <3>. QED BY <3>6, <3>7
  <2>. QED BY <1>4, <2>1, <2>2, <2>3 DEF Payload, PayloadEof
<1>. QED BY <1>3, <1>4 DEF Fsm, Idle, Header, Eof

(* The next word leaves the complete words as they are. *)
LEMMA PackStep ==
  ASSUME AsDeployed, TypeInv, StartInv, SyncInv, FlagInv, RoomInv, RoomInv',
         CountInv, PackInv, TailInv, Reading \/ Waiting
  PROVE  PackInv'
<1> DEFINE open == net'.phase = "payload" /\ (fsm_in'.dvalid \/ net'.n # 0)
           done == IF open THEN Len(block') - 1 ELSE Len(block')
<1> SUFFICES ASSUME Open', ~net'.dirty
             PROVE  /\ Packing(IF net.phase = "payload" /\ (fsm_in.dvalid \/ net.n # 0)
                               THEN Len(block) - 1 ELSE Len(block))'
                    /\ net'.phase = "payload" /\ fsm_in'.dvalid =>
                         fsm_in'.data = Subword(block'[Len(block')], ser_count')
    BY DEF PackInv
<1>0. Fsm /\ DelayAccept /\ Network(~full, valid)
      BY DEF Reading, Waiting, Clock
<1>1. state' = "PAYLOAD" /\ ~fsm_in'.eof /\ ~fsm_in'.escape
      BY DEF Open
<1>2. /\ net.phase \in {"payload", "closing"}
      /\ net.phase = "payload" => ser_count' = net.n
      BY <1>0, <1>1, CountCaught
<1>3. /\ net \in Net /\ (net.phase = "payload" => net.n < Subwords)
      /\ net.dirty \in BOOLEAN /\ net.n \in Nat
      /\ block \in Seq(Values) /\ Len(block) \in Nat
      /\ net.phase = "payload" /\ net.n # 0 => block # <<>>
      BY DEF TypeInv, WireInv, Net
(* What the next word may be. *)
<1>4. /\ ~net.dirty
      /\ done = Finished /\ done \in 0 .. Len(block)
      /\ \A i \in 1 .. done : block'[i] = block[i]
      /\ net'.phase = "payload" /\ ser_count' # 0 =>
           net.phase = "payload" /\ block'[Len(block')] = block[Len(block)]
      /\ net'.phase = "payload" /\ fsm_in'.dvalid =>
           fsm_in'.data = Subword(block'[Len(block')], ser_count')
  <2>1. CASE Silence
    <3>1. net' = net /\ block' = block /\ ~fsm_in'.dvalid
          BY <2>1, WordsOfTheWire DEF Silence
    <3>2. ~net.dirty /\ done = Finished
          BY <3>1 DEF Finished
    <3>. QED BY <1>2, <1>3, <3>1, <3>2 DEF Finished
  <2>2. CASE SendCode
    <3>1. net'.phase = net.phase /\ net'.n = net.n /\ net'.dirty = net.dirty
          BY <1>3, <2>2 DEF SendCode, Net
    <3>2. block' = block /\ ~fsm_in'.dvalid
          BY <2>2, WordsOfTheWire DEF SendCode
    <3>3. ~net.dirty /\ done = Finished
          BY <3>1, <3>2 DEF Finished
    <3>. QED BY <1>2, <1>3, <3>1, <3>2, <3>3 DEF Finished
  <2>3. CASE SendData
    <3>1. /\ block' \in Seq(Values) /\ block' # <<>> /\ fsm_in'.dvalid
          /\ net'.phase = "payload" /\ ~net.dirty /\ net.phase = "payload"
          /\ fsm_in'.data = Subword(block'[Len(block')], net.n)
          BY <2>3, DataOnTheWire DEF TypeInv, SendData
    <3>2. done = Len(block') - 1
          BY <3>1
    <3>3. CASE net.n = 0
      <4>1. PICK c \in Values : block' = Append(block, c)
            BY <2>3, <3>3 DEF SendData
      <4>2. Len(block') = Len(block) + 1 /\ \A i \in 1 .. Len(block) : block'[i] = block[i]
            BY <1>3, <4>1
      <4>3. done = Len(block) /\ Finished = Len(block)
            BY <1>3, <3>2, <3>3, <4>2 DEF Finished
      <4>. QED BY <1>2, <1>3, <3>1, <3>3, <4>2, <4>3
    <3>4. CASE net.n # 0
      <4>1. block' = block
            BY <2>3, <3>4 DEF SendData
      <4>2. done = Len(block) - 1 /\ Finished = Len(block) - 1
            BY <3>1, <3>2, <3>4, <4>1 DEF Finished
      <4>3. Len(block) - 1 \in 0 .. Len(block)
            BY <1>3, <3>1, <4>1
      <4>. QED BY <1>2, <1>3, <3>1, <4>1, <4>2, <4>3
    <3>. QED BY <3>3, <3>4
  <2>4. CASE SendCrc
    <3>1. PICK damaged \in BOOLEAN :
            net' = [net EXCEPT !.phase = "closing", !.dirty = @ \/ damaged]
          BY <2>4 DEF SendCrc
    <3>2. net'.phase = "closing" /\ net'.dirty = (net.dirty \/ damaged)
          BY <1>3, <3>1 DEF Net
    <3>3. block' = block /\ net.n = 0
          BY <2>4 DEF SendCrc
    <3>4. ~net.dirty /\ done = Finished /\ Finished = Len(block)
          BY <1>3, <3>2, <3>3 DEF Finished
    <3>. QED BY <1>3, <3>2, <3>3, <3>4
  <2>5. ~SendEof
        BY <1>1 DEF SendEof, NoWord
  <2>6. ~SendBadControl /\ ~SendSubframe /\ ~SendPadding
    <3>1. \A w \in Word : fsm_in' # Control(w)
          BY <1>1, WordsOfTheWire
    <3>2. net.seq \in Nat
          BY <1>3 DEF Net
    <3>. QED BY <3>1, <3>2, KnownWords DEF SendBadControl, SendSubframe, SendPadding
  <2>. QED BY <1>0, <1>2, <2>1, <2>2, <2>3, <2>4, <2>5, <2>6
           DEF Network, SendInside, SendClose, SendSof, SendHeader
<1>5. PICK written \in Nat : PackedWell(written)
      BY <1>0, <1>1, <1>4, PackCaught
<1>6. pending_write' \in BOOLEAN
  <2>1. TypeInv'
        BY TypeInvInductive DEF Next
  <2>. QED BY <2>1 DEF TypeInv, RegsOK
<1> HIDE DEF done
<1>7. written <= done /\ written = IF pending_write' THEN done - 1 ELSE done
      BY <1>4, <1>5, <1>6 DEF PackedWell
<1>8. Begun(written) = [i \in 1 .. written |-> Marked(i = 1, FALSE, block'[i])]
  <2>1. \A i \in 1 .. written : i \in 1 .. done
        BY <1>4, <1>7
  <2>. QED BY <1>4, <2>1 DEF Begun
<1>9. pending_write' => fifo_data' = block'[done]
  <2>1. pending_write' => done \in 1 .. done
        BY <1>4, <1>5 DEF PackedWell
  <2>. QED BY <1>4, <1>5, <2>1 DEF PackedWell
<1>10. /\ pending_write' = (done # 0 /\ ser_count' # Subwords - 1)
       /\ got_next_subframe' = (written = 0)
       /\ Stored' = [i \in 1 .. written |-> Marked(i = 1, FALSE, block'[i])]
       /\ net'.phase = "payload" /\ ser_count' # 0 => pack_data' = block'[Len(block')]
       BY <1>4, <1>5, <1>8 DEF PackedWell
<1>11. Packing(IF net.phase = "payload" /\ (fsm_in.dvalid \/ net.n # 0)
               THEN Len(block) - 1 ELSE Len(block))'
       BY <1>7, <1>9, <1>10 DEF Packing, Begun, done
<1>. QED BY <1>4, <1>11

-----------------------------------------------------------------------------
(* A pending tail outside a subframe is about to go. *)
LEMMA TailStep ==
  ASSUME AsDeployed, TypeInv, FlagInv, TailInv, Reading \/ Waiting
  PROVE  TailInv'
<1>0. Fsm /\ DelayAccept
      BY DEF Reading, Waiting, Clock
<1>1. /\ fifo_dvalid \in BOOLEAN /\ fifo_accept \in BOOLEAN /\ fifo_drop \in BOOLEAN
      /\ fifo_accept_d0 \in BOOLEAN /\ pending \in Seq(FifoWord)
      BY DEF TypeInv, RegsOK, BufOK
<1>2. ~fifo_dvalid => New = <<>>
      BY DEF New
<1>3. fifo_drop => pending' = <<>>
      BY PendingNext
<1>4. CASE state \in {"IDLE", "HEADER", "SUBFRAME_HEADER"}
  <2>1. CASE fifo_drop
        BY <1>3, <2>1 DEF TailInv
  <2>2. CASE ~fifo_drop
    <3>1. New = <<>> /\ (pending = <<>> \/ fifo_accept_d0)
          BY <1>2, <1>4, <2>2 DEF FlagInv, TailInv
    <3>2. pending' = <<>>
          BY <1>1, <2>2, <3>1, PendingNext
    <3>. QED BY <3>2 DEF TailInv
  <2>. QED BY <1>1, <2>1, <2>2
<1>5. CASE Payload
  <2>1. state' \in {"PAYLOAD", "EOF"} \/ (state' = "IDLE" /\ fifo_drop' = TRUE)
        BY <1>5 DEF Payload, PayloadEof, PayloadEscape, PayloadWord, PayloadGap
  <2>. QED BY <2>1 DEF TailInv
<1>6. CASE Eof
  <2>1. state = "EOF" /\ state' = "IDLE"
        BY <1>6 DEF Eof
  <2>2. fifo_drop \/ fifo_accept
        BY <2>1 DEF FlagInv
  <2>3. fifo_accept => fifo_accept_d0'
        BY <1>0 DEF DelayAccept
  <2>. QED BY <1>3, <2>1, <2>2, <2>3 DEF TailInv
<1>. QED BY <1>0, <1>4, <1>5, <1>6 DEF Fsm, Idle, Header, SubframeHeader

(* The end of a good subframe is on the wire. *)
Ends == net.phase = "closing" /\ Good /\ (IsSeq' \/ IsPad')
Due  == IF Ends THEN Owed ELSE <<>>

LEMMA ControlsOnTheWire ==
  ASSUME WireInv, NEW dreq, NEW shown, Network(dreq, shown)
  PROVE  /\ fsm_in'.escape => crc_match' = crc_match
         /\ IsSeq' \/ IsPad' => net.phase # "closing" \/ SendClose
         /\ SendClose => IsSeq' \/ IsPad'
<1>0. net.seq \in Nat
      BY DEF WireInv, Net
<1>1. CASE Silence \/ SendCode \/ SendSof \/ SendEof \/ SendHeader \/ SendData \/ SendCrc
  <2>1. ~fsm_in'.escape
    <3>1. CASE Silence \/ SendCode
          BY <3>1, WordsOfTheWire DEF Silence, SendCode
    <3>2. CASE SendSof \/ SendEof
          BY <3>2 DEF SendSof, SendEof, NoWord
    <3>3. CASE SendHeader
          BY <3>3 DEF SendHeader, Plain, NoWord
    <3>4. CASE SendData
          BY <3>4, DataOnTheWire
    <3>5. CASE SendCrc
          BY <3>5 DEF SendCrc, Plain, NoWord
    <3>. QED BY <1>1, <3>1, <3>2, <3>3, <3>4, <3>5
  <2>2. ~SendClose
    <3>1. SendClose => fsm_in'.escape
          BY <1>0, KnownWords, WordsOfTheWire DEF SendClose, SendSubframe, SendPadding
    <3>. QED BY <2>1, <3>1
  <2>. QED BY <2>1, <2>2 DEF IsSeq, IsPad
<1>2. CASE SendBadControl
  <2>1. CASE net.phase = "closing"
    <3>1. fsm_in' = Control(Junk) /\ crc_match' = crc_match
          BY <1>2, <2>1 DEF SendBadControl
    <3>2. fsm_in'.data = Junk
          BY <3>1, KnownWords, WordsOfTheWire
    <3>3. ~IsSeq' /\ ~IsPad'
          BY <3>2, KnownWords DEF IsSeq, IsPad
    <3>4. ~SendClose
      <4>1. SendClose => IsSeq' \/ IsPad'
            BY <1>0, KnownWords, WordsOfTheWire DEF SendClose, SendSubframe, SendPadding, IsSeq, IsPad
      <4>. QED BY <3>3, <4>1
    <3>. QED BY <3>1, <3>3, <3>4
  <2>2. CASE net.phase # "closing"
    <3>1. crc_match' = crc_match
          BY <1>2 DEF SendBadControl
    <3>2. SendClose => IsSeq' \/ IsPad'
          BY <1>0, KnownWords, WordsOfTheWire DEF SendClose, SendSubframe, SendPadding, IsSeq, IsPad
    <3>. QED BY <2>2, <3>1, <3>2
  <2>. QED BY <2>1, <2>2
<1>3. CASE SendClose
  <2>1. crc_match' = crc_match
        BY <1>3 DEF SendClose, SendSubframe, SendPadding
  <2>2. IsSeq' \/ IsPad'
        BY <1>0, <1>3, KnownWords, WordsOfTheWire DEF SendClose, SendSubframe, SendPadding, IsSeq, IsPad
  <2>. QED BY <1>3, <2>1, <2>2
<1>. QED BY <1>1, <1>2, <1>3 DEF Network, SendInside

LEMMA DueNext ==
  ASSUME TypeInv, NEW dreq, Network(dreq, valid)
  PROVE  expected' = Left(valid) \o Due /\ Due \in Seq(FifoWord)
<1>1. Left(valid) \in Seq(FifoWord) /\ Owed \in Seq(FifoWord)
      BY LeftTyped, OwedTyped DEF TypeInv, BufOK
<1>2. CASE Ends
  <2>1. SendClose /\ net.phase = "closing" /\ Good
        BY <1>2, ControlsOnTheWire DEF TypeInv, Ends
  <2>2. expected' = Left(valid) \o Owed
    <3>1. SUFFICES ASSUME Silence \/ SendInside PROVE FALSE
          BY <2>1 DEF Network
    <3>2. fsm_in'.escape
          BY <1>2 DEF Ends, IsSeq, IsPad
    <3>3. CASE Silence \/ SendCode
          BY <3>2, <3>3, WordsOfTheWire DEF Silence, SendCode
    <3>4. CASE SendEof
          BY <3>2, <3>4 DEF SendEof, NoWord
    <3>5. CASE SendBadControl
      <4>1. fsm_in' = Control(Junk)
            BY <2>1, <3>5 DEF SendBadControl
      <4>. QED BY <1>2, <4>1, KnownWords, WordsOfTheWire DEF Ends, IsSeq, IsPad
    <3>. QED BY <2>1, <3>1, <3>3, <3>4, <3>5
             DEF SendInside, SendSof, SendHeader, SendData, SendCrc
  <2>. QED BY <1>1, <1>2, <2>2 DEF Due
<1>3. CASE ~Ends
  <2>1. expected' = Left(valid)
    <3>1. CASE SendClose
          BY <1>3, <3>1, ControlsOnTheWire DEF TypeInv, Ends, Network
    <3>. QED BY <3>1 DEF Network
  <2>. QED BY <1>1, <1>3, <2>1 DEF Due
<1>. QED BY <1>2, <1>3

(* p_fsm accepts exactly the subframes that the network ends in good order. *)
LEMMA ClosingNext ==
  ASSUME AsDeployed, TypeInv, StartInv, SyncInv, CountInv, Fsm,
         NEW dreq, NEW shown, Network(dreq, shown)
  PROVE  Closing' = Ends
<1>0. /\ Caught(state', count') /\ state' \in States
      /\ fsm_in'.escape => crc_match' = crc_match
      /\ fsm_in'.escape => net.code
      /\ crc_match \in BOOLEAN /\ net.dirty \in BOOLEAN
  <2>1. state' \in States
    <3>1. state \in States
          BY DEF TypeInv, RegsOK
    <3>. QED BY <3>1 DEF Fsm, Idle, Header, SubframeHeader, Payload, PayloadEof,
                   PayloadEscape, PayloadWord, PayloadGap, Eof, States
  <2>. QED BY <2>1, FsmCatchesUp, ControlsOnTheWire, CodeFirst DEF TypeInv, WireInv, Net
<1>1. ASSUME Closing' PROVE Ends
  <2>1. state' = "PAYLOAD" /\ fsm_in'.escape /\ (IsSeq' \/ IsPad') /\ crc_match'
        BY <1>1 DEF Closing, IsSeq, IsPad
  <2>2. Mine /\ net.phase = "closing"
        BY <1>0, <2>1 DEF Caught, TypeInv, WireInv
  <2>3. ~net.dirty
        BY <1>0, <2>1, <2>2, CountCaught
  <2>. QED BY <2>1, <2>2, <2>3 DEF Ends, Good, Mine
<1>2. ASSUME Ends PROVE Closing'
  <2>1. Mine /\ net.phase = "closing" /\ ~net.dirty /\ fsm_in'.escape /\ (IsSeq' \/ IsPad')
        BY <1>2 DEF Ends, Good, Mine, IsSeq, IsPad
  <2>2. state' = "PAYLOAD"
        BY <1>0, <2>1 DEF Caught, States
  <2>3. crc_match'
    <3>1. crc_match = ~net.dirty
          BY <2>1, <2>2, CountCaught
    <3>2. crc_match' = crc_match
          BY <1>0, <2>1
    <3>. QED BY <2>1, <3>1, <3>2
  <2>. QED BY <2>1, <2>2, <2>3 DEF Closing
<1>3. Closing' \in BOOLEAN /\ Ends \in BOOLEAN
      BY DEF Closing, Ends
<1>. QED BY <1>1, <1>2, <1>3

-----------------------------------------------------------------------------
(* What is accepted but not readable yet, from one cycle to the next. *)
LEMMA HeldTyped == TypeInv => Held \in Seq(FifoWord)
<1>. SUFFICES ASSUME TypeInv PROVE Held \in Seq(FifoWord)
     OBVIOUS
<1>1. Marked(got_next_subframe, TRUE, fifo_data) \in FifoWord
      BY DEF TypeInv, RegsOK, Marked, FifoWord
<1>2. CASE pending_write
  <2> DEFINE w == Marked(got_next_subframe, TRUE, fifo_data)
  <2>1. Held = <<w>>
        BY <1>2 DEF Held
  <2>2. w \in FifoWord
        BY <1>1
  <2>. HIDE DEF w
  <2>. QED BY <2>1, <2>2
<1>3. CASE ~pending_write
      BY <1>3 DEF Held
<1>. QED BY <1>2, <1>3

LEMMA NewIsTyped == TypeInv => New \in Seq(FifoWord)
BY NewTyped DEF TypeInv

LEMMA InFlightTyped == TypeInv => InFlight \in Seq(FifoWord)
<1>. SUFFICES ASSUME TypeInv PROVE InFlight \in Seq(FifoWord)
     OBVIOUS
<1>1. pending \in Seq(FifoWord) /\ Held \in Seq(FifoWord) /\ New \in Seq(FifoWord)
      BY HeldTyped, NewTyped DEF TypeInv, BufOK
<1>. QED BY <1>1 DEF InFlight

(* The subframe that ends now: its words are pending or held back. *)
LEMMA EndsWithItsWords ==
  ASSUME AsDeployed, TypeInv, StartInv, SyncInv, FlagInv, RoomInv, CountInv,
         PackInv, TailInv, FlagInv', RoomInv', Reading \/ Waiting, Closing'
  PROVE  pending' \o Held' = Owed
<1>0. Fsm /\ DelayAccept /\ Network(~full, valid) /\ TypeInv'
      BY TypeInvInductive DEF Reading, Waiting, Clock, Next
<1>1. state' = "PAYLOAD" /\ fsm_in'.escape
      BY DEF Closing, IsSeq, IsPad
<1>2. net.phase = "closing" /\ ~net.dirty
      BY <1>0, ClosingNext DEF Ends, Good
<1>3. ~Gone' /\ ~fifo_dvalid'
      BY <1>1 DEF FlagInv, RoomInv, Fresh, Gone
<1>4. pending' \in Seq(FifoWord) /\ pending_write' \in BOOLEAN
      /\ block \in Seq(Values) /\ Len(block) \in Nat
      /\ Subwords >= 3 /\ Subwords \in Nat
      BY <1>0, FrameAssumption DEF TypeInv, BufOK, RegsOK, WireInv, AsDeployed
<1>5. Stored' = pending'
      BY <1>3, <1>4 DEF Stored, New
<1>6. PICK written \in Nat : PackedWell(written)
      BY <1>0, <1>1, <1>2, PackCaught
<1>7. ser_count' = 1 /\ Finished = Len(block)
      BY <1>0, <1>1, <1>2, CountCaught DEF Finished
<1>8. pending' = Begun(written)
      BY <1>5, <1>6 DEF PackedWell
<1>9. pending_write' = (Len(block) # 0)
      BY <1>4, <1>6, <1>7 DEF PackedWell
<1>10. CASE block = <<>>
  <2>1. ~pending_write' /\ written = 0
        BY <1>6, <1>7, <1>9, <1>10 DEF PackedWell
  <2>. QED BY <1>4, <1>8, <1>10, <2>1, BegunEmpty, OwedIsBegun DEF Held
<1>11. CASE block # <<>>
  <2>1. pending_write' /\ Len(block) # 0
    <3>1. Len(block) # 0
          BY <1>4, <1>11
    <3>. QED BY <1>9, <3>1
  <2>2. /\ written = Len(block) - 1 /\ fifo_data' = block[Len(block)]
        /\ got_next_subframe' = (written = 0)
        BY <1>6, <1>7, <2>1 DEF PackedWell
  <2>3. (written = 0) = (Len(block) = 1)
        BY <1>4, <2>2
  <2>4. Held' = <<Marked(Len(block) = 1, TRUE, block[Len(block)])>>
        BY <2>1, <2>2, <2>3 DEF Held
  <2>. QED BY <1>4, <1>8, <1>11, <2>2, <2>4, OwedIsBegun
<1>. QED BY <1>10, <1>11

(* The accept of a subframe that p_fsm is closing goes to the buffer with  *)
(* its last word. *)
LEMMA ClosingIsAccepted ==
  ASSUME AsDeployed, TypeInv, FlagInv, RoomInv, RoomInv', Fsm, DelayAccept, Closing
  PROVE  /\ fifo_accept' = TRUE /\ ~Gone /\ ~fifo_dvalid /\ New' = Held
         /\ ~Closing' \/ fifo_accept_d0' = FALSE
<1>1. /\ state = "PAYLOAD" /\ fsm_in.escape /\ crc_match = TRUE /\ fsm_in.dvalid
      /\ ~fsm_in.eof /\ (fsm_in.data.kind = "seq" \/ fsm_in.data = PadWord)
      BY DEF Closing, IsSeq, IsPad, TypeInv, WireInv
<1>2. ~Gone /\ ~fifo_dvalid
      BY <1>1 DEF FlagInv, RoomInv, Fresh, Gone
<1>3. fifo_accept_d0' = FALSE
      BY <1>2 DEF DelayAccept, Gone, TypeInv, RegsOK
<1>4. Payload /\ PayloadEscape
      BY <1>1 DEF Fsm, Idle, Header, SubframeHeader, Payload, PayloadEof,
                  PayloadWord, PayloadGap, Eof
<1>5. /\ fifo_accept' = crc_match /\ fifo_drop' = ~crc_match
      /\ fifo_dvalid' = (pending_write /\ ~fifo_dvalid)
      /\ fifo_last' = TRUE /\ fifo_data' = fifo_data
      /\ fifo_sync' = (got_next_subframe /\ ~fifo_dvalid)
      BY <1>1, <1>4, KnownWords DEF Payload, PayloadEscape
<1>6. fifo_accept' = TRUE /\ fifo_drop' = FALSE
      BY <1>1, <1>5
<1>7. /\ fifo_dvalid' = pending_write
      /\ fifo_sync' = got_next_subframe
  <2>1. pending_write \in BOOLEAN /\ got_next_subframe \in BOOLEAN /\ fifo_dvalid \in BOOLEAN
        BY DEF TypeInv, RegsOK
  <2>. QED BY <1>2, <1>5, <2>1
<1>8. fifo_dvalid' => ~full'
      BY <1>6 DEF RoomInv, NoOverrun
<1>9. fifo_din' = Marked(got_next_subframe, TRUE, fifo_data)
      BY <1>5, <1>7 DEF fifo_din
<1>10. New' = Held
      BY <1>7, <1>8, <1>9 DEF New, Held
<1>. QED BY <1>2, <1>3, <1>6, <1>10

(* Nothing else is accepted. *)
LEMMA AcceptedIsClosing ==
  ASSUME TypeInv, FlagInv, Fsm, fifo_accept' = TRUE, ~fifo_accept
  PROVE  Closing
<1>1. CASE Payload
  <2>1. CASE PayloadEscape
        BY <1>1, <2>1 DEF Payload, PayloadEscape, Closing, IsSeq, IsPad
  <2>. QED BY <1>1, <2>1 DEF Payload, PayloadEof, PayloadWord, PayloadGap
<1>. QED BY <1>1 DEF Fsm, Idle, Header, SubframeHeader, Eof, packVars

LEMMA FlightStep ==
  ASSUME AsDeployed, TypeInv, StartInv, SyncInv, FlagInv, RoomInv, CountInv,
         PackInv, TailInv, FlagInv', RoomInv', Reading \/ Waiting,
         NEW left \in Seq(FifoWord), Write(left)
  PROVE  committed' \o InFlight' = (left \o InFlight) \o Due
<1>0. Fsm /\ DelayAccept /\ Network(~full, valid) /\ TypeInv'
      BY TypeInvInductive DEF Reading, Waiting, Clock, Next
<1>1. /\ fifo_accept \in BOOLEAN /\ fifo_drop \in BOOLEAN /\ fifo_accept_d0 \in BOOLEAN
      /\ fifo_accept' \in BOOLEAN /\ fifo_accept_d0' = fifo_accept
      /\ pending \in Seq(FifoWord) /\ pending' \in Seq(FifoWord)
      /\ New \in Seq(FifoWord) /\ New' \in Seq(FifoWord) /\ Held \in Seq(FifoWord)
      /\ InFlight \in Seq(FifoWord) /\ InFlight' \in Seq(FifoWord)
  <2>1. (New \in Seq(FifoWord))' /\ (InFlight \in Seq(FifoWord))'
        BY <1>0, NewIsTyped, InFlightTyped, PTL
  <2>. QED BY <1>0, <2>1, NewIsTyped, HeldTyped, InFlightTyped
           DEF TypeInv, RegsOK, BufOK, DelayAccept
<1>2. /\ fifo_accept_d0 => New = <<>> /\ ~fifo_drop
      /\ fifo_accept => ~fifo_drop
      BY DEF FlagInv, New
<1>3. /\ fifo_drop => committed' = left /\ pending' = <<>>
      /\ fifo_accept_d0 => committed' = left \o pending /\ pending' = New
      /\ ~fifo_drop /\ ~fifo_accept_d0 => committed' = left /\ pending' = pending \o New
      BY <1>2, WriteCases DEF TypeInv
<1>4. Closing' = Ends /\ Due \in Seq(FifoWord)
      BY <1>0, ClosingNext, DueNext
<1>5. ASSUME ~Closing, ~fifo_accept PROVE committed' = left \o InFlight
  <2>1. InFlight = IF fifo_accept_d0 THEN pending \o New ELSE <<>>
        BY <1>5 DEF InFlight
  <2>2. CASE fifo_accept_d0
    <3>1. New = <<>> /\ committed' = left \o pending
          BY <1>2, <1>3, <2>2
    <3>2. InFlight = pending \o New /\ pending \o New = pending
          BY <1>1, <2>1, <2>2, <3>1, ConcatEmptySeq
    <3>. QED BY <3>1, <3>2
  <2>3. CASE ~fifo_accept_d0
    <3>1. committed' = left /\ InFlight = <<>>
          BY <1>3, <2>1, <2>3, Zenon
    <3>. QED BY <3>1, ConcatEmptySeq
  <2>. QED BY <2>2, <2>3
<1>6. CASE Closing'
  <2>1. ~fifo_accept
    <3>1. fifo_accept => fifo_accept_d0'
          BY <1>1
    <3>2. ~fifo_accept_d0'
          BY <1>6 DEF Closing, IsSeq, IsPad, FlagInv
    <3>. QED BY <3>1, <3>2
  <2>2. ~Closing
    <3>1. ~fifo_accept'
          BY <1>6 DEF Closing, IsSeq, IsPad, FlagInv, Fresh
    <3>. QED BY <1>0, <3>1, ClosingIsAccepted
  <2>3. InFlight' = Owed
        BY <1>6, EndsWithItsWords DEF InFlight
  <2>4. Due = Owed
        BY <1>4, <1>6 DEF Due
  <2>. QED BY <1>5, <2>1, <2>2, <2>3, <2>4
<1>7. CASE ~Closing'
  <2>1. Due = <<>> /\ InFlight' = IF fifo_accept' \/ fifo_accept THEN pending' \o New' ELSE <<>>
        BY <1>1, <1>4, <1>7 DEF Due, InFlight
  <2>2. SUFFICES committed' \o InFlight' = left \o InFlight
        BY <1>1, <2>1
  <2>3. CASE Closing
    <3>1. /\ fifo_accept' = TRUE /\ New' = Held /\ New = <<>>
          /\ ~fifo_drop /\ ~fifo_accept_d0
          BY <1>0, <2>3, ClosingIsAccepted DEF Gone, New
    <3>2. committed' = left /\ pending' = pending
          BY <1>1, <1>3, <3>1
    <3>3. InFlight = pending \o Held
          BY <2>3 DEF InFlight
    <3>. QED BY <2>1, <3>1, <3>2, <3>3
  <2>4. CASE ~Closing /\ fifo_accept
    <3>1. InFlight = pending \o New /\ InFlight' = pending' \o New'
          BY <2>1, <2>4 DEF InFlight
    <3>2. New' = <<>>
          BY <1>1, <2>4 DEF FlagInv, New
    <3>3. InFlight' = pending'
          BY <1>1, <3>1, <3>2
    <3>4. CASE fifo_accept_d0
      <4>1. InFlight = pending /\ pending' = <<>>
            BY <1>1, <1>2, <1>3, <3>1, <3>4
      <4>. QED BY <1>1, <1>3, <3>3, <3>4, <4>1
    <3>5. CASE ~fifo_accept_d0
          BY <1>2, <1>3, <2>4, <3>1, <3>3, <3>5
    <3>. QED BY <3>4, <3>5
  <2>5. CASE ~Closing /\ ~fifo_accept
    <3>1. ~fifo_accept'
          BY <1>0, <1>1, <2>5, AcceptedIsClosing
    <3>2. InFlight' = <<>>
          BY <2>1, <2>5, <3>1
    <3>3. committed' \in Seq(FifoWord)
          BY <1>0 DEF TypeInv, BufOK
    <3>. QED BY <1>5, <2>5, <3>2, <3>3
  <2>. QED BY <2>3, <2>4, <2>5
<1>. QED BY <1>6, <1>7

-----------------------------------------------------------------------------
(* A step of the books: the words of a subframe fall due when its end is   *)
(* on the wire, and leave one at a time when the user takes them.          *)
LEMMA WordsJoin ==
  ASSUME NEW s \in Seq(FifoWord), NEW t \in Seq(FifoWord), NEW u \in Seq(FifoWord)
  PROVE  (s \o t) \o u = s \o (t \o u) /\ t \o u \in Seq(FifoWord)
BY ConcatAssociative

LEMMA BookStep ==
  ASSUME AsDeployed, TypeInv, StartInv, SyncInv, FlagInv, RoomInv, CountInv,
         PackInv, TailInv, BookInv, FlagInv', RoomInv', Reading \/ Waiting
  PROVE  BookInv'
<1>0. Network(~full, valid) /\ TypeInv'
      BY TypeInvInductive DEF Reading, Waiting, Clock, Next
<1>1. /\ committed \in Seq(FifoWord) /\ committed' \in Seq(FifoWord)
      /\ InFlight \in Seq(FifoWord) /\ Due \in Seq(FifoWord)
      /\ InFlight' \in Seq(FifoWord) /\ expected' \in Seq(FifoWord)
  <2>1. (InFlight \in Seq(FifoWord))'
        BY <1>0, InFlightTyped, PTL
  <2>. QED BY <1>0, <2>1, InFlightTyped, DueNext DEF TypeInv, BufOK
<1>2. expected' = (committed \o InFlight) \o Due
      BY <1>0, DueNext DEF BookInv
<1>3. CASE Waiting
  <2>1. Write(committed) /\ valid' = FALSE
        BY <1>3 DEF Waiting, Fifo!NoDelivery
  <2>2. committed' \o InFlight' = expected'
        BY <1>1, <1>2, <1>3, <2>1, FlightStep
  <2>. QED BY <2>1, <2>2 DEF BookInv, Left, DeliversWholeBlocks
<1>4. CASE Reading
  <2>1. /\ committed # <<>> /\ Write(Tail(committed)) /\ valid' = TRUE
        /\ out' = Head(committed)
        BY <1>4 DEF Reading, Fifo!Deliver
  <2>2. Tail(committed) \in Seq(FifoWord)
        BY <1>1, <2>1
  <2>3. committed' \o InFlight' = (Tail(committed) \o InFlight) \o Due
        BY <1>4, <2>1, <2>2, FlightStep
  <2> DEFINE rest == InFlight \o Due
  <2>4. rest \in Seq(FifoWord) /\ expected' = committed \o rest
    <3>0. committed \in Seq(FifoWord) /\ InFlight \in Seq(FifoWord) /\ Due \in Seq(FifoWord)
          BY <1>1, Zenon
    <3>1. (committed \o InFlight) \o Due = committed \o rest /\ rest \in Seq(FifoWord)
          BY <3>0, WordsJoin, Zenon
    <3>. QED BY <1>2, <3>1, Zenon
  <2>5. committed' \o InFlight' = Tail(committed) \o rest
    <3>1. InFlight \in Seq(FifoWord) /\ Due \in Seq(FifoWord)
          BY <1>1, Zenon
    <3>2. (Tail(committed) \o InFlight) \o Due = Tail(committed) \o rest
          BY <2>2, <3>1, WordsJoin, Zenon
    <3>. QED BY <2>3, <3>2, Zenon
  <2>. HIDE DEF rest
  <2>6. /\ expected' # <<>> /\ Head(expected') = Head(committed)
        /\ Tail(expected') = Tail(committed) \o rest
        BY <1>1, <2>1, <2>2, <2>4
  <2>. QED BY <2>1, <2>5, <2>6 DEF BookInv, Left, DeliversWholeBlocks
<1>. QED BY <1>3, <1>4

LEMMA BookReset ==
  ASSUME AsDeployed, TypeInv, FlagInv, BookInv, ResetEdge
  PROVE  BookInv'
<1>1. /\ committed' = <<>> /\ pending' = <<>> /\ state' = "IDLE"
      /\ fifo_accept' = fifo_accept /\ fifo_accept_d0' = fifo_accept
      BY DEF ResetEdge, Reset, Fifo!Clear, DelayAccept, packVars
<1>2. fifo_accept = FALSE
      BY DEF ResetEdge, Reset, AsDeployed, FlagInv, TypeInv, RegsOK
<1>3. InFlight' = <<>>
      BY <1>1, <1>2 DEF InFlight, Closing
<1>4. /\ committed \in Seq(FifoWord) /\ InFlight \in Seq(FifoWord)
      /\ Left(valid) = committed \o InFlight /\ valid \in BOOLEAN
      BY InFlightTyped DEF TypeInv, BufOK, BookInv
<1>5. CASE Fifo!Deliver /\ expected' = FirstDue(valid)
  <2>1. committed # <<>> /\ out' = Head(committed) /\ valid' = TRUE
        BY <1>5 DEF Fifo!Deliver
  <2>2. Left(valid) # <<>> /\ Head(Left(valid)) = Head(committed)
        BY <1>4, <2>1
  <2>3. expected' = <<Head(committed)>>
        BY <1>5, <2>2 DEF FirstDue
  <2>. QED BY <1>1, <1>3, <2>1, <2>3 DEF BookInv, Left, DeliversWholeBlocks
<1>6. CASE Fifo!NoDelivery /\ expected' = <<>>
      BY <1>1, <1>3, <1>6 DEF Fifo!NoDelivery, BookInv, Left, DeliversWholeBlocks
<1>. QED BY <1>5, <1>6 DEF ResetEdge

-----------------------------------------------------------------------------
(* The inductive invariant. *)
Inv == /\ TypeInv /\ StartInv /\ SyncInv /\ FlagInv /\ RoomInv
       /\ CountInv /\ PackInv /\ TailInv /\ BookInv

LEMMA InvInit == ASSUME AsDeployed, Init PROVE Inv
<1>1. TypeInv
      BY TypeInvInit
<1>2. /\ state = "IDLE" /\ ~fifo_accept /\ ~fifo_accept_d0 /\ ~fifo_drop /\ ~fifo_dvalid
      /\ net = NoSender /\ fsm_in = NoWord /\ ~valid /\ expected = <<>>
      /\ committed = <<>> /\ pending = <<>>
      BY DEF Init, RxInit
<1>3. StartInv
      BY <1>2, WordsOfTheWire DEF StartInv, JustStarted, NoSender
<1>4. SyncInv
      BY <1>2, NobodySends, WordsOfTheWire DEF SyncInv
<1>5. FlagInv /\ TailInv /\ CountInv /\ PackInv
      BY <1>2 DEF FlagInv, TailInv, CountInv, PackInv, Open
<1>6. RoomInv
      BY <1>2 DEF RoomInv, NoOverrun
<1>7. BookInv
      BY <1>2 DEF BookInv, Left, InFlight, Closing, DeliversWholeBlocks
<1>. QED BY <1>1, <1>3, <1>4, <1>5, <1>6, <1>7 DEF Inv

LEMMA InvStep == ASSUME AsDeployed, Inv, [Next]_vars PROVE Inv'
<1>1. TypeInv'
      BY TypeInvInductive DEF Inv
<1>2. CASE Reading \/ Waiting
  <2>1. Fsm /\ DelayAccept /\ Network(~full, valid)
        BY <1>2 DEF Reading, Waiting, Clock
  <2>2. StartInv' /\ SyncInv' /\ CountInv'
        BY <2>1, StartStep, SyncStep, CountStep DEF Inv, TypeInv
  <2>3. FlagInv' /\ RoomInv' /\ TailInv'
        BY <1>2, <2>1, FlagStep, RoomStep, TailStep DEF Inv
  <2>4. PackInv' /\ BookInv'
        BY <1>2, <2>3, PackStep, BookStep DEF Inv
  <2>. QED BY <1>1, <2>2, <2>3, <2>4 DEF Inv
<1>3. CASE ResetEdge
  <2>1. Reset
        BY <1>3 DEF ResetEdge
  <2>2. StartInv' /\ SyncInv' /\ FlagInv' /\ CountInv' /\ PackInv'
        BY <2>1, StartReset, SyncReset, FlagReset, CountReset DEF Inv, TypeInv
  <2>3. TailInv'
        BY <1>3 DEF ResetEdge, Fifo!Clear, TailInv
  <2>4. RoomInv' /\ BookInv'
        BY <1>3, RoomReset, BookReset DEF Inv
  <2>. QED BY <1>1, <2>2, <2>3, <2>4 DEF Inv
<1>4. CASE UNCHANGED vars
  <2> USE <1>4 DEF vars, rxVars, fsmVars, packVars, netVars, bufVars
  <2>1. StartInv' /\ FlagInv'
        BY DEF Inv, StartInv, FlagInv, JustStarted, IsPad, Fresh
  <2>2. SyncInv'
        BY DEF Inv, SyncInv, Mine, Own, IsSeq, IsPad, IsBad, HeaderKind, HeaderPassed
  <2>3. RoomInv' /\ TailInv'
        BY DEF Inv, RoomInv, NoOverrun, full, TailInv
  <2>4. CountInv' /\ PackInv'
        BY DEF Inv, CountInv, PackInv, Open, Packing, Stored, Gone, New, full, fifo_din, Begun
  <2>5. BookInv'
        BY DEF Inv, BookInv, Left, InFlight, Closing, IsSeq, IsPad, Held, New, full,
               fifo_din, DeliversWholeBlocks
  <2>. QED BY <1>1, <2>1, <2>2, <2>3, <2>4, <2>5 DEF Inv
<1>. QED BY <1>2, <1>3, <1>4 DEF Next

LEMMA InvHolds == ASSUME AsDeployed PROVE Spec => []Inv
<1>1. Init => Inv
      BY InvInit
<1>2. Inv /\ [Next]_vars => Inv'
      BY InvStep
<1>. QED BY <1>1, <1>2, PTL DEF Spec

(* The buffer never sees an accept and a drop in the same cycle, although  *)
(* p_delay_fifo_accept makes the accept a cycle late: what the buffer's    *)
(* own theorems assume of its writer.                                      *)
THEOREM AcceptIsAlone == ASSUME AsDeployed PROVE Spec => []AcceptNeverMeetsDrop
<1>1. Inv => AcceptNeverMeetsDrop
      BY DEF Inv, FlagInv, AcceptNeverMeetsDrop
<1>. QED BY <1>1, InvHolds, PTL

(* No word is written to a full buffer, although fabric words asked for    *)
(* before it filled up, and the word held back, are still to come.         *)
THEOREM NothingOverruns == ASSUME AsDeployed PROVE Spec => []NoOverrun
<1>1. Inv => NoOverrun
      BY DEF Inv, RoomInv
<1>. QED BY <1>1, InvHolds, PTL

(* The user gets the words of the undamaged subframes of the frames that   *)
(* the header filter takes, each once, in order, with the marks of their   *)
(* block, and nothing else, whatever the addresses, the damages, the cuts, *)
(* the gaps and the user's requests, as long as no frame breaks right      *)
(* after a subframe header and no reset comes in PAYLOAD (AsDeployed).     *)
THEOREM WholeBlocksDelivered == ASSUME AsDeployed PROVE Spec => []DeliversWholeBlocks
<1>1. Inv => DeliversWholeBlocks
      BY DEF Inv, BookInv
<1>. QED BY <1>1, InvHolds, PTL
=============================================================================
