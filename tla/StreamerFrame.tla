--------------------------- MODULE StreamerFrame ---------------------------
(***************************************************************************)
(* The frames the two streamers exchange: the words on the fabric and the  *)
(* order they may come in, as p_fsm of xtx_streamer.vhd emits them and     *)
(* p_fsm of xrx_streamer.vhd parses them:                                  *)
(*                                                                         *)
(*   sof, header words, { subframe header, data subwords, CRC }+,          *)
(*   padding words, eof                                                    *)
(*                                                                         *)
(* Subframe headers and padding are escaped (control) words.  A word is a  *)
(* record: its kind and a value where the protocol looks at one.           *)
(***************************************************************************)
EXTENDS Naturals, Sequences

CONSTANTS Subwords,     \* g_data_width / 16: fabric words per data word
          HeaderWords,  \* words 0 to 8 of the ETH_HEADER state: 9
          MinWords      \* c_min_packet_size: words before the padding stops

ASSUME FrameAssumption == /\ Subwords \in Nat \ {0}
                          /\ HeaderWords \in Nat \ {0}
                          /\ MinWords \in Nat

EscapeCode   == [kind |-> "cafe", v |-> 0]
Zero         == [kind |-> "zero", v |-> 0]
HeadWord     == [kind |-> "head", v |-> 0]
PadWord      == [kind |-> "0bad", v |-> 0]
SeqWord(n)   == [kind |-> "seq",  v |-> n]
DataWord(i)  == [kind |-> "data", v |-> i]   \* subword i of a data word
CrcWord(n)   == [kind |-> "crc",  v |-> n]   \* the CRC over n words

(* Where the wire is in a frame: the phase, the words of the phase so far  *)
(* and the words of the frame, of which only MinWords matter.              *)
NoFrame  == [phase |-> "none", n |-> 0, words |-> 0]
BadFrame == [phase |-> "bad",  n |-> 0, words |-> 0]
(* Nobody follows the rest of the frame. *)
LostFrame == [phase |-> "lost", n |-> 0, words |-> 0]

In(f, phase, n) ==
  [phase |-> phase, n |-> n,
   words |-> IF f.words < MinWords THEN f.words + 1 ELSE f.words]

AfterSof(f) == IF f.phase \in {"none", "lost"}
               THEN [NoFrame EXCEPT !.phase = "header"] ELSE BadFrame

AfterEof(f) == IF f.phase = "lost" THEN f
               ELSE IF f.phase = "padding" /\ f.words >= MinWords THEN NoFrame
               ELSE BadFrame

(* A data subword, and the CRC that closes a subframe of whole data words  *)
(* and covers all of them and the subframe header.                         *)
AfterData(f) == IF f.phase = "payload" THEN In(f, "payload", f.n + 1)
                ELSE BadFrame
AfterCrc(f, w) ==
  IF /\ f.phase = "payload"
     /\ f.n % Subwords = 0
     /\ w \in {CrcWord(f.n + 1), EscapeCode}
  THEN In(f, "closed", 0) ELSE BadFrame

(* A header or a control word. *)
AfterOther(f, w, escape) ==
  CASE f.phase = "header" /\ ~escape /\ w = HeadWord ->
         In(f, IF f.n + 1 = HeaderWords THEN "start" ELSE "header",
            IF f.n + 1 = HeaderWords THEN 0 ELSE f.n + 1)
    [] f.phase \in {"start", "closed"} /\ escape /\ w.kind = "seq" ->
         In(f, "payload", 0)
    [] f.phase \in {"closed", "padding"} /\ escape /\ w = PadWord ->
         In(f, "padding", 0)
    [] f.phase = "lost" -> f
    [] OTHER -> BadFrame
=============================================================================
