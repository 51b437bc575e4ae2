--------------------------- MODULE MCXtxStreamer ---------------------------
(* The instances of XtxStreamer that TLC checks: data words of two fabric  *)
(* words, a buffer of four, blocks of at most two words, headers of two.   *)
EXTENDS XtxStreamer

(* Where the fabric may stall. *)
NeverStalls == {}
Anywhere    == States

(* The data words: with the escape code in any subwords; in none; in at    *)
(* most one, which is not the last one of a block; in the last one only.   *)
AnyEntry   == [last : BOOLEAN, cafe : SUBSET (0 .. Subwords - 1)]
PlainEntry == {e \in AnyEntry : e.cafe = {}}
SafeEntry  == {e \in AnyEntry : /\ Cardinality(e.cafe) <= 1
                                /\ e.last => Subwords - 1 \notin e.cafe}
CafeEnds   == {e \in AnyEntry : e.cafe \subseteq {Subwords - 1}}
=============================================================================
