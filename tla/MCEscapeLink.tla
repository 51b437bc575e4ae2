--------------------------- MODULE MCEscapeLink ---------------------------
(* The instance of EscapeLink that TLC checks: the escape code, the zero   *)
(* word and three ordinary words, each sent as data or as a control word.    *)
EXTENDS EscapeLink

CONSTANTS cafe, zero, w1, w2, w3
MCWord == {cafe, zero, w1, w2, w3}
=============================================================================
