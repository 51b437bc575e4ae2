-------------------------- MODULE MCDroppingBuffer --------------------------
(* The instance of DroppingBuffer that TLC checks: four slots, so that the *)
(* pointers wrap, the buffer fills and a three word block fits exactly;    *)
(* two words, so that a swapped, lost or stale one shows.                  *)
EXTENDS DroppingBuffer

CONSTANTS d1, d2
MCData == {d1, d2}
=============================================================================
