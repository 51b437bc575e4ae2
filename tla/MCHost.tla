------------------------------- MODULE MCHost -------------------------------
(* The instance of Host that TLC checks: two cards on buses 1 and 2, the   *)
(* firmware of the second prints, and one firmware file.  With OtherDevice *)
(* for Slots the scan misses a card that is there (FindsRequestedCard).    *)
EXTENDS Host

SameDevice  == {[bus |-> 1, devfn |-> 0], [bus |-> 2, devfn |-> 0]}
OtherDevice == {[bus |-> 1, devfn |-> 0], [bus |-> 2, devfn |-> 1]}

Second == {[bus |-> 2, devfn |-> 0], [bus |-> 2, devfn |-> 1]}
OnBuses  == {[bus |-> b, devfn |-> -1] : b \in {1, 2}}
OnBus2   == {[bus |-> 2, devfn |-> -1]}
AnyCard  == {[bus |-> -1, devfn |-> -1]}

OneFile == {<<"a1", "a2">>}
=============================================================================
