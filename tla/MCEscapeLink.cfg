CONSTANTS
  cafe = cafe
  zero = zero
  w1 = w1
  w2 = w2
  w3 = w3
  Word <- MCWord
  EscapeCode = cafe
  Zero = zero
  Stalls = TRUE
SPECIFICATION FairSpec
INVARIANTS TypeOK DecodesInOrder
PROPERTIES LosesOnlyAfterStall EveryWordArrives
