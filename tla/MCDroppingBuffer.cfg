CONSTANTS
  Size = 4
  d1 = d1
  d2 = d2
  Data <- MCData
SPECIFICATION FairSpec
INVARIANTS TypeOK RingOrder
PROPERTIES ImplementsBlockFifo AcceptedWordsComeOut
