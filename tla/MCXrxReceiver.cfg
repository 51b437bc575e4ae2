CONSTANTS
  Subwords = 3
  HeaderWords = 9
  MinWords = 0
  BufferSize = 3
  SeqSize = 1
  FilterRemote = TRUE
  AcceptBroadcasts = TRUE
  Addresses <- OursAndForeign
  Values = {1, 2}
  MaxBlock = 2
  Damages = {"data"}
  CutPhases = {"payload", "closing"}
  BreaksAtHeader = FALSE
  ResetStates <- QuietStates
SPECIFICATION FairSpec
INVARIANTS TypeOK DeliversWholeBlocks NoOverrun
PROPERTIES GoodBlocksArrive NeverWedged
