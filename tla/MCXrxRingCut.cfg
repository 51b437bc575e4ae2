CONSTANTS
  Subwords = 3
  HeaderWords = 9
  MinWords = 0
  BufferSize = 4
  SeqSize = 1
  FilterRemote = TRUE
  AcceptBroadcasts = TRUE
  Addresses <- OnlyToUs
  Values = {1}
  MaxBlock = 1
  Damages = {}
  CutPhases = {"payload"}
  BreaksAtHeader = TRUE
  ResetStates = {}
SPECIFICATION Spec
INVARIANTS RingDeliversWholeBlocks
