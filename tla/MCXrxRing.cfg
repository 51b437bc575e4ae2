CONSTANTS
  Subwords = 3
  HeaderWords = 9
  MinWords = 0
  BufferSize = 3
  SeqSize = 1
  FilterRemote = TRUE
  AcceptBroadcasts = TRUE
  Addresses <- OnlyToUs
  Values = {1}
  MaxBlock = 2
  Damages = {"control"}
  CutPhases <- AllPhases
  BreaksAtHeader = FALSE
  ResetStates = {"IDLE"}
SPECIFICATION Spec
INVARIANTS AcceptNeverMeetsDrop RingDeliversWholeBlocks
PROPERTIES ImplementsReceiver
