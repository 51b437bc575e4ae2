CONSTANTS
  Subwords = 2
  HeaderWords = 2
  MinWords = 8
  Threshold = 2
  MaxWords = 2
  Timeout = 2
  TimerSize = 4
  CountSize = 4
  FrameCountSize = 3
  SeqSize = 1
  Requests = {}
  Entry <- PlainEntry
  StallStates = {"CRC_WORD"}
  StallsEscapes = FALSE
SPECIFICATION Spec
INVARIANTS OutputOnlyOnRequest
