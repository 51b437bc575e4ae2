CONSTANTS
  Subwords = 2
  HeaderWords = 9
  MinWords = 17
  Threshold = 2
  MaxWords = 2
  Timeout = 2
  TimerSize = 4
  CountSize = 16
  FrameCountSize = 8
  SeqSize = 2
  Requests = {}
  Entry <- CafeEnds
  StallStates <- NeverStalls
  StallsEscapes = FALSE
SPECIFICATION FairSpec
PROPERTIES BufferedWordsLeave
