CONSTANTS
  NTaps = 3
  Coefs <- MCCoefs
  Scale = 2
  Inputs <- MCInputs
  Half = 2
  Divisor = 2
  Limit = 3
  Discards = 1
  PdDepth = 2
  TuneDepth = 2
SPECIFICATION LoopSpec
INVARIANTS LoopTypeOK
PROPERTIES ImplementsWindow
