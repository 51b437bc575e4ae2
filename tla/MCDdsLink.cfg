CONSTANTS
  Rate = 61
  TaiSize = 4
  CyclesSize = 128
  SyncEdges = {2, 3}
  CountSize = 3
  MasterId = 1
  NoId = 0
  Delay = 54
  SlaveId = 1
  FifoSize = 2
  FifoLatency = 3
  CounterSize = 3
  Beginning = 62
  MasterOn = 66
  Start = {67}
  Period = 28
  EndOfTime = 184
  MaxStall = 1
  MaxTransport = 12
  ForeignId = 2
  MaxForeign = 1
  MaxSwitches = 1
SPECIFICATION Spec
INVARIANTS TypeOK WholeSamples InTime NoSampleForgotten CicResetWithFirst
PROPERTIES AppliedOnTime
