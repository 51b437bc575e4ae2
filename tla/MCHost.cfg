CONSTANTS
  NULL = NULL
  NoHandle = NoHandle
  Slots <- SameDevice
  Others = {module}
  MemSize = 2
  FifoSize = 1
  Talkative <- Second
  Loaders = {spec_cl}
  FwRequests <- OnBuses
  LoadRequests <- OnBus2
  Files <- OneFile
  ConsoleRequests <- OnBus2
  Keys = {"a", "b"}
  CtrlA = "ctrl-a"
  MaxKeys = 2
SPECIFICATION FairSpec
INVARIANTS TypeOK OpensRequestedCard CpuRunsWholeFirmware
PROPERTIES SuccessMeansLoaded KeysReachCpuInOrder ExitKeyWorks
