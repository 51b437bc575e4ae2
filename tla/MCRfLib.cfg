CONSTANTS
  WordBits = 3
  Mask = 8
  Master = m
  Slave = s
  SysRegs <- TwoRegs
  AdfWords <- ThreeWords
  MaxKills = 2
SPECIFICATION FairSpec
INVARIANTS TypeOK ModeMeansConfigured
PROPERTIES WordsReachTheirChip ModesComeOn
