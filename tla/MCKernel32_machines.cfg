SPECIFICATION Spec
CONSTANTS
  MB = 6
  CheckEnd = 64
  AreaEnd = 6
  StackWord = 2
  CodeWord = 3
  RamSizes <- MCRamSizes
  BrokenSets <- MCBrokenSets
INVARIANTS
  TypeOK
  LowMemoryIntact
  CodeNeverCleared
  KernelAreaReady
  NoFalseAlarm
  ProbesWork
PROPERTIES
  Settles
CHECK_DEADLOCK FALSE
