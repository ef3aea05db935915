SPECIFICATION Spec
CONSTANTS
  MB = 6
  CheckEnd = 64
  AreaEnd = 6
  StackWord = 2
  CodeWord = 3
  RamSizes <- MCRamSizes
  BrokenSets <- MCBrokenSets
INVARIANTS
  PassMeansEnoughMemory
CHECK_DEADLOCK FALSE
