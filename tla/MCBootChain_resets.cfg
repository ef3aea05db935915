SPECIFICATION Spec
CONSTANTS
  Disks <- MCDisks
  Sectors <- MCSectors
  Offset <- MCOffset
  PortBits = {0, 1}
  MB = 3
  CheckEnd = 3
  AreaEnd = 2
  StackWord = 1
  CodeWord = 2
  RamSizes <- MCRamSizes
  BrokenSets <- MCBrokenSets
  MaxResets = 2
INVARIANTS
  ImageStays
  ScreenOfThisBoot
  SaysTrue
PROPERTIES
  TellsOutcome
CHECK_DEADLOCK FALSE
