SPECIFICATION VirtualSpec
CONSTANTS
  Disks <- MCDisks
  TotalSectorCount = 14
  SectorsPerTrack = 3
  Digits = 3
  WordSize = 36
INVARIANTS
  VerdictTrue
PROPERTIES
  ImplementsSectorCopy
  RightImageEnds
CHECK_DEADLOCK FALSE
