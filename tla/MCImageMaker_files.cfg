SPECIFICATION BootSpec
CONSTANTS
  BYTEOFSECTOR = 4
  HeaderOffset = 1
  WordSize = 8
  BootSizes <- MCBootSizes
  KernelSizes <- MCKernelSizes
  Capacities <- MCCapacities
INVARIANTS
  BootTypeOK
  ImageExact
  NoCountOnFailure
  FinishedImageBoots
  UncountedImageShort
PROPERTIES
  BootEnds
CHECK_DEADLOCK FALSE
