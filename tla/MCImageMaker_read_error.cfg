SPECIFICATION BootSpec
CONSTANTS
  BYTEOFSECTOR = 4
  HeaderOffset = 1
  WordSize = 8
  BootSizes <- MCBootSizes
  KernelSizes <- MCKernelSizes
  Capacities <- MCCapacities
INVARIANTS
  KernelCopied
CHECK_DEADLOCK FALSE
