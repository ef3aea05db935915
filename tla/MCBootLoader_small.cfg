SPECIFICATION Spec
CONSTANTS
  Disks <- SmallDisks
  Sectors <- SmallSectors
  SectorsPerTrack = 3
  Tracks = 2
  MaxResets = 2
INVARIANTS
  TypeOK
  KernelImageLoaded
  LoadAreaOnly
  ScreenHonest
PROPERTIES
  Settles
  ImplementsSectorCopy
CHECK_DEADLOCK FALSE
