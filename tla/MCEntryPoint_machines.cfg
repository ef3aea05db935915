SPECIFICATION Spec
CONSTANTS
  Offset <- MCOffset
  FirmwareBases <- MCFirmwareBases
  PortBits <- MCPortBits
INVARIANTS
  TypeOK
  StaysUp
  ReadyForC
  GateOpened
PROPERTIES
  OnlyOpensGate
  EntersMain
CHECK_DEADLOCK FALSE
