SPECIFICATION Spec
CONSTANTS
  MaxEdits = 2
  MaxFailures = 2
INVARIANTS
  SuccessMeansCurrent
PROPERTIES
  OnlyScriptStale
  Recovers
