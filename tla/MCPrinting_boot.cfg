SPECIFICATION Spec
CONSTANTS
  StackTop = 11
  Junk = 9999
INVARIANTS
  CallerUndisturbed
  Readable
  OutcomesFilledIn
PROPERTIES
  ImplementsScreen
CHECK_DEADLOCK FALSE
