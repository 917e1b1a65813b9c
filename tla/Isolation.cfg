SPECIFICATION Spec
CONSTANTS
  Definitions <- MCDefinitions
  Kind <- MCKind
  Chain <- MCChain
  MaxMade = 4
  MaxSnapshots = 2
  MaxCopies = 2
INVARIANTS WritesStayOut HeldApart
CHECK_DEADLOCK FALSE
