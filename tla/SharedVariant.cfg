SPECIFICATION Spec
CONSTANTS
  Definitions <- MCDefinitions
  Kind <- MCKind
  Chain <- MCChain
  MaxMade = 3
  MaxSnapshots = 2
  MaxCopies = 2
INVARIANT VariantReadOnly
CHECK_DEADLOCK FALSE
