SPECIFICATION VersionSpec
CONSTANTS
  Nil = Nil
  MaxInt = 31
  Identifiers <- MCIdentifiers
  Gates <- MCGates
  MaxPart = 1
  MaxPre = 2
INVARIANT FollowsPrecedence
PROPERTY UpgradesNeverRevert
CHECK_DEADLOCK FALSE
