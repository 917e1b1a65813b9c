SPECIFICATION VersionSpec
CONSTANTS
  Nil = Nil
  MaxInt = 31
  Identifiers <- MCHyphened
  Gates <- MCHyphenedGates
  MaxPart = 1
  MaxPre = 2
INVARIANT FollowsPrecedence
CHECK_DEADLOCK FALSE
