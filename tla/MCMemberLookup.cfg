CONSTANTS
  IfaceCount = 3
  ClassCount = 2
  MaxIfaces = 2
  Avoided <- MCAvoided
SPECIFICATION LookupSpec
INVARIANTS
  FollowsJVMS
CHECK_DEADLOCK FALSE
