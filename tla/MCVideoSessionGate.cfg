SPECIFICATION FairSpec
CONSTANTS
  v1 = v1
  v2 = v2
  v3 = v3
  Sessions <- Three
  Limit = 2
  MaxRequests = 2
INVARIANTS
  TypeOK
PROPERTIES
  GateSpec
  Answered
CHECK_DEADLOCK FALSE
