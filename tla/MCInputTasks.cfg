SPECIFICATION FairSpec
CONSTANTS
  a = a
  b = b
  k1 = k1
  Sessions <- MCSessions
  Clients <- OneClient
  Keys <- OneKey
  Left = Left
  Ids <- MCIds
  NoId = NoId
  Disabled = Disabled
  NoTask = NoTask
  MaxMessages = 3
INVARIANTS
  TypeOK
  OneRepeat
  
PROPERTIES
  
  LeftComesUp
CHECK_DEADLOCK FALSE
