SPECIFICATION FairSpec
CONSTANTS
  a = a
  b = b
  c = c
  u1 = u1
  u2 = u2
  w1 = w1
  Pairer = Pairer
  Nobody = Nobody
  Clients <- ThreeClients
  Ids = {u1, u2}
  UniqueId <- SharedId
  Web <- OneWeb
  MaxRequests = 2
  MaxChanges = 1
  MaxRestarts = 1
INVARIANTS
  TypeOK
  
  RegistryKept
PROPERTIES
  PendingEnds
