SPECIFICATION FairSpec
CONSTANTS
  c1 = c1
  c2 = c2
  home = home
  k1 = k1
  cert1 = cert1
  u1 = u1
  NoAddr = NoAddr
  NoKey = NoKey
  NoCert = NoCert
  NoUid = NoUid
  Conns <- TwoConns
  Peers <- MCPeers
  Keys <- MCKeys
  Certs <- MCCerts
  Uids <- MCUids
  Requests <- Clients
  GlobalLimit = 2
  PerClientLimit = 1
  PingTimeout = 1
  MaxLaunches = 2
INVARIANTS
  TypeOK
  ClaimsMatchHolders
  WithinLimits
PROPERTIES
  HeldTicketStays
  ClaimsUnambiguous
  LifecycleSpec
  ClaimsReturned
