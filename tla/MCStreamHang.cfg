SPECIFICATION FairSpec
CONSTANTS
  a = a
  b = b
  http = http
  probe = probe
  NoOne = NoOne
  AV <- OneVideo
  ControlOnly <- OneControl
  HttpThreads <- Nobody
  Probes <- Nobody
  AppMayExit = TRUE
  HostMayShutDown = FALSE
  ClientMayCancel = TRUE
PROPERTIES
  JoinReturns
