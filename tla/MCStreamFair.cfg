SPECIFICATION FairSpec
CONSTANTS
  a = a
  b = b
  http = http
  probe = probe
  NoOne = NoOne
  AV <- OneVideo
  ControlOnly <- OneControl
  HttpThreads <- OneHttp
  Probes <- OneProbe
  AppMayExit = FALSE
  HostMayShutDown = FALSE
  ClientMayCancel = TRUE
INVARIANTS
  ListedAlive
PROPERTIES
  JoinReturns
  StoppedSessionsGo
