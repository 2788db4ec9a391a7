SPECIFICATION Spec
CONSTANTS
  a = a
  b = b
  http = http
  probe = probe
  NoOne = NoOne
  AV <- TwoVideo
  ControlOnly <- Nobody
  HttpThreads <- OneHttp
  Probes <- Nobody
  AppMayExit = TRUE
  HostMayShutDown = TRUE
  ClientMayCancel = TRUE
INVARIANTS
  TypeOK
  JoinedByOne
  ThreadsHaveSession
  SessionsHaveBroadcast
  ControlListAlive
PROPERTIES
  LifeSpec
