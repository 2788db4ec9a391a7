SPECIFICATION Spec
CONSTANTS
  h1 = h1
  h2 = h2
  rtsp = rtsp
  control = control
  Https <- Two
  Rtsp <- rtsp
  Control <- control
  N = 2
  MaxStreams = 1
  MaxCrossings = 1
INVARIANTS
  CleanSlate
