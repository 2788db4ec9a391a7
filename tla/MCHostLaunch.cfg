SPECIFICATION FairSpec
CHECK_DEADLOCK FALSE
CONSTANTS
  h1 = h1
  h2 = h2
  rtsp = rtsp
  control = control
  Https <- One
  Rtsp <- rtsp
  Control <- control
  N = 2
  MaxStreams = 1
  MaxCrossings = 1
INVARIANTS
  TypeOK
  PreparedWhileItRuns
  CleanWhenAlone
  OneCleanup
PROPERTIES
  CancelLeavesNothing
  CancelCompletes
