SPECIFICATION Spec
CONSTANTS
  p1 = p1
  p2 = p2
  v1 = v1
  Orig = Orig
  Other = Other
  Extended = Extended
  NoSnap = NoSnap
  Void = Void
  Requests <- MCRequests
  VddRequests <- MCVdd
  Offers <- Mixed
  MaxRetries = 2
  MaxTasks = 1
INVARIANT OriginalKept
