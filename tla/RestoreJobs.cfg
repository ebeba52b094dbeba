SPECIFICATION FairSpec
CONSTANTS
  j1 = j1
  j2 = j2
  Jobs <- OneJob
  ServerBundle = server
  RouteBundle = route
  Nobody = nobody
  MaxAttempts = 2
  EarlyEnqueue = FALSE
  MaxCrashes = 2
  MaxDbFailures = 2
CHECK_DEADLOCK FALSE
INVARIANTS
  TypeOK
  IInv
  OneWorker
  SuccessIsTrue
  NoOrphan
PROPERTIES
  NoResubmitKnown
  SuccessIsFinal
  FailedStaysFailed
  Implements
  Settles
