SPECIFICATION Spec
CONSTANTS
  j1 = j1
  j2 = j2
  Jobs <- TwoJobs
  ServerBundle = server
  RouteBundle = route
  Nobody = nobody
  MaxAttempts = 1
  EarlyEnqueue = FALSE
  MaxCrashes = 1
  MaxDbFailures = 0
CHECK_DEADLOCK FALSE
INVARIANTS
  RememberedAcrossRestart
