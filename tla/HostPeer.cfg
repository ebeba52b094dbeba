SPECIFICATION FairSpec
CONSTANTS
  admin = admin
  r1 = r1
  r2 = r2
  in1 = in1
  Origin = "PEER"
  Prober = prober
  Syncer = syncer
  Admins <- NoAdmin
  Requests <- NoRequests
  Incoming <- OneHandler
  MaxFlaps = 1
  MaxSwitches = 0
  MaxUpdates = 2
PROPERTIES
  WindowCloses
  PeerHostReturns
