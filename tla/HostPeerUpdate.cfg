SPECIFICATION Spec
CONSTANTS
  admin = admin
  r1 = r1
  r2 = r2
  in1 = in1
  Origin = "PEER"
  Prober = prober
  Syncer = syncer
  Admins <- OneAdmin
  Requests <- OneRequest
  Incoming <- OneHandler
  MaxFlaps = 0
  MaxSwitches = 0
  MaxUpdates = 1
PROPERTIES
  UpdateIsNoOutage
