SPECIFICATION FairSpec
CONSTANTS
  admin = admin
  r1 = r1
  r2 = r2
  in1 = in1
  Origin = "LOCAL"
  Prober = prober
  Syncer = syncer
  Admins <- OneAdmin
  Requests <- OneRequest
  Incoming <- NoHandlers
  MaxFlaps = 1
  MaxSwitches = 2
  MaxUpdates = 0
INVARIANTS
  TypeOK
PROPERTIES
  MaintenanceKeptByNewFlows
  Converges
  OutageReported
