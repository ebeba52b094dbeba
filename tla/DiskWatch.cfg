SPECIFICATION FairSpec
CONSTANTS
  h1 = h1
  g1 = g1
  g2 = g2
  Hosts <- OneHost
  Guests <- TwoGuests
  Limit = 1
  MaxCounts = 2
  MaxEvents = 2
INVARIANTS
  TypeOK
  StopsOnlyUnanswered
  KickIsKept
PROPERTIES
  HostReturns
  AlertOnceWhileSampled
  AlertComes
