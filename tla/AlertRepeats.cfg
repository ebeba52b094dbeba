SPECIFICATION Spec
CONSTANTS
  h1 = h1
  g1 = g1
  g2 = g2
  Hosts <- OneHost
  Guests <- TwoGuests
  Limit = 1
  MaxCounts = 1
  MaxEvents = 0
PROPERTIES
  AlertOnce
