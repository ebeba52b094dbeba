SPECIFICATION FairSpec
CONSTANTS
  s1 = s1
  s2 = s2
  a = a
  b = b
  NoFile = nofile
  Sessions <- TwoSessions
  Files <- TwoFiles
  Size <- Sizes
  MaxStops = 2
INVARIANTS
  TypeOK
  DoneIsTrue
CHECK_DEADLOCK FALSE
PROPERTIES
  Replaces
  Arrives
