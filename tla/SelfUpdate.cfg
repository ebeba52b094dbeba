SPECIFICATION FairSpec
CONSTANTS
  p1 = p1
  p2 = p2
  cli = cli
  v1 = v1
  Posts <- TwoPosts
  Updater = updater
  Clis <- OneCli
  Tags <- OneTag
  Free = free
  Unsigned = unsigned
  NoTag = latest
  MaxPosts = 2
  MaxCliRuns = 1
  MaxStartFailures = 1
  MaxRestarts = 1
  MaxKills = 1
INVARIANTS
  FilesCoordinate
  BusyCoversUpdater
  RunsOnce
PROPERTIES
  PinWins
  DroppedForOthersOnly
  RequestServed
  BusyEnds
  PeersReleased
