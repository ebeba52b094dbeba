SPECIFICATION Spec
CONSTANTS
  p1 = p1
  p2 = p2
  cli = cli
  v1 = v1
  Posts <- TwoPosts
  Updater = updater
  Clis <- OneCli
  Tags <- OneTag
  Free = free
  Unsigned = unsigned
  NoTag = latest
  MaxPosts = 1
  MaxCliRuns = 1
  MaxStartFailures = 0
  MaxRestarts = 0
  MaxKills = 0
INVARIANTS
  OneUpdateAtOnce
