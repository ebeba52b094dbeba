SPECIFICATION FairSpec
CONSTANTS
  d1 = d1
  c1 = c1
  p1 = p1
  f1 = f1
  f2 = f2
  anyArchive = anyArchive
  NoFetch = nofetch
  Fetches <- TwoFetches
  Deleters <- OneDeleter
  Readers <- OneCleanup
  Pages <- OnePage
  Archives <- UnknownArchive
  ArchiveKind <- UnknownKind
  Kinds <- OneKind
  Modes <- BothModes
  MaxTasks = 3
  MaxChanges = 1
INVARIANTS
  TypeOK
  DeletedIsTrue
CHECK_DEADLOCK FALSE
PROPERTIES
  ArchivesGoForAReason
  CleanupSeesInvalidation
  DeleteSettles
