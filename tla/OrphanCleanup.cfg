SPECIFICATION Spec
CONSTANTS
  d1 = d1
  c1 = c1
  p1 = p1
  f1 = f1
  f2 = f2
  anyArchive = anyArchive
  NoFetch = nofetch
  Fetches <- OneFetch
  Deleters <- OneDeleter
  Readers <- OneCleanup
  Pages <- NoPage
  Archives <- UnknownArchive
  ArchiveKind <- UnknownKind
  Kinds <- OneKind
  Modes <- DialogOnly
  MaxTasks = 3
  MaxChanges = 1
CHECK_DEADLOCK FALSE
PROPERTIES
  CleanupOnlyOrphans
