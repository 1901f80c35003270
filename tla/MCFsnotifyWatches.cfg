SPECIFICATION Spec
CONSTANTS
  Root = r
  up = up
  down = down
  file = file
  Dirs <- MCDirs
  Files <- MCFiles
  Names <- MCNames
  Rest <- MCRest
  Starts <- MCStarts
  New = New
  Gone = Gone
  None = None
  MaxKernel = 2
  Callers = 1
  MaxWatches = 3
INVARIANTS
  WatchesListen
  ReportedOnce
  PathsFollow
PROPERTIES
  LatestReported
CHECK_DEADLOCK FALSE
