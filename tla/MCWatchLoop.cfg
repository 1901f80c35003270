SPECIFICATION Spec
CONSTANTS
  root = root
  d1 = d1
  d2 = d2
  a = a
  b = b
  backup = backup
  Entries <- MCEntries
  Dirs <- MCDirs
  Root = root
  Parent <- MCParent
  Ignored <- MCIgnored
  Initial <- MCInitial
  Changes <- AllChanges
  Overflows = TRUE
  MaxChanges = 4
INVARIANTS
  SettledWatched
PROPERTY
  ChangesCovered
CHECK_DEADLOCK FALSE
