SPECIFICATION Spec
CONSTANTS
  root = root
  sub = sub
  old = old
  page = page
  style = style
  start = start
  first = first
  second = second
  None = None
  Folder = Folder
  Empty = Empty
  Torn = Torn
  Order <- MCOrder
  Root = root
  Parent <- MCParent
  Dirs <- MCDirs
  Md <- MCMd
  Css <- MCCss
  Initial <- MCInitial
  Stale <- MCStale
  Main = start
  Jobs <- ThreeJobs
  Fragile <- MCFragile
  MaxEdits = 1
  MaxOpen = 1
INVARIANTS
  EndHasCause
PROPERTIES
  AloneReproduces
CHECK_DEADLOCK FALSE
