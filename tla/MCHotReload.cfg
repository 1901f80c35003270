SPECIFICATION Spec
CONSTANTS
  a = a
  b = b
  k1 = k1
  k2 = k2
  k3 = k3
  Nil = Nil
  Callbacks <- ThreeCallbacks
  Files <- TwoFiles
  Initial <- OneAtStart
  MaxEdits = 3
INVARIANTS
  SpacedChangesShown
PROPERTY
  ChangesBroadcast
CHECK_DEADLOCK FALSE
