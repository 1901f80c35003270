SPECIFICATION Spec
CONSTANTS
  a = a
  b = b
  k1 = k1
  k2 = k2
  k3 = k3
  Nil = Nil
  Callbacks <- ThreeCallbacks
  Files <- TwoFiles
  Initial <- ThereAtStart
  MaxEdits = 2
INVARIANT
  EveryChangeRegenerated
CHECK_DEADLOCK FALSE
