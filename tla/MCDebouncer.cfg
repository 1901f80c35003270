SPECIFICATION Spec
CONSTANTS
  p1 = p1
  p2 = p2
  c1 = c1
  c2 = c2
  c3 = c3
  Nil = Nil
  Callers <- MCCallers
  Callbacks <- MCCallbacks
INVARIANTS
  TypeOK
  OneArmed
  LastCallSurvives
PROPERTIES
  KeepsPromise
CHECK_DEADLOCK FALSE
