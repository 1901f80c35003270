SPECIFICATION Spec
CONSTANTS
  loop = loop
  other = other
  Nil = Nil
  Callers <- TwoCallers
  Consumer = loop
  Ops <- AllOps
  EvCap = 1
  MaxBatch = 2
  MaxIO = 1
  MaxCalls = 2
INVARIANTS
  WakeupsSuffice
  ReplyHasReceiver
PROPERTIES
  CallsReturn
  EventsArrive
CHECK_DEADLOCK FALSE
