SPECIFICATION Spec
CONSTANTS
  t1 = t1
  c1 = c1
  c2 = c2
  c3 = c3
  k1 = k1
  k2 = k2
  NoConn = NoConn
  Tabs <- OneTab
  Conns <- ThreeConns
  Callbacks <- TwoCallbacks
  MaxRestarts = 1
INVARIANTS
  NoSilentClose
PROPERTIES
  ToldTabsReload
  WokenHandlersEnd
CHECK_DEADLOCK FALSE
