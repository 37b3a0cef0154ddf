CONSTANTS
  a1 = a1  a2 = a2  a3 = a3
  M = 3
  Cores <- ThreeCores
  Addr <- OneEach
  P2P = 1
  Settings <- SomeSettings
SPECIFICATION FairSpec
INVARIANTS RoutesReach TablesSound BarrierPreventsRefusal
PROPERTIES AllStart
CHECK_DEADLOCK FALSE
