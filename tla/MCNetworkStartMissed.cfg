CONSTANTS
  a1 = a1  a2 = a2  a3 = a3
  M = 2
  Cores <- ThreeCores
  Addr <- OneEach
  P2P = 2
  Settings <- Unsynced
SPECIFICATION Spec
INVARIANTS RunningIsConnected
CHECK_DEADLOCK FALSE
