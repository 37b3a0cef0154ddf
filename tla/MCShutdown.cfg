CONSTANTS
  b1 = b1  b2 = b2
  N = 3
  PeaceStopped = PeaceStopped
  Barrier = {b1, b2, PeaceStopped}
  Kind <- OneKind
  QueueLength = 1
  MaxActors = 1
SPECIFICATION FairSpec
INVARIANTS ShutdownSound NoActorAtExit
PROPERTIES ExitEndsEngine
CHECK_DEADLOCK FALSE
