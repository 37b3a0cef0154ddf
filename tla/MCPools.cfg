CONSTANTS
  s1 = s1  s2 = s2  w1 = w1  w2 = w2  i1 = i1  i2 = i2  i3 = i3
  Shard = {s1, s2}
  Worker = {w1}
  Item = {i1, i2, i3}
  From <- TwoFrom
  NoItem = NoItem
  k1 = k1  k2 = k2  k3 = k3  x1 = x1  x2 = x2
  Thread = {0, 1}
  Task = {k1, k2, k3}
  NoTask = NoTask
  Stream = {x1, x2}
  EventNum = 2
  GpuTask = {k1, k2, k3}
  NoStream = NoStream
  c1 = c1  c2 = c2  c3 = c3
  Req = {c1, c2, c3}
  NoReq = NoReq
  LateRequests = FALSE
  f1 = f1  f2 = f2  f3 = f3  fg = fg  ca = ca  cb = cb  cc = cc  g1 = g1  g2 = g2
  GenThread = {1, 2}
  ActorFile = {f1, f2, f3}
  GroupFile = {fg}
  Classes <- Headers
  Base <- FlatBase
  Template = Template
  Methods <- MethodList
  Pure <- NonePure
  Dir <- SharedDirs
  FirstGroupTid = 6
  NoClass = NoClass
SPECIFICATION PoolsSpec
INVARIANTS PoolSafe AlienSafe GpuSafe RequestsSound OwnResult TypeIdsSound MethodReached FailsForCause
PROPERTIES CompletesWhileAwake DestroyReturns WaitingIsServed StopReleasesCallers
CHECK_DEADLOCK FALSE
