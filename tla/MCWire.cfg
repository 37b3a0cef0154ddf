CONSTANTS
  d1 = d1  t1 = t1  t2 = t2  t3 = t3
  Shard = {0, 1}
  Dest = {d1}
  ProxyOf <- OneProxy
  RingCap = 1
  BatchSize = 2
  MaxSent = 2
  MaxBreaks = 1
  Buffer <- Buffers
  ArrayCap = 2
  HeaderLength = 2
  MaxBuffers = 5
  Element <- Elements
  Capacity = 2
  Reserves = {0, 1, 7}
  UIntMod = 8
  Actor = {t1, t2, t3}
  Priority <- Priorities
  MaxLayer = 4
  ScopeShard = {0, 1}
  ScopeId <- Ids
  MethodType = 9
SPECIFICATION WireSpec
INVARIANTS PathSafe BatchSound PopsHighest AddressIntact
PROPERTIES EverythingArrives BothStopsReturn SerializableIsFifo
CHECK_DEADLOCK FALSE
