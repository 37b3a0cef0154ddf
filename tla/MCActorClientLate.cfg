CONSTANTS
  c1 = c1  c2 = c2  c3 = c3
  Req = {c1, c2, c3}
  NoReq = NoReq
  LateRequests = TRUE
SPECIFICATION Spec
INVARIANTS OwnResult
CHECK_DEADLOCK FALSE
