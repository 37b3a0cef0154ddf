CONSTANTS
  a1 = a1  a2 = a2  g1 = g1  g2 = g2  r = r  m1 = m1  m2 = m2  m3 = m3  m4 = m4
  Actor = {a1, a2}
  Group = {}
  Root = r
  Parent <- PairParent
  Above <- PairAbove
  MaxConc <- Conc2
  Msg = {m1, m2, m3, m4}
  Requests = {}
  Quit = {m4}
  Uses <- FlatUse
  NoMsg = NoMsg
  MaxHops = 2
SPECIFICATION Spec
INVARIANTS ShardConsistent
CHECK_DEADLOCK FALSE
