CONSTANTS
  a1 = a1  a2 = a2  g1 = g1  g2 = g2  r = r  m1 = m1  m2 = m2  m3 = m3  m4 = m4
  Actor = {a1, a2}
  Group = {g1, g2}
  Root = r
  Parent <- DeepParent
  Above <- DeepAbove
  MaxConc <- Conc1
  Msg = {m1, m2, m3}
  Requests = {m1, m2}
  Quit = {m3}
  Uses <- AnyUse
  NoMsg = NoMsg
  MaxHops = 1
SPECIFICATION FairSpec
INVARIANTS TypeOK NoDanglingReference CountsRight NoLostActivation ExitOnceEmpty OnlyForceDrops
PROPERTIES NoBirthUnderStopping StoppingEnds RequestSettled
CHECK_DEADLOCK FALSE
