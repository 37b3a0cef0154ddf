CONSTANTS
  f1 = f1  f2 = f2  f3 = f3  fg = fg  ca = ca  cb = cb  cc = cc  g1 = g1  g2 = g2
  GenThread = {1}
  ActorFile = {f1, f2, f3}
  GroupFile = {fg}
  Classes <- Headers
  Base <- NestedBase
  Template = Template
  Methods <- MethodList
  Pure <- NonePure
  Dir <- TwoDirs
  FirstGroupTid = 6
  NoClass = NoClass
SPECIFICATION CodegenSpec
INVARIANT MethodReached
CHECK_DEADLOCK FALSE
