CONSTANTS
  s1 = s1  s2 = s2  w1 = w1  w2 = w2  i1 = i1  i2 = i2  i3 = i3
  Shard = {s1, s2}
  Worker = {w1}
  Item = {i1, i2}
  From <- TwoFrom
  NoItem = NoItem
SPECIFICATION PoolFairSpec
PROPERTIES SubmittedCompletes
CHECK_DEADLOCK FALSE
