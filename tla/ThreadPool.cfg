SPECIFICATION FairSpec
CONSTANTS
  w1 = w1
  w2 = w2
  w3 = w3
  a = a
  b = b
  c = c
  d = d
  main = main
  Worker = {w1, w2, w3}
  Owner = main
  Task = {a, b, c, d}
  NoTask = NoTask
CHECK_DEADLOCK FALSE
INVARIANT PoolInv
PROPERTY TaskPoolSpec
PROPERTY TasksStart
PROPERTY Joins
