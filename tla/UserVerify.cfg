SPECIFICATION VFairSpec
CONSTANTS
  t1 = t1
  t2 = t2
  t3 = t3
  Thread = {t1, t2, t3}
  MaxConn = 2
  MaxServed = 2
  None = None
INVARIANT VInv
INVARIANT NeverPopsEmpty
PROPERTY EndsOnlyWhenBusy
PROPERTY PoolNeverJams
CHECK_DEADLOCK FALSE
