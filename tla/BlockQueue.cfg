SPECIFICATION FairSpec
CONSTANTS
  x = x
  y = y
  c1 = c1
  c2 = c2
  p1 = p1
  p2 = p2
  p3 = p3
  Producer = {p1, p2, p3}
  Consumer = {c1, c2}
  Item = {x, y}
  Capacity = 2
  None = None
INVARIANT NoLostItem
INVARIANT NoLostSlot
INVARIANT SlotInv
PROPERTY FifoSpec
PROPERTY PushesGoOn
PROPERTY CloseReleases
