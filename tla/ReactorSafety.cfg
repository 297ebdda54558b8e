SPECIFICATION Spec
CONSTANTS
  Conn = {c1, c2, c3}
  c1 = c1
  c2 = c2
  c3 = c3
  NFd = 2
  MaxSend = 1
  NReactor = 2
  None = None
  File = File
SYMMETRY Symmetry
INVARIANT MapSound
INVARIANT OpenIsMapped
INVARIANT NoLostEdge
INVARIANT IInv
PROPERTY SocketKept
CHECK_DEADLOCK FALSE
