SPECIFICATION FairSpec
CONSTANTS
  Conn = {c1, c2}
  c1 = c1
  c2 = c2
  NFd = 2
  MaxSend = 2
  NReactor = 1
  None = None
  File = File
INVARIANT NoFreedChannel
PROPERTY InputIsRead
PROPERTY HangupReclaims
CHECK_DEADLOCK FALSE
