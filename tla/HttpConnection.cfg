SPECIFICATION FairSpec
CONSTANTS
  Word <- MCWord
  Request <- MCRequest
  FileSystem <- MCFileSystem
  BufferSize = 9
  MaxAsks = 2
  MaxSegments = 2
  MaxWrites = 2
  SendBuffer = 6
CHECK_DEADLOCK FALSE
INVARIANT HttpInv
INVARIANT WireInOrder
INVARIANT WholeRequest
PROPERTY Handled
