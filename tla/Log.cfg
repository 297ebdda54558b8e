SPECIFICATION LFairSpec
CONSTANTS
  w1 = w1
  w2 = w2
  t = t
  Producer = {w1, w2}
  Consumer = {t}
  WriteThread = t
  Item <- MCItem
  Capacity = 1
  MaxLines = 2
  MaxWrites = 4
  MaxDay = 1
  None = None
INVARIANT LInv
INVARIANT EachLineOnce
INVARIANT FileReady
INVARIANT OvertakesFew
PROPERTY LineLogSpec
PROPERTY LinesAreWritten
PROPERTY SleepersAreWoken
CHECK_DEADLOCK FALSE
