SPECIFICATION Spec
CONSTANTS
  Byte = {0, 49, 97}
  Text <- MCText
  Nul = 0
  Garbage = 256
  Below <- MCBelow
  MaxPrealloc = 2
  MaxLen = 5
  Format <- MCFormat
  StaticBuf = 6
  LLMax = 127
  LLStrSize = 5
  Line <- MCLine
  Argument <- MCArgument
  Splittable <- MCSplittable
  Separator <- MCSeparator
  FirstSlots = 2
INVARIANT SdsInv
INVARIANT Meaning
INVARIANT GrowsSeldom
INVARIANT FormatsFit
INVARIANT ReprRoundTrip
INVARIANT SplitsApart
INVARIANT TextMeaning
