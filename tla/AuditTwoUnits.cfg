SPECIFICATION ChainSpec
CONSTANTS
  p1 = p1
  p2 = p2
  b1 = b1
  b2 = b2
  Appenders <- Two
  Body <- MCBody
  Torn = Torn
  NoDraft = NoDraft
  MaxLines = 3
INVARIANT ChainVerifies
