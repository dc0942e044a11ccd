SPECIFICATION Spec
CONSTANTS
  f = f
  g = g
  h = h
  None = None
  NoPin = NoPin
  File = {f, g}
  Listed = {f, g}
  Size <- OneOrTwoChunks
  Pins <- MCPins
  MaxTries = 2
  BinaryBuffer = 4
  Configs <- OpenOnly
  Selections <- AllSelections
  Faults = {}
INVARIANT EveryFileAnswered
CHECK_DEADLOCK FALSE
