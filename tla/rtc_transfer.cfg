SPECIFICATION FairSpec
CONSTANTS
  f = f
  g = g
  h = h
  None = None
  NoPin = NoPin
  File = {f, g, h}
  Listed = {f, g}
  Size <- OneOrTwoChunks
  Pins <- MCPins
  MaxTries = 2
  BinaryBuffer = 1
  Configs <- MCConfigs
  Selections <- SomeSelections
  Faults = {"link", "read", "write", "slow"}
INVARIANTS TypeOK Consented InOrder NothingCutShort OutcomeIsOwn
PROPERTIES Promise CallReturns
CHECK_DEADLOCK FALSE
