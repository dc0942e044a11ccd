CONSTANTS a = a b = b c = c d = d g1 = g1 g2 = g2
  Peer = {a, b, c, d}
  Group = {g1, g2}
  GroupOf <- TwoGroups
  MaxConnections = 2
  MaxRequests = 3
  ChannelCapacity = 1
  MaxVersion = 1
  Updaters = {b}
  SdpPairs <- SdpAcross
  Leavers = {a, c}
  Hourly = TRUE
SPECIFICATION Spec
INVARIANTS TypeOK Membership GroupIsolation Introduced
PROPERTY EmptyGroupOnlyByRefusal
CHECK_DEADLOCK FALSE
