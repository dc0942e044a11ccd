CONSTANTS a = a b = b c = c d = d g1 = g1 g2 = g2
  Peer = {a, b}
  Group = {g1}
  GroupOf <- OneGroup
  MaxConnections = 3
  MaxRequests = 9
  ChannelCapacity = 4
  MaxVersion = 3
  Updaters = {a, b}
  SdpPairs <- NoSdp
  Leavers = {}
  Hourly = FALSE
SPECIFICATION FairSpec
PROPERTY ConnectionGetsServed
CHECK_DEADLOCK FALSE
