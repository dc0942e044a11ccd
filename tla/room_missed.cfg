CONSTANTS a = a b = b c = c g1 = g1
  Peer = {a, b}
  Group = {g1}
  GroupOf <- OneGroup
  MaxConnections = 2
  MaxRequests = 9
  ChannelCapacity = 4
  MaxVersion = 0
  SdpPairs <- NoSdp
  Offers <- NoSdp
  Updaters = {}
  Leavers = {}
  Hourly = FALSE
  MixedUpdates = 0
  SocketBuffer = 1
SPECIFICATION RoomSpec
INVARIANT NobodyMissed
CHECK_DEADLOCK FALSE
