CONSTANTS a = a b = b c = c g1 = g1
  Peer = {a, b}
  Group = {g1}
  GroupOf <- OneGroup
  MaxConnections = 2
  MaxRequests = 6
  ChannelCapacity = 3
  MaxVersion = 5
  SdpPairs <- OfferAndAnswer
  Offers <- OfferOnly
  Updaters = {b}
  Leavers = {b}
  Hourly = FALSE
  MixedUpdates = 1
  SocketBuffer = 1
SPECIFICATION FairRoom
INVARIANTS RoomTypeOK  UpdateIsNews
PROPERTIES ConnectReturns  EndsUnlessStuck
CHECK_DEADLOCK FALSE
