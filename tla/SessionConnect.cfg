SPECIFICATION FairSpec
CONSTANTS
  RingSize = 2
  MaxId = 1
  Nretry = 1
  Capacity = 1
  Flags = {0, 1}
  Wills = {1}
  Qualities = {}
  Budget <- ComeAndGo
  MaxCalls = 3
  MaxMids = 0
  Names = {}
  Filters = {}
  MaxTopicId = 1
  Kept <- NothingKept
  MaxMessages = 0
  MaxGatewayRestarts = 1
INVARIANTS ConnectPendingUnsearched WillRequested
PROPERTIES ConnectEnds HandshakeEnds
