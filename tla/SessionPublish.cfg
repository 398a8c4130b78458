SPECIFICATION Spec
CONSTANTS
  RingSize = 2
  MaxId = 3
  Nretry = 1
  Capacity = 2
  Flags = {2}
  Wills = {0}
  Qualities = {0, 1, 2}
  Budget <- PublishAgain
  MaxCalls = 3
  MaxMids = 2
  Names = {}
  Filters = {}
  MaxTopicId = 1
  Kept <- NothingKept
  MaxMessages = 0
  MaxGatewayRestarts = 1
INVARIANTS NoFalseSuccess AwaitsCallback
CONSTRAINT InOrderWithQos2
