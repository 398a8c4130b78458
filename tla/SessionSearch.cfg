SPECIFICATION Spec
CONSTANTS
  RingSize = 2
  MaxId = 2
  Nretry = 2
  Capacity = 2
  Flags = {0}
  Wills = {0}
  Qualities = {}
  Budget <- SearchWhileConnecting
  MaxCalls = 2
  MaxMids = 0
  Names = {}
  Filters = {}
  MaxTopicId = 1
  Kept <- NothingKept
  MaxMessages = 0
  MaxGatewayRestarts = 0
INVARIANTS ConnectPending
