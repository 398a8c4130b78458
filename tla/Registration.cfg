SPECIFICATION Spec
CONSTANTS
  RingSize = 2
  MaxId = 4
  Nretry = 1
  Capacity = 1
  Flags = {0, 2}
  Wills = {0}
  Qualities = {1}
  Budget <- NameTopics
  MaxCalls = 3
  MaxMids = 1
  Names = {a, b}
  Filters = {all}
  MaxTopicId = 4
  Kept <- SomeKept
  MaxMessages = 1
  MaxGatewayRestarts = 0
INVARIANTS TypeOK NamesGranted AwaitsCallback
PROPERTIES ResumeComplete DeliverySpec
SYMMETRY SameNames
CONSTRAINT Bounded
