SPECIFICATION Spec
CONSTANTS
  RingSize = 2
  MaxId = 4
  Nretry = 1
  Capacity = 2
  Flags = {0, 2}
  Wills = {0}
  Qualities = {1}
  Budget <- NameTopics
  MaxCalls = 3
  MaxMids = 1
  Names = {a, b}
  Filters = {all}
  MaxTopicId = 4
  Kept <- SomeKept
  MaxMessages = 1
  MaxGatewayRestarts = 0
INVARIANTS NamesAgree
SYMMETRY SameNames
CONSTRAINT Bounded
