SPECIFICATION FairSpec
CONSTANTS
  RingSize = 3
  MaxId = 3
  Nretry = 2
  MaxInflight = 2
  MaxBurned = 1
INVARIANTS TypeOK OneInFlight OldestFirst UniqueIds
PROPERTIES NoneStarved
