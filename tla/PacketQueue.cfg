SPECIFICATION FairSpec
CONSTANTS
  QSize = 3
  MaxPackets = 7
  Builds = {"split", "whole"}
INVARIANTS TypeOK MutualExclusion Conservation PassOrder OnlyReceivedWhole
PROPERTIES AtMostOnce OverwritesOldest NoneStranded StoreSpec
