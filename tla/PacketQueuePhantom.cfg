SPECIFICATION Spec
CONSTANTS
  QSize = 3
  MaxPackets = 5
  Builds = {"split"}
INVARIANTS OnlyReceived
