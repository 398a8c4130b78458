SPECIFICATION FairSpec
CONSTANTS
  Duration = 4
  AdInterval = 21
  Modes = {{}, {"lossy", "fragile"}, {"fragile", "publishing"}, {"fragile", "dirty"}}
INVARIANTS TypeOK Held
PROPERTIES LostIsIdle HalfOpenEnds CleanIsNoticed
