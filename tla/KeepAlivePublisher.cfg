SPECIFICATION Spec
CONSTANTS
  Duration = 2
  AdInterval = 20
  Modes = {{"publishing"}}
PROPERTIES LostIsSilent
