SPECIFICATION Spec
CONSTANTS
  Topics = 3
PROPERTIES WalkComplete
