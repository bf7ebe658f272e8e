SPECIFICATION Spec
CONSTANTS
  Capacity = 4
  MaxNum = 4
  MaxBack = 8
  MaxRuns = 2
INVARIANTS
  SetIsHoles
PROPERTIES
  ImplementsPlayBuffer
  PlaysForward
  EndsAll
CHECK_DEADLOCK FALSE
