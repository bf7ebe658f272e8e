SPECIFICATION Spec
CONSTANTS
  Capacity = 4
  MaxNum = 4
  MaxBack = 8
  MaxRuns = 1
PROPERTIES
  MissingIsTaken
CHECK_DEADLOCK FALSE
