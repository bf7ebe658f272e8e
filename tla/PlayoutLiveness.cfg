SPECIFICATION FairSpec
CONSTANTS
  Capacity = 3
  Sessions <- MCOneSession
  MaxNum = 2
  MaxRuns = 1
PROPERTIES
  ImplementsPlayBuffer
  FullDrains
  MissingRequested
  Stops
