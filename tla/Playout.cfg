SPECIFICATION Spec
CONSTANTS
  Capacity = 3
  Sessions <- MCSessions
  MaxNum = 3
  MaxRuns = 2
INVARIANTS
  Bounded
  SetPointsToHoles
  PlaysThisSession
  PrinterAccounted
  OverlapOnlyAfterIdleRequest
