SPECIFICATION FairSpec
CONSTANTS
  Senders <- MCSenders
  Name <- MCName
  Preferred = 1
  End = end
  Terminals = {t1}
  MaxLookups = 1
  MaxKeys = 1
  MaxCalls = 1
INVARIANTS
  SortedOnce
  ActiveNeverDangles
  ScreensFollow
PROPERTIES
  ImplementsStationMenu
  AddedIsShown
  MoveIsFollowed
  Stops
