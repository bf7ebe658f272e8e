SPECIFICATION Spec
CONSTANTS
  Clients <- MCClients
  Name <- MCName
  Typed <- MCTyped
  Blocks = 1
  MAX_CLIENTS = 2
  BUF_SIZE = 3
INVARIANTS
  SlotsAccounted
  OwnerLosesNothing
CHECK_DEADLOCK FALSE
