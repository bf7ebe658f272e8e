SPECIFICATION Spec
CONSTANTS
  Clients <- MCTwoClients
  Name <- MCTwoName
  Typed <- MCTwoTyped
  Blocks = 1
  MAX_CLIENTS = 2
  BUF_SIZE = 3
INVARIANTS
  DataInOwnFile
CHECK_DEADLOCK FALSE
