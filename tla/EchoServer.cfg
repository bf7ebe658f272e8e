SPECIFICATION Spec
CONSTANTS
  c1 = c1
  c2 = c2
  c3 = c3
  Clients = {c1, c2, c3}
  None = none
  Stopped = {c1}
  Bye = {c1, c2}
  Input <- MCInput
  Slots = 2
  BufSize = 2
  UpRoom = 2
  DownRoom = 1
  Line = 6
INVARIANTS
  SlotsAccounted
  EchoIntact
PROPERTIES
  Independent
  DrainEnds
CHECK_DEADLOCK FALSE
