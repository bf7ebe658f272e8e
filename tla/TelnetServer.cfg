SPECIFICATION Spec
CONSTANTS
  MaxUsers = 2
  MaxKeys = 4
PROPERTIES
  ImplementsMenu
  GoneIsNoticed
CHECK_DEADLOCK FALSE
