CONSTANTS
  Options <- OneClient
  MaxChatter = 0
SPECIFICATION Spec
CHECK_DEADLOCK FALSE
PROPERTY ReturnsConnected
