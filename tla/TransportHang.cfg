CONSTANTS
  StarttlsModes <- OnlyStarttls
  PostModes <- NoPost
  Careful = TRUE
  KeepOpen <- NeverKeep
  MayAbort = FALSE
  MaxBuffer = 1
SPECIFICATION Spec
CHECK_DEADLOCK FALSE
INVARIANT WaiterIsSettled
