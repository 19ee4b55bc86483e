CONSTANTS
  StarttlsModes <- OnlyStarttls
  PostModes <- NoPost
  Careful = FALSE
  KeepOpen <- NeverKeep
  MayAbort = FALSE
  MaxBuffer = 1
SPECIFICATION Spec
CHECK_DEADLOCK FALSE
INVARIANT BufferIsServed
