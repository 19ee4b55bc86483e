CONSTANTS
  StarttlsModes <- BothModes
  PostModes <- NoPost
  Careful = FALSE
  KeepOpen <- EitherKeep
  MayAbort = TRUE
  MaxBuffer = 2
SPECIFICATION Spec
CHECK_DEADLOCK FALSE
INVARIANTS TypeOK LossIsReported SecureOnReturn ShutdownAfterDrain
PROPERTIES KeepsContract ClosedIsFinal
