CONSTANTS
  StarttlsModes <- OnlyStarttls
  PostModes <- MaybePost
  Careful = TRUE
  KeepOpen <- EitherKeep
  MayAbort = FALSE
  MaxBuffer = 2
SPECIFICATION FairSpec
CHECK_DEADLOCK FALSE
INVARIANTS BufferIsServed ReaderIsServed VerifiedFirst
PROPERTIES HandshakeIsKept CloseCompletes
