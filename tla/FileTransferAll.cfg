CONSTANTS
  Pairs <- AllPairs
  Sizes <- MCSizes
  MaxSize = 2
  MaxOther = 6
SPECIFICATION FairSpec
CHECK_DEADLOCK FALSE
INVARIANTS TypeOK DoneIsComplete AckedIsStored DiskIsClean
PROPERTY EveryoneEnds
