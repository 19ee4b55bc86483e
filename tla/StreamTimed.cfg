CONSTANTS
  t1 = t1  t2 = t2
  a = a  b = b  err = err
  Tasks <- MCTasks
  TimedTasks <- OneTimed
  Kinds <- MCKinds
  StreamError = err
  MaxStanzas = 3
  QueueLen = 2
  MayClose = TRUE
SPECIFICATION Spec
CHECK_DEADLOCK FALSE
SYMMETRY Sym
INVARIANTS TypeOK AtMostOnce ResultIsWanted NoLostWakeup
PROPERTIES InOrder EvictedWasSeen
