CONSTANTS
  t1 = t1  t2 = t2
  a = a  b = b  err = err
  Tasks <- MCTasks
  TimedTasks <- OneTimed
  Kinds <- MCKinds
  StreamError = err
  MaxStanzas = 2
  QueueLen = 2
  MayClose = FALSE
SPECIFICATION Spec
CHECK_DEADLOCK FALSE
INVARIANT MixinsSeeEveryStanza
