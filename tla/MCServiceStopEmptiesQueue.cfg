CONSTANTS
  t1 = t1
  t2 = t2
  p1 = p1
  s1 = s1
  NoThread = NoThread
  NoData = NoData
  NumTriggers = 1
  Callers <- OneCaller
  Producers <- MCProducers
  Sources <- MCSources
  Frames <- MCFrames
  MaxQueuedNalus = 2
  MaxPushed = 3
  MaxPolls = 2
CHECK_DEADLOCK FALSE
SPECIFICATION Spec
INVARIANTS
  StopEmptiesQueue
