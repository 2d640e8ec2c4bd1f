CONSTANTS
  t1 = t1
  t2 = t2
  p1 = p1
  s1 = s1
  NoThread = NoThread
  NoData = NoData
  NumTriggers = 1
  Callers <- TwoCallers
  Producers <- MCProducers
  Sources <- MCSources
  Frames <- MCFrames
  MaxQueuedNalus = 1
  MaxPushed = 1
  MaxPolls = 1
CHECK_DEADLOCK FALSE
SYMMETRY CallerSymmetry
SPECIFICATION Spec
INVARIANTS
  PushWakesLiveScheduler
  UrlMeansServing
  NoCircularWait
  OneEventLoop
PROPERTIES
  CallsMoveOn
