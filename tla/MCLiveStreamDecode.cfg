CONSTANTS
  c1 = c1
  c2 = c2
  s1 = s1
  s2 = s2
  s3 = s3
  p1 = p1
  NoThread = NoThread
  NoData = NoData
  NumTriggers = 3
  Clients <- MCClients
  Sources <- ThreeSources
  Producers <- MCProducers
  Frames <- WholeKeyFrames
  MaxQueuedNalus = 4
  MaxPushed = 5
CHECK_DEADLOCK FALSE
SPECIFICATION Spec
INVARIANTS
  DecodesFromFirstIdr
