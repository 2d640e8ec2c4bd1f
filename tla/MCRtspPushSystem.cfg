CONSTANTS
  t1 = t1
  c1 = c1
  p1 = p1
  s1 = s1
  NoThread = NoThread
  NoData = NoData
  NumTriggers = 3
  Callers <- MCCallers
  Clients <- MCClients
  Producers <- MCProducers
  Sources <- MCSources
  Frames <- MCFrames
  MaxQueuedNalus = 1
  MaxPushed = 2
  MaxPolls = 1
CHECK_DEADLOCK FALSE
SPECIFICATION FairSpec
INVARIANTS
  StreamsOverSessions
  NoStreamWithoutServer
PROPERTIES
  ImplementsService
  ThreadMovesOn
  StopReturns
