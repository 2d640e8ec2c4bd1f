CONSTANTS
  c1 = c1
  c2 = c2
  s1 = s1
  s2 = s2
  s3 = s3
  p1 = p1
  NoThread = NoThread
  NoData = NoData
  NumTriggers = 3
  Clients <- MCClients
  Sources <- TwoSources
  Producers <- MCProducers
  Frames <- MCFrames
  MaxQueuedNalus = 2
  MaxPushed = 3
CHECK_DEADLOCK FALSE
SPECIFICATION FairSpec
INVARIANTS
  TypeOK
  NoLostWakeup
  EventsReachLiveSources
  ReadersAreSources
  TriggersSuffice
  OneReadAtATime
  OneLiveStream
  NoSourceWithoutClient
PROPERTIES
  UsesTheQueue
  Delivery
  CloseReleases
