CONSTANTS
  p1 = p1
  p2 = p2
  s1 = s1
  s2 = s2
  NoThread = NoThread
  NoData = NoData
  NumTriggers = 2
  Producers <- MCProducers
  Sources <- MCSources
  Frames <- MCFrames
  MaxQueuedNalus = 4
  MaxPushed = 6
SYMMETRY Symmetric
SPECIFICATION Spec
INVARIANTS
  TypeOK
  HoldsNewest
  FramesStayWhole
PROPERTIES
  FirstParameterSets
  ImplementsLossyFifo
  CriticalSectionEnds
