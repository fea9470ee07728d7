SPECIFICATION FairSpec
CONSTANTS
  Tasks = {t1, t2, t3}
  Destinations <- TwoEach
  TaskBuffer = 1
  NoTask = NoTask
INVARIANTS
  PingsDoNotMix
  FinishedMeansPinged
  
  NoUnwrapPanics
PROPERTIES
  PingThreadsEnd
  ClientStops
