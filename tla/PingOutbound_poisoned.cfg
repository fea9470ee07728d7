SPECIFICATION FairSpec
CONSTANTS
  Tasks = {t1, t2}
  Destinations <- OneEach
  TaskBuffer = 1
  NoTask = NoTask
PROPERTY
  ConnectedClientExecutesTasks
