SPECIFICATION FairSpec
CONSTANTS
  Streams = {s1}
  Calls = {c1, c2}
  Hostnames = {h1}
  IdSpace = 3
  TaskBuffer = 1
  NoStream = NoStream
  Timer = Timer
  Queue <- OwnQueues
PROPERTIES
  DeadConnectionsExpire
  EveryCallAnswered
  AcknowledgedTaskArrives
