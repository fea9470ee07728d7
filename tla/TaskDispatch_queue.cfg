SPECIFICATION FairSpec
CONSTANTS
  Streams = {s1}
  Calls = {c1}
  Hostnames = {h1}
  IdSpace = 3
  TaskBuffer = 1
  NoStream = NoStream
  Timer = Timer
  Queue <- OneQueue
PROPERTIES
  AllTasksAreForwarded
CHECK_DEADLOCK FALSE
