SPECIFICATION Spec
CONSTANTS
  Streams = {s1, s2}
  Calls = {c1, c2}
  Hostnames = {h1, h2}
  IdSpace = 3
  TaskBuffer = 1
  NoStream = NoStream
  Timer = Timer
  Queue <- OwnQueues
INVARIANTS
  RegistryMatchesStreams
  NoTaskTwice
  AckTellsTheTruth
  ParkedSendersMatchBacklog
PROPERTIES
  TasksDeliveredInOrder
  EntriesLeaveOnlyOnFailure
SYMMETRY Symmetry
