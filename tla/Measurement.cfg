SPECIFICATION MCSpec
CONSTANTS
  Clis = {k1, k2}
  Clients = {c1, c2}
  Pinger = c1
  Targets = {a1}
  Round = 1
  Wait = 4
  Delay = 1
  MaxFaults = 1
INVARIANTS
  TypeOK
  EndedMeansComplete
  PromptCliIsNotTooLate
PROPERTIES
  SubscribedCliEnds
