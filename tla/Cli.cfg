SPECIFICATION MCSpec
CONSTANTS
  Port = {"50001", "not a number"}
  Clients <- MCClients
  Items <- MCItems
  Hostnames = {"h1", "h2"}
  MaxItems = 2
  MaxMessages = 2
  TaskId = 4
  Countries <- MCCountries
  Asns <- MCAsns
  WordSize = 1000
INVARIANTS
  CertificatesAreUsed
  EveryReplyIsShown
  
CHECK_DEADLOCK FALSE
