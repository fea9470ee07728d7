SPECIFICATION FlowSpec
CONSTANTS
  Ips <- MCIps
  MaxTargets = 2
  Hostnames <- MCHostnames
  Hostname <- MCHostname
  Index = 0
  TaskIds = {0, 200}
  Times <- MCTimes
INVARIANTS
  ReadersHaveWhatWasWritten
  ScheduledIsPinged
  ShownIsWhatReplied
  NewFieldsSurvive
CHECK_DEADLOCK FALSE
