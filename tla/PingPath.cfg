SPECIFICATION MCSpec
CONSTANTS
  Source <- MCSource
  Targets <- MCTargets
  NewPayload <- MCNewPayload
  PayloadBytes <- MCPayloadBytes
  ReadPayload <- MCReadPayload
  TaskIds = {0}
  Times = {0, 130}
  Secret = "test-secret"
  OtherSecret = "another secret"
  Codes <- MCCodes
  Options = {0, 4}
  Ttl = 64
  MaxProbes = 2
  MaxPackets = 2
INVARIANTS
  ProbeChecksumIsValid
  AcceptedIsOwn
  ReceiverSurvives
CHECK_DEADLOCK FALSE
