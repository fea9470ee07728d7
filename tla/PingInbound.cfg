SPECIFICATION MCSpec
CONSTANTS
  Packets = {p1, p2, p3}
  MaxTask = 2
  PacketBuffer = 1
  NoPayload = NoPayload
INVARIANTS
  RepliesKeepTheirPlace
  OneBatchPerTask
PROPERTIES
  RepliesAreTransmitted
  ExitReturns
