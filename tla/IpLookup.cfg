CONSTANTS
  LenSize = 1
  MaxPacketSize = 8
  ChunkMax = 4
  Address <- MCAddress
  Port <- MCPort
  OtherReplies <- MCOtherReplies
  Queries = {1, 2}
  Servers = {"s1", "s2"}
  Out = "out"
  Others = {"other"}
  Mapped <- MCMapped
  RequestLen = 102
  ReplyLen = 20
  MaxForeign = 1
  MaxExtra = 1
SPECIFICATION MCSpec
INVARIANTS WholePackets AddressArrives MappingPerServer SilentOnlyIfLost
PROPERTIES BothLetGo ResultsHandedOut
CHECK_DEADLOCK FALSE
