CONSTANTS
  t1 = t1
  Threads = {t1}
  Half = 2
  RtCnt = 2
  MaxFrags = 2
  MaxFrames = 2
  MaxQueue = 2
  MaxInFlight = 4
  MaxAcks = 4
SPECIFICATION MCFairSpec
PROPERTY MCEveryPacketArrives
CHECK_DEADLOCK FALSE
