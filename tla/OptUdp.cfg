CONSTANTS
  t1 = t1
  Threads = {t1}
  Half = 2
  RtCnt = 2
  MaxFrags = 2
  MaxFrames = 4
  MaxQueue = 2
  MaxInFlight = 1
  MaxAcks = 1
SPECIFICATION MCSpec
INVARIANTS TimerCoversQueue ForgottenOnlyIfGot
PROPERTIES ImplementsOrderedStream MCEveryFrameAcknowledged
CHECK_DEADLOCK FALSE
