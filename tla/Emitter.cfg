CONSTANTS
  u1 = u1
  u2 = u2
  k1 = k1
  k2 = k2
  k3 = k3
  None = None
  Users = {u1}
  Cancellers = {"loop", u1}
  Timers = {k1, k2}
  MaxRequests = 2
SPECIFICATION FairSpec
INVARIANTS NoDanglingErase NoLostWakeup
PROPERTIES SilentOnceCancelled EveryTimerFires StopEndsLoop
CHECK_DEADLOCK FALSE
