CONSTANTS
  u1 = u1
  u2 = u2
  k1 = k1
  k2 = k2
  k3 = k3
  k4 = k4
  None = None
  Users = {u1, u2}
  Cancellers = {"loop", u1, u2}
  Timers = {k1, k2, k3, k4}
  MaxRequests = 3
SPECIFICATION UdpSpec
INVARIANTS OneRetransmitTimer RetransmitTimerArmed
SYMMETRY Symmetry
CHECK_DEADLOCK FALSE
