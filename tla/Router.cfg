CONSTANTS
  Ports = {80, 81}
  Allowed = {80}
  MaxData = 2
SPECIFICATION FairSpec
INVARIANTS StreamIntact
PROPERTIES CloseReachesAll
CHECK_DEADLOCK FALSE
