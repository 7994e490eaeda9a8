CONSTANTS
  Ids = {1}
  MaxData = 1
  LinkMayFail = TRUE
SPECIFICATION FairSpec
INVARIANTS ClosedOnce RegistryExact OpenDataNotLost
PROPERTIES BothEndsClose
CHECK_DEADLOCK FALSE
