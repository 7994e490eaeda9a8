CONSTANTS
  c1 = c1
  c2 = c2
  u1 = u1
  u2 = u2
  r1 = r1
  None = None
  NoFp = NoFp
  Conns = {c1, c2}
  Users = {u1, u2}
  Pipes = {r1}
  MaxData = 1
SPECIFICATION FairSpec
INVARIANTS LookupIsLatest OpenEndToEnd
PROPERTIES BothClientsClose
CHECK_DEADLOCK FALSE
