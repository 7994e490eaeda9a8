CONSTANTS
  c = c
  a = a
  l = l
  d = d
  None = None
  Clients = {c}
  Accepted = {a}
  Listeners = {l}
  Datagrams = {d}
  MaxAddrs = 2
SPECIFICATION MCSpec
INVARIANTS PollSetMatches NoRequestForgotten
PROPERTIES CallbackOrder CloseHeard
CHECK_DEADLOCK FALSE
