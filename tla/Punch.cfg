CONSTANTS
  None = None
  NumPorts = 2
  MaxBad = 1
  Pairings <- MCPairings
SPECIFICATION FairSpec
INVARIANTS MagicsCrossed PunchedToPeer
PROPERTIES BothFind BothSearch
CHECK_DEADLOCK FALSE
