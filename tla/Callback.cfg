CONSTANTS
  e = e
  u = u
  f1 = f1
  f2 = f2
  f3 = f3
  f4 = f4
  Null = Null
  Checkout = Checkout
  Callers = {e, u}
  Functors = {f1, f2, f3, f4}
  MaxDepth = 2
SPECIFICATION SlotSpec
INVARIANTS OneOwner InstalledStays
PROPERTIES OnlyLatestRuns
SYMMETRY Symmetry
CHECK_DEADLOCK FALSE
