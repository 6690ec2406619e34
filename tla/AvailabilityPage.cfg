SPECIFICATION PageSpec
CONSTANTS
  LastDate = 2
  SlotsPerDay = 1
  BlockDates = {1}
  MaxBlocks = 1
  MaxActs = 3
  Calls = {c1, c2}
  None = None
SYMMETRY Symmetry
INVARIANTS
  IdlePageIsCurrent
CHECK_DEADLOCK FALSE
