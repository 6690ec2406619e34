SPECIFICATION Spec
CONSTANTS
  Tabs = {w1, w2}
  PageCalls = {c1, c2}
  Me = Me
  MaxPairs = 2
SYMMETRY Symmetry
INVARIANTS
  TypeOK
  PresentedOnce
  StoredIsCurrent
