SPECIFICATION EditorSpec
CONSTANTS
  Turfs = {t1}
  Pages = {p1}
  Sports = {s1}
  Amenities = {a1}
  Images = {i1, i2, i3}
  MaxImages = 1
  Calls = {c1, c2}
  MaxActs = 4
  Nothing = Nothing
SYMMETRY Symmetry
INVARIANTS
  EditorTypeOK
  ShownIsStored
  NoDeadControl
  ImagesBounded
  NoOrphans
CHECK_DEADLOCK FALSE
