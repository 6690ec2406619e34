SPECIFICATION FairSpec
CONSTANTS
  Sessions <- Devices
  Editors <- DeviceEditors
  Sports = {k1, k2}
  Values = {"a"}
  Calls = {c1, c2}
  MaxActs = 4
  None = None
INVARIANTS
  ChosenIsStored
PROPERTIES
  WritesKeepTheRest
  EditorSettles
CHECK_DEADLOCK FALSE
