SPECIFICATION Spec
CONSTANTS
  Sessions = {"phone"}
  Editors <- PhoneEditors
  Sports = {k1}
  Values = {"a"}
  Calls = {c1, c2}
  MaxActs = 4
  None = None
PROPERTIES
  UntouchedSurvives
CHECK_DEADLOCK FALSE
