SPECIFICATION Spec
CONSTANTS
  Users = {p1}
  Admins = {}
  TokenIds = {t1, t2, t3}
  Requests = {r1, r2}
  AccessTTL = 2
  RefreshTTL = 4
  Second = 2
  StartTime = 1
  MaxTime = 2
  Nobody = Nobody
  NoToken = NoToken
INVARIANTS
  SingleUse
CHECK_DEADLOCK FALSE
