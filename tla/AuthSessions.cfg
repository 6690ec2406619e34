SPECIFICATION FairSpec
CONSTANTS
  Users = {a1, a2, p1}
  Admins = {a1, a2}
  TokenIds = {t1, t2, t3}
  Requests = {r1, r2}
  AccessTTL = 2
  RefreshTTL = 4
  Second = 2
  StartTime = 1
  MaxTime = 2
  Nobody = Nobody
  NoToken = NoToken
INVARIANTS
  TypeOK
  RowAgreesWithClaims
PROPERTIES
  Rotates
  OnlyOverlapping
  DeactivationStopsNewWork
  RevocationIsFinal
  LockoutNeedsCrossing
  DeactivationDrains
CHECK_DEADLOCK FALSE
