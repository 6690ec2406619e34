SPECIFICATION MobSpec
CONSTANTS
  PageCalls = {c1, c2}
  Me = Me
  MaxPairs = 2
  MaxKills = 2
INVARIANTS
  RefreshedOnce
  OneSessionStored
PROPERTIES
  SplashEnds
