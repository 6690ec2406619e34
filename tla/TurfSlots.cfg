SPECIFICATION FairSpec
CONSTANTS
  Requests = {r1, r2}
  NumDates = 1
  Midnight = 2
  Openings = {0, 1}
  Closings = {2}
  Settings <- TwoSettings
  Ranges <- OneRange
  MaxConfigs = 3
INVARIANTS TypeOK NoOverlap LeftOutIffUnavailable NoWaitCycle
PROPERTIES RetryIsSafe GenerationEnds KeepsCalendar
