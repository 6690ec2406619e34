SPECIFICATION FairSpec
CONSTANTS
  LastSubject = 2
  LastChange = 2
  MaxActs = 3
  MaxLoads = 2
  Unloaded = Unloaded
  Free = Free
INVARIANTS
  ShownIsAsked
  
  OffersLeadSomewhere
PROPERTIES
  LoadingEnds
CHECK_DEADLOCK FALSE
