SPECIFICATION FairSpec
CONSTANTS
  Pubs = {"e"}
  N = 2
  Faulty = {}
  Servers = {"s1", "s2"}
  PruneApart = TRUE
  MaxDay = 1
  MaxStarts = 6
  Budget <- Troubled
INVARIANT TypeOK
INVARIANT RepeatsAreAccounted
PROPERTY FailuresKeepTheirEvent
PROPERTY EventsAreTold
CHECK_DEADLOCK FALSE
