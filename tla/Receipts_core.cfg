SPECIFICATION FairSpec
CONSTANTS
  Runs = {"a", "b"}
  Async = {"a"}
  Servers = {"s1", "s2"}
  Pid <- Entrypoints
  Host <- Machines
  LocksWork = TRUE
  Permits = 1
  MaxReceipts = 1
  Endless = {"a"}
  Named = {}
  MaxSweeps = 1
  MaxFailures = 1
  Cancelled = {"a"}
INVARIANT TypeOK
 
INVARIANT LimitHolds
PROPERTY DeadAreNoticed
PROPERTY WaitersAreServed
PROPERTY CancelIsHeard
CHECK_DEADLOCK FALSE
