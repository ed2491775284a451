SPECIFICATION Spec
CONSTANTS
  Servers = {"s1", "s2"}
  Desktops = {"d1"}
  Configs = {"minutely"}
  Kind <- Kinds
  DueOf <- Calendar
  FirstConfig = "minutely"
  RunsPlan = FALSE
  Misfire = "all"
  MaxCatchup = 2
  MaxAge = 9
  Stall = 1
  Prompt = FALSE
  Skew <- OneAhead
  Anchor = 1
  MaxTime = 3
  MaxCrashes = 1
  MaxFaults = 0
  MaxEdits = 1
INVARIANT TypeOK
INVARIANT RunsOnce
INVARIANT OneOutcome
INVARIANT OneCatchUp
INVARIANT OneRunAtATime
PROPERTY KeepsPromise
CHECK_DEADLOCK FALSE
