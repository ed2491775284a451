SPECIFICATION Spec
CONSTANTS
  Servers = {"s1"}
  Desktops = {}
  Configs = {"sparse"}
  Kind <- Kinds
  DueOf <- Calendar
  FirstConfig = "sparse"
  RunsPlan = FALSE
  Misfire = "all"
  MaxCatchup = 3
  MaxAge = 9
  Stall = 2
  Prompt = TRUE
  Skew <- NoSkew
  Anchor = 1
  MaxTime = 10
  MaxCrashes = 0
  MaxFaults = 0
  MaxEdits = 0
INVARIANT NoGaps
CHECK_DEADLOCK FALSE
