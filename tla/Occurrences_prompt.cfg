SPECIFICATION Spec
CONSTANTS
  Servers = {"s1", "s2"}
  Desktops = {}
  Configs = {"sparse", "later", "grid", "off"}
  Kind <- Kinds
  DueOf <- Calendar
  FirstConfig = "sparse"
  RunsPlan = FALSE
  Misfire = "skip"
  MaxCatchup = 2
  MaxAge = 9
  Stall = 2
  Prompt = TRUE
  Skew <- NoSkew
  Anchor = 1
  MaxTime = 9
  MaxCrashes = 0
  MaxFaults = 0
  MaxEdits = 1
INVARIANT NoGaps
 
 
CHECK_DEADLOCK FALSE
