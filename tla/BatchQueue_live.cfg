SPECIFICATION FairSpec
CONSTANTS
  N = 1
  Workers = {"w1", "w2"}
  MaxAttempts = 2
  Exponential = TRUE
  Initial = 1
  MaxSeconds = 2
  MaxAge = 1
  MaxCrashes = 1
  MaxFaults = 1
  MaxVerbs = 1
  MaxLooks = 1
INVARIANT TypeOK
INVARIANT NoTwoAtOnce
INVARIANT OkMeansDone
INVARIANT RepeatsAreBounded
PROPERTY EveryItemSettles
CHECK_DEADLOCK FALSE
