SPECIFICATION FairSpec
CONSTANTS
  N = 3
  Requires <- Fork
  RequiresArtifact = TRUE
  PriorDone = {1}
  MaxConcurrent = 2
  Procs = {"p1", "p2"}
  Actors = {"a1", "a2"}
  ProcOf <- Two
  Creator = "a1"
  Overlap = {}
  MaxVerbs = 1
  MaxCrashes = 1
  MaxLosses = 1
  MaxFaults = 0
INVARIANT TypeOK
INVARIANT NoDoubleRun
INVARIANT NothingLeftBehind
INVARIANT AssembledIsWhole
 
PROPERTY RunningIsTransient
PROPERTY ExecutorEnds
CHECK_DEADLOCK FALSE
