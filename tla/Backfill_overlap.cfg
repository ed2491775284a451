SPECIFICATION Spec
CONSTANTS
  N = 2
  Requires <- Chain
  RequiresArtifact = FALSE
  PriorDone = {}
  MaxConcurrent = 2
  Procs = {"p1", "p2"}
  Actors = {"a1", "a2"}
  ProcOf <- Two
  Creator = "a1"
  Overlap = {"retry", "cancel"}
  MaxVerbs = 2
  MaxCrashes = 1
  MaxLosses = 0
  MaxFaults = 1
INVARIANT SucceededMeansDone
INVARIANT ChainOrder
 
CHECK_DEADLOCK FALSE
