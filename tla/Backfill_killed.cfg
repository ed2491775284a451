SPECIFICATION Spec
CONSTANTS
  N = 2
  Requires <- Unordered
  RequiresArtifact = FALSE
  PriorDone = {}
  MaxConcurrent = 2
  Procs = {"p1", "p2"}
  Actors = {"a1", "a2"}
  ProcOf <- Two
  Creator = "a1"
  Overlap = {}
  MaxVerbs = 2
  MaxCrashes = 1
  MaxLosses = 0
  MaxFaults = 0
INVARIANT KilledIsResumable
CHECK_DEADLOCK FALSE
