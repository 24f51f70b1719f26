SPECIFICATION Spec
CONSTANTS
  Mode = "watch"
  Deletions = {"now"}
  Deletes = FALSE
  Outcomes = {"succeeded", "partial", "failed"}
  MaxGen = 2
  MaxInc = 1
  MaxFaults = 0
INVARIANT SettledMeansApplied
CHECK_DEADLOCK FALSE
