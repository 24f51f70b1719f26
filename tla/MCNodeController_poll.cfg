SPECIFICATION FairSpec
CONSTANTS
  Mode = "poll"
  Deletions = {"now", "delayed"}
  Deletes = TRUE
  Outcomes = {"succeeded", "partial", "failed"}
  MaxGen = 2
  MaxInc = 2
  MaxFaults = 1
INVARIANT ConfiguredMeansApplied
PROPERTY SpecSettles
CHECK_DEADLOCK FALSE
