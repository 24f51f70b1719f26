SPECIFICATION Spec
CONSTANTS
  Mode = "watch"
  Deletions = {"now"}
  Deletes = TRUE
  Outcomes = {"succeeded", "failed"}
  MaxGen = 2
  MaxInc = 1
  MaxFaults = 1
INVARIANTS TypeOK ControllerInv SpecNoticed
PROPERTIES ObservedMonotone FinalStateKept
CHECK_DEADLOCK FALSE
