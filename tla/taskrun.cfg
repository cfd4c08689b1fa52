\* A task of review level 2, one plan attempt, two code and final attempts, two restarts, every fault.
SPECIFICATION Spec
CONSTANTS
  Required = {"plan", "code", "final"}
  MaxAttempts <- OneTwoTwo
  SharedStep = FALSE
  MaxStarts = 2
  Faults = {"kill", "orphan", "abort", "stall", "launch", "quota", "blocked",
            "contract", "reviewer", "commit"}
INVARIANT ReviewedBeforeSuccess
INVARIANT PassIsOfThisWork
INVARIANT ReworksBounded
PROPERTY RunEnds
CHECK_DEADLOCK FALSE
