\* A merge conflict, the runbook's `batch resume --force`, and no crash at all.
SPECIFICATION Spec
CONSTANTS
  t1 = t1
  t2 = t2
  t3 = t3
  Lane = {1, 2}
  Plan <- TwoTicks
  SharedDeps <- NeedsT1
  MayBeDone = {}
  Faults = {"conflict"}
INVARIANT FinalizedIsMerged
CHECK_DEADLOCK FALSE
