\* Three tasks on two lanes in two waves, with every fault and operator command but abort.
SPECIFICATION Spec
CONSTANTS
  t1 = t1
  t2 = t2
  t3 = t3
  Lane = {1, 2}
  Plan <- ThreeTasks
  SharedDeps <- NeedsT2
  MayBeDone = {}
  Faults = {"kill", "exception", "conflict", "force"}
INVARIANT TypeOK
INVARIANT MergedRowIsInOrch
INVARIANT SucceededIsCommitted
INVARIANT MergedIsOver
PROPERTY StartsOnMergedWork
CHECK_DEADLOCK FALSE
