\* Two ticks in the first wave, nothing is killed: every engine stops.
SPECIFICATION Spec
CONSTANTS
  t1 = t1
  t2 = t2
  t3 = t3
  Lane = {1, 2}
  Plan <- TwoTicks
  SharedDeps <- NeedsT1
  MayBeDone = {t3}
  Faults = {"abort"}
PROPERTY EngineStops
CHECK_DEADLOCK FALSE
