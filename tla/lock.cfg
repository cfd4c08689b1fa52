\* Crashes, reused pids, junk and stalled readers; a dead holder's file goes.
SPECIFICATION Spec
CONSTANTS
  p1 = p1
  p2 = p2
  p3 = p3
  Proc = {p1, p2, p3}
  Unprobed = {p3}
  MaxCalls = 1
  NoFile = NoFile
  Junk = Junk
  Faults = {"crash", "stall", "junk"}
INVARIANT TypeOK
INVARIANT HolderOwnsFile
INVARIANT StealsOnlyStale
INVARIANT NoLeakedLock
PROPERTY ImplementsMutex
PROPERTY DeadHolderBroken
CHECK_DEADLOCK FALSE
