\* Two rows and a plain task of another lane share two slots.
SPECIFICATION Spec
CONSTANTS
  r1 = r1
  r2 = r2
  p1 = p1
  RowSeq <- TwoRows
  Plain = {p1}
  MaxParallel = 2
  RowLimit = 2
  Faults = {"kill", "save", "crash", "conflict"}
INVARIANT CapKept
INVARIANT SucceededIsWhole
PROPERTY ImplementsPool
PROPERTY KeepsFinishedRows
PROPERTY WaiterServed
CHECK_DEADLOCK FALSE
