\* A detached and an attached forced resume of one batch, whatever its phase.
SPECIFICATION Spec
CONSTANTS
  a = a
  b = b
  old = old
  Shell = {a, b}
  Attached = {b}
  WaitTerminal = {}
  Old = old
  Mortal = {b}
  Timely = TRUE
  StartPhases = {"running", "paused", "failed", "merge_blocked", "completed", "lost"}
  NoState = NoState
  NoLock = NoLock
  NoOne = NoOne
INVARIANT TypeOK
INVARIANT OneEngine
INVARIANT LockIsGivenBack
PROPERTY WorkGoesOn
PROPERTY CompletedStays
CHECK_DEADLOCK FALSE
