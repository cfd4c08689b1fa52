\* One batch, its attached engine and a resume, with a pause and an abort.
SPECIFICATION Spec
CONSTANTS
  s1 = s1
  s2 = s2
  r1 = r1
  r2 = r2
  p1 = p1
  p2 = p2
  a1 = a1
  c1 = c1
  c2 = c2
  Starter = {s1}
  Resumer = {r1}
  Pauser = {p1}
  Aborter = {a1}
  Closer = {}
  Forced = {}
  Attached = {s1, r1}
  Mortal = {s1}
  NoState = NoState
  NoOne = NoOne
INVARIANT RunningIsOwned
PROPERTY PauseStops
CHECK_DEADLOCK FALSE
