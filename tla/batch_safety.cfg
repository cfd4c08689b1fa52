\* One batch without a resume: pause, abort, complete and dismiss race its
\* engine, which is attached, as every engine that is spawned is.
SPECIFICATION Spec
CONSTANTS
  s1 = s1
  s2 = s2
  r1 = r1
  r2 = r2
  p1 = p1
  p2 = p2
  a1 = a1
  c1 = c1
  c2 = c2
  Starter = {s1}
  Resumer = {}
  Pauser = {p1}
  Aborter = {a1}
  Closer = {c1, c2}
  Forced = {c2}
  Attached = {s1}
  Mortal = {s1, p1}
  NoState = NoState
  NoOne = NoOne
INVARIANT TypeOK
INVARIANT ArchivedStaysGone
INVARIANT NoAbandonedBatch
PROPERTY TerminalStays
CHECK_DEADLOCK FALSE
