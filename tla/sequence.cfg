\* Three tasks with any dependencies; two commands, kills, and an operator.
SPECIFICATION Spec
CONSTANTS
  Task = {1, 2, 3}
  Graphs <- ThreeTaskGraphs
  Options <- AllCommands
  PendingScope = PendingScope
  NoFile = NoFile
  MaxStarts = 2
INVARIANT RecordedIsLanded
INVARIANT DepsFirst
INVARIANT OkMeansLanded
CHECK_DEADLOCK FALSE
