\* An engine that may be killed and two commands: every race over gate and refs.
SPECIFICATION Spec
CONSTANTS
  Engine = Engine
  c1 = c1
  c2 = c2
  Operator = {c1, c2}
  Approver = {c1}
  Rejecter = {c2}
  Opener = {c2}
  Lander = {c2}
  Waves = 1
  MaxTip = 2
  MaxGates = 2
  MaxOther = 1
  AutoApproveAfterN = 2
  EarlierApprovals = {1}
  GateRequired = TRUE
  ForceAllowed = FALSE
  None = None
INVARIANT TypeOK
PROPERTY LandedWasApproved
INVARIANT RejectionIsFinal
PROPERTY AutoNeedsStreak
PROPERTY KeepsBase
CHECK_DEADLOCK FALSE
