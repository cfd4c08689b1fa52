\* One command integrates while somebody commits to the base branch.
SPECIFICATION Spec
CONSTANTS
  Engine = Engine
  c1 = c1
  c2 = c2
  Operator = {c1}
  Approver = {c1}
  Rejecter = {}
  Opener = {}
  Lander = {c1}
  Waves = 1
  MaxTip = 1
  MaxGates = 1
  MaxOther = 1
  AutoApproveAfterN = 1
  EarlierApprovals = {1}
  GateRequired = TRUE
  ForceAllowed = FALSE
  None = None
PROPERTY BaseOnlyGrows
CHECK_DEADLOCK FALSE
