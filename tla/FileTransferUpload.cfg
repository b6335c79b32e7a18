\* An upload that is interrupted once and resumed, without verification.
SPECIFICATION Spec
CONSTANTS
  Directions = {"upload"}
  Policies = {"off"}
  BufBlocks = 2
  MaxLen = 3
  MaxTrouble = 1
INVARIANTS ResumeDelivers
CHECK_DEADLOCK FALSE
