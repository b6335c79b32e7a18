\* Files of up to three blocks in both directions under every policy, disturbed twice.
SPECIFICATION FairSpec
CONSTANTS
  Directions = {"upload", "download"}
  Policies = {"off", "optional", "required"}
  BufBlocks = 2
  MaxLen = 3
  MaxTrouble = 2
INVARIANTS TypeOK Delivers DeliversAVersion RightSize
PROPERTIES RetriesDeliver
\* A transfer that has succeeded rests.
CHECK_DEADLOCK FALSE
