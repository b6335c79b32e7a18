\* The program as it is: the watcher is spawned on the event loop's thread, outside any runtime.
\* Nothing else goes wrong, and the user does nothing.
SPECIFICATION FairSpec
CONSTANTS
  Selection = {{f1, f2}, {f3}}
  Directions = {"upload", "download"}
  Earlier = {}
  Conflicts = {}
  CollectFails = FALSE
  ClearBetween = FALSE
  InRuntime = FALSE
  UserOps = {}
PROPERTIES MoveEnds
CHECK_DEADLOCK FALSE
