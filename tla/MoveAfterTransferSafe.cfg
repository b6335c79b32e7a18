\* A directory of two files and one more file moved either way, the tasks cancelled, paused,
\* retried and cleared at any moment, with the watchers spawned inside the runtime.
SPECIFICATION Spec
CONSTANTS
  Selection = {{f1, f2}, {f3}}
  Directions = {"upload", "download"}
  Earlier = {}
  Conflicts = {f3}
  CollectFails = FALSE
  ClearBetween = FALSE
  InRuntime = TRUE
  UserOps = {"cancel", "pause", "requeue", "clear", "hold"}
INVARIANTS TypeOK NothingLost NoReaderLeft
\* A finished move and a settled queue rest.
CHECK_DEADLOCK FALSE
