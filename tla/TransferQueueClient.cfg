\* Looks for a run of the code that breaks QueuedOwnsClient.
SPECIFICATION Spec
CONSTANTS
  NumTasks = 2
  UI = UI
  Workers = {w1, w2, w3}
  MaxLimit = 2
  DialAttempts = 3
  Isolated = {1, 2}
  Preexisting = {1}
  UserOps = {"cancel", "clear", "pauseAll", "resumeAll", "pauseTask", "resumeTask", "retry"}
  AwaitUnwind = FALSE
SYMMETRY WorkerSymmetry
INVARIANT QueuedOwnsClient
CHECK_DEADLOCK FALSE
