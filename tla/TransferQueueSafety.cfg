\* Two tasks, one of which dials its own connection and finds a file in its
\* way; two worker slots; the user cancels, clears, pauses, retries and
\* quits at will.
SPECIFICATION Spec
CONSTANTS
  NumTasks = 2
  UI = UI
  Workers = {w1, w2}
  MaxLimit = 2
  DialAttempts = 1
  Isolated = {1}
  Preexisting = {1}
  UserOps = {"cancel", "clear", "pauseAll", "resumeAll", "pauseTask", "retry", "drop"}
  AwaitUnwind = FALSE
SYMMETRY WorkerSymmetry
INVARIANTS
  TypeOK ClientCustody RunningCount PausedQueueIsQuiet NoLostWakeup
  PausedByUser ListedCancelIsSeen FirstAttemptAsks DropEndsQueue
PROPERTIES ImplementsLifecycle
\* A quiet queue with every task settled really stops; so does a poisoned or a
\* dropped one.
CHECK_DEADLOCK FALSE
